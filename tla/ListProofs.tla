----------------------------- MODULE ListProofs -----------------------------
(***************************************************************************)
(* Proofs about the pages that list and search: the list pages             *)
(* (ConsoleLists, extended), the page of the matches (MatchesPage) and the *)
(* portal's lists (PortalLists), both instances over variables of their    *)
(* own.                                                                    *)
(***************************************************************************)
EXTENDS ListPages, SequenceLemmas

-----------------------------------------------------------------------------
(* The server's order.                                                     *)

\* How many elements of S are not above x.
Rank(S, x) == Cardinality({y \in S : y <= x})

\* Ranks number the elements of a finite set of integers.
LEMMA RankNumbers ==
    ASSUME NEW S \in SUBSET Int, IsFiniteSet(S)
    PROVE  /\ Cardinality(S) \in Nat
           /\ \A x \in S : Rank(S, x) \in 1..Cardinality(S)
           /\ \A x, y \in S : Rank(S, x) = Rank(S, y) => x = y
           /\ \A i \in 1..Cardinality(S) : \E x \in S : Rank(S, x) = i
<1> DEFINE below(x) == {y \in S : y <= x}
           n == Cardinality(S)
           f == [x \in S |-> Rank(S, x)]
<1>1. n \in Nat
  BY FS_CardinalityType
<1>2. ASSUME NEW x \in S
      PROVE  IsFiniteSet(below(x)) /\ Cardinality(below(x)) \in 1..n
  <2>1. below(x) \in SUBSET S
    OBVIOUS
  <2>2. IsFiniteSet(below(x)) /\ Cardinality(below(x)) <= n
    BY <2>1, FS_Subset
  <2>3. x \in below(x)
    OBVIOUS
  <2>4. Cardinality(below(x)) \in Nat
    BY <2>2, FS_CardinalityType
  <2>5. Cardinality(below(x)) # 0
    BY <2>2, <2>3, FS_EmptySet
  <2> HIDE DEF below, n
  <2> QED
    BY <1>1, <2>2, <2>4, <2>5
<1>3. \A x \in S : Rank(S, x) \in 1..n
  BY <1>2 DEF Rank
<1>4. ASSUME NEW x \in S, NEW y \in S, x < y
      PROVE  Rank(S, x) # Rank(S, y)
  <2>0. y <= y /\ ~(y <= x) /\ \A z \in S : z <= x => z <= y
    BY <1>4
  <2>1. below(x) \in SUBSET below(y) /\ y \in below(y) /\ y \notin below(x)
    BY <2>0
  <2>2. IsFiniteSet(below(y))
    BY <1>2
  <2>3. Cardinality(below(y)) = Cardinality(below(x)) => below(y) = below(x)
    BY <2>1, <2>2, FS_Subset
  <2>4. Cardinality(below(y)) # Cardinality(below(x))
    BY <2>1, <2>3
  <2> QED
    BY <2>4 DEF Rank
<1>5. \A x, y \in S : Rank(S, x) = Rank(S, y) => x = y
  <2> TAKE x, y \in S
  <2>1. x < y \/ y < x \/ x = y
    OBVIOUS
  <2> QED
    BY <1>4, <2>1
<1>6. f \in Injection(S, 1..n)
  <2>1. f \in [S -> 1..n]
    BY <1>3
  <2>2. \A x, y \in S : f[x] = f[y] => x = y
    BY <1>5
  <2>3. DOMAIN f = S
    OBVIOUS
  <2> HIDE DEF f, n
  <2> QED
    BY <2>1, <2>2, <2>3 DEF Injection, IsInjective
<1>7. IsFiniteSet(1..n) /\ Cardinality(1..n) = n
  <2> HIDE DEF n
  <2> QED
    BY <1>1, FS_Interval
<1>8. f \in Surjection(S, 1..n)
  <2> HIDE DEF f
  <2> QED
    BY <1>6, <1>7, FS_Injection
<1>9. \A i \in 1..n : \E x \in S : f[x] = i
  <2> HIDE DEF f, n
  <2> QED
    BY <1>8 DEF Surjection
<1> QED
  BY <1>1, <1>3, <1>5, <1>9

\* Ascending lists a finite set of numbers completely, once, in order.
LEMMA AscendingLists ==
    ASSUME NEW S \in SUBSET Int, IsFiniteSet(S)
    PROVE  /\ Ascending(S) \in Seq(S) /\ Len(Ascending(S)) = Cardinality(S)
           /\ Cardinality(S) \in Nat
           /\ \A i, j \in 1..Cardinality(S) : Ascending(S)[i] = Ascending(S)[j] => i = j
<1> DEFINE n == Cardinality(S)
           at(i) == CHOOSE x \in S : Cardinality({y \in S : y <= x}) = i
<1>1. /\ n \in Nat
      /\ \A i \in 1..n : \E x \in S : Cardinality({y \in S : y <= x}) = i
  BY RankNumbers DEF Rank
<1>2. ASSUME NEW i \in 1..n
      PROVE  at(i) \in S /\ Rank(S, at(i)) = i
  BY <1>1 DEF Rank
<1>3. Ascending(S) = [i \in 1..n |-> at(i)]
  BY DEF Ascending
<1> HIDE DEF at, n
<1>4. \A i \in 1..n : Ascending(S)[i] = at(i)
  BY <1>3
<1>5. Ascending(S) \in Seq(S) /\ Len(Ascending(S)) = n
  BY <1>1, <1>2, <1>3
<1>6. \A i, j \in 1..n : Ascending(S)[i] = Ascending(S)[j] => i = j
  BY <1>2, <1>4
<1> QED
  BY <1>1, <1>5, <1>6 DEF n

-----------------------------------------------------------------------------
(* A page of the server's list.                                            *)

\* No item is listed twice.
Once(r) == \A i, j \in DOMAIN r : r[i] = r[j] => i = j
\* A page as the server could have had it after n deletes.
PageOf(r, n) == r \in Seq(Items) /\ Once(r) /\ \A i \in DOMAIN r : r[i] \in Left(n)

\* Sets of items are finite sets of numbers.
LEMMA ItemsFinite ==
    ASSUME NEW S \in SUBSET Items
    PROVE  S \in SUBSET Int /\ IsFiniteSet(S) /\ Cardinality(S) \in Nat
<1>1. IsFiniteSet(Items) /\ S \in SUBSET Int
  BY ListAssumption, FS_Interval DEF Items
<1>2. IsFiniteSet(S)
  BY <1>1, FS_Subset
<1> QED
  BY <1>1, <1>2, FS_CardinalityType

\* What the server answers is a page of what is left, with cursors that are cursors.
LEMMA ListingIsPage ==
    ASSUME NEW f \in DOMAIN Match, NEW c \in Cursors, NEW n \in Nat
    PROVE  /\ PageOf(Listing(f, c, n), n)
           /\ NextOf(f, c, n) \in Cursors /\ PrevOf(f, c, n) \in Cursors
<1> DEFINE S == Page(f, c, n)
           p == Listing(f, c, n)
<1>1. N \in Nat /\ Match[f] \subseteq Items /\ Left(n) \subseteq Items
  BY ListAssumption DEF Left
<1>2. S \in SUBSET Items /\ S \subseteq Left(n)
  BY <1>1 DEF Page, Matching
<1>3. p = Ascending(S)
  BY DEF Listing
<1> HIDE DEF S, p
<1>4. S \in SUBSET Int /\ IsFiniteSet(S)
  BY <1>2, ItemsFinite
<1>5. /\ p \in Seq(S) /\ Len(p) \in Nat
      /\ \A i, j \in 1..Len(p) : p[i] = p[j] => i = j
  BY <1>3, <1>4, AscendingLists
<1>6. PageOf(p, n)
  <2>1. p \in Seq(Items) /\ DOMAIN p = 1..Len(p) /\ \A i \in 1..Len(p) : p[i] \in S
    BY <1>2, <1>5
  <2> QED
    BY <1>2, <1>5, <2>1 DEF PageOf, Once
<1>7. p # <<>> => p[1] \in Items /\ p[Len(p)] \in Items
  <2>1. p # <<>> => 1 \in 1..Len(p) /\ Len(p) \in 1..Len(p)
    BY <1>5, EmptySeq
  <2> QED
    BY <1>2, <1>5, <2>1
<1>8. 0 \in Cursors /\ \A x \in Items : x \in Cursors /\ -x \in Cursors
  BY <1>1 DEF Items, Cursors
<1>9. NextOf(f, c, n) \in Cursors
  BY <1>7, <1>8 DEF NextOf, p
<1>10. PrevOf(f, c, n) \in Cursors
  BY <1>7, <1>8 DEF PrevOf, p
<1> QED
  BY <1>6, <1>9, <1>10 DEF p

-----------------------------------------------------------------------------
(* ConsoleLists: what holds of the list and the requests under way.        *)

Counted == {"accounts", "groups", "storage", "leaderboards"}
Splices == {"records", "wallet", "chat"}

\* Before ngOnInit nothing was asked, unfolded or deleted.
NotYet ==
    ~ready =>
        /\ queries = <<>> /\ dialogs = <<>> /\ deletes = <<>> /\ purge = "no" /\ gone = <<>>
        /\ rows = <<>> /\ open = {} /\ unfolded = {}
        /\ ongoing = FALSE /\ failed = FALSE /\ shown = Search(Text[url.f], 0)

\* No row is there twice, positions that are remembered count from one, and only the
\* chat page deletes up to a date.
RowsOnce ==
    /\ Once(rows)
    /\ \A k \in DOMAIN dialogs : dialogs[k].i # 0
    /\ \A k \in DOMAIN deletes : deletes[k].i # 0
    /\ purge # "no" => view = "chat"

\* takeUntil(querySubject) on the accounts page: at most one search is under way, and
\* it is the last one made.
LastAsked ==
    view = "accounts" =>
        /\ ongoing => Len(queries) = 1 /\ Of(queries[1]) = wanted
        /\ ~ongoing => queries = <<>>

ListsBase == TypeOK /\ NotYet /\ RowsOnce /\ LastAsked

-----------------------------------------------------------------------------
(* The shapes of a step of a list page.                                    *)

\* ngOnInit of a page.
ListOpens ==
    /\ ~ready /\ ready' = TRUE
    /\ filter' \in Filters /\ count' \in Int
    /\ nextCursor' \in Cursors /\ prevCursor' \in Cursors
    /\ PageOf(rows', 0) /\ shown' \in Searches
    /\ view = "accounts" => shown' = shown
    /\ view = "chat" /\ ~url.set => rows' = <<>>
    /\ \/ view # "leaderboards" /\ UNCHANGED <<queries, ongoing, wanted>>
       \/ \E q \in Searches : /\ q.f \in Filters /\ queries' = <<Sent(q)>> /\ wanted' = q
                              /\ ongoing' = (view = "accounts")
    /\ UNCHANGED <<visit, role, sought, url, open, unfolded, dialogs, deletes, purge, gone, failed>>

\* A search, or the two of the storage page's button.
ListAsks(q) ==
    /\ ready /\ (Serial => Idle)
    /\ q \in Searches /\ q.f \in Filters /\ wanted' = q /\ sought' \in -1..N
    /\ queries' \in Seq(Query) /\ queries' # <<>>
    /\ \A i \in DOMAIN queries' :
          queries'[i] = Sent(q) \/ \E j \in DOMAIN queries : queries'[i] = queries[j]
    /\ view = "accounts" => Len(queries') = 1 /\ queries'[1] = Sent(q) /\ ongoing' = TRUE
    /\ view # "accounts" => ongoing' = ongoing
    /\ filter' \in Filters
    /\ UNCHANGED <<visit, role, ready, url, list, remove, failed>>

\* The answer to a search.
ListAnswers(k) ==
    /\ queries' = RemoveAt(queries, k)
    /\ \E n \in queries[k].at..Len(gone) :
          PageOf(rows', n) /\ (view = "leaderboards" => count' = Cardinality(Left(n)))
    /\ count' \in Int /\ shown' = Of(queries[k])
    /\ nextCursor' \in Cursors /\ prevCursor' \in Cursors
    /\ url' = url \/ url' \in [f: Filters, c: Cursors, set: {TRUE}]
    /\ view = "chat" => url'.set = TRUE
    /\ \/ open' = {} /\ unfolded' = {}
       \/ view \notin Splices /\ UNCHANGED <<open, unfolded>>
    /\ ongoing' = IF view = "accounts" THEN FALSE ELSE ongoing
    /\ UNCHANGED <<fixed, filter, remove, wanted, failed>>

\* The answer to a delete.
ListDrops(k) ==
    /\ deletes[k].done /\ deletes' = RemoveAt(deletes, k)
    /\ rows' = splice(rows, deletes[k].i)
    /\ \/ view \in Counted /\ count' = count - 1 /\ UNCHANGED <<open, unfolded>>
       \/ view \in Splices /\ DropUnfolded(deletes[k].i)
       \/ view \notin Counted \cup Splices /\ UNCHANGED <<count, open, unfolded>>
    /\ UNCHANGED <<fixed, filter, url, nextCursor, prevCursor, shown, queries, ongoing,
                   dialogs, purge, gone, wanted, failed>>

\* Every visit knows the empty filter.
LEMMA AllListed == TypeOK => /\ All \in Filters /\ Filters \subseteq DOMAIN Match
                            /\ \A f \in Filters : Text[f] \in Filters
BY ListAssumption DEF TypeOK, Filters

\* A search of the page.
LEMMA SearchTyped ==
    ASSUME TypeOK, NEW f \in Filters, NEW c \in Cursors, NEW x \in 0..N
    PROVE  LET q == [f |-> f, c |-> c, get |-> x]
           IN  /\ q \in Searches /\ q.f \in Filters /\ Sent(q) \in Query
               /\ Of(Sent(q)) = q /\ Sent(q).at = Len(gone)
<1> DEFINE q == [f |-> f, c |-> c, get |-> x]
<1>1. q \in Searches /\ q.f \in Filters
  BY AllListed DEF Searches
<1>2. Len(gone) \in Nat
  BY DEF TypeOK
<1>3. Sent(q) \in Query
  BY <1>2 DEF Sent, Query
<1>4. Of(Sent(q)) = q /\ Sent(q).at = Len(gone)
  BY DEF Of, Sent
<1> QED
  BY <1>1, <1>3, <1>4

\* A total is a number, counted or estimated.
LEMMA CountTyped ==
    ASSUME NEW n, ShowCount(n)
    PROVE  count' \in Int
<1>1. Left(n) \subseteq Items
  BY DEF Left
<1>2. Cardinality(Left(n)) \in Nat
  BY <1>1, ItemsFinite
<1>3. CASE view = "leaderboards"
  <2>1. count' = Cardinality(Left(n))
    BY <1>3 DEF ShowCount
  <2> QED
    BY <1>2, <2>1
<1>4. CASE view # "leaderboards"
  <2>1. count' \in Estimates
    BY <1>4 DEF ShowCount
  <2> QED
    BY <2>1, ListAssumption
<1> QED
  BY <1>3, <1>4

\* Each page's ngOnInit is a ListOpens step.
LEMMA OpensListed ==
    ASSUME ListsBase, Inits
    PROVE  ListOpens
<1>0. /\ TypeOK /\ url \in [f: Filters, c: Cursors, set: BOOLEAN] /\ filter \in Filters
      /\ count \in Int /\ nextCursor \in Cursors /\ prevCursor \in Cursors /\ shown \in Searches
      /\ url.f \in Filters /\ url.c \in Cursors /\ All \in Filters /\ 0 \in Nat
      /\ Filters \subseteq DOMAIN Match /\ 0 \in Cursors /\ 0 \in 0..N
      /\ Text[url.f] \in Filters
  BY AllListed, ListAssumption DEF ListsBase, TypeOK, Cursors
<1>1. ~ready => /\ queries = <<>> /\ ongoing = FALSE /\ rows = <<>> /\ shown = Search(Text[url.f], 0)
  BY DEF ListsBase, NotYet
<1>2. \A f \in Filters : /\ PageOf(Listing(f, 0, 0), 0) /\ NextOf(f, 0, 0) \in Cursors
                         /\ PrevOf(f, 0, 0) \in Cursors /\ Search(f, 0) \in Searches
  BY <1>0, ListingIsPage, SearchTyped DEF Search
<1>3. PageOf(<<>>, 0)
  BY DEF PageOf, Once
<1>13. ShowCount(0) => count' \in Int
  BY CountTyped
<1>4. \A q : Append(<<>>, q) = <<q>>
  OBVIOUS
<1>5. ASSUME NEW f \in Filters, NEW c \in Cursors
      PROVE  Search(f, c) \in Searches /\ Search(f, c).f \in Filters
  BY <1>0, SearchTyped DEF Search
<1>6. CASE AccountListInit
  <2>1. /\ ~ready /\ ready' = TRUE /\ view = "accounts" /\ filter' = url.f
        /\ rows' = Listing(Text[url.f], 0, 0) /\ nextCursor' = NextOf(Text[url.f], 0, 0)
        /\ prevCursor' = PrevOf(Text[url.f], 0, 0) /\ shown' = Search(Text[url.f], 0)
        /\ count' \in Int
        /\ UNCHANGED <<visit, role, sought, url, open, unfolded, dialogs, deletes, purge, gone, failed>>
    BY <1>6, <1>13 DEF AccountListInit, Opened, AccountSearchResolver, FirstPage, KeepOpen, remove
  <2>2. \/ UNCHANGED <<queries, ongoing, wanted>>
        \/ queries' = <<Sent(Search(url.f, url.c))>> /\ wanted' = Search(url.f, url.c) /\ ongoing' = TRUE
    BY <1>1, <1>4, <1>6, <2>1 DEF AccountListInit, AskAlone, Untouched
  <2>3. \/ UNCHANGED <<queries, ongoing, wanted>>
        \/ \E q \in Searches : /\ q.f \in Filters /\ queries' = <<Sent(q)>> /\ wanted' = q
                               /\ ongoing' = TRUE
    BY <1>0, <1>5, <2>2
  <2> QED
    BY <1>0, <1>1, <1>2, <1>3, <2>1, <2>3 DEF ListOpens
<1>7. ASSUME view \in {"groups", "storage"}, Opened(view), filter' = url.f,
             \/ Ask(Search(url.f, url.c)) /\ UNCHANGED ongoing
             \/ Untouched,
             FirstPage(url.f), ShowCount(0)
      PROVE  ListOpens
  <2>1. /\ ~ready /\ ready' = TRUE
        /\ rows' = Listing(url.f, 0, 0) /\ nextCursor' = NextOf(url.f, 0, 0)
        /\ prevCursor' = PrevOf(url.f, 0, 0) /\ shown' = Search(url.f, 0)
        /\ count' \in Int
        /\ UNCHANGED <<visit, role, sought, url, open, unfolded, dialogs, deletes, purge, gone, failed>>
    BY <1>7, <1>13 DEF Opened, FirstPage, KeepOpen, remove
  <2>2. \/ UNCHANGED <<queries, ongoing, wanted>>
        \/ queries' = <<Sent(Search(url.f, url.c))>> /\ wanted' = Search(url.f, url.c) /\ ongoing' = FALSE
    BY <1>1, <1>4, <1>7, <2>1 DEF Ask, Untouched
  <2>3. \/ UNCHANGED <<queries, ongoing, wanted>>
        \/ \E q \in Searches : /\ q.f \in Filters /\ queries' = <<Sent(q)>> /\ wanted' = q
                               /\ ongoing' = FALSE
    BY <1>0, <1>5, <2>2
  <2> QED
    BY <1>0, <1>1, <1>2, <1>3, <1>7, <2>1, <2>3 DEF ListOpens
<1>8. CASE GroupListInit \/ StorageListInit
  BY <1>7, <1>8 DEF GroupListInit, StorageListInit, GroupSearchResolver, StorageSearchResolver, Opened
<1>9. CASE LeaderboardsInit
  <2>1. /\ ~ready /\ ready' = TRUE /\ view = "leaderboards" /\ nextCursor' = url.c
        /\ queries' = Append(queries, Sent(Search(All, url.c))) /\ wanted' = Search(All, url.c)
        /\ UNCHANGED <<visit, role, sought, url, open, unfolded, dialogs, deletes, purge, gone, failed,
                       filter, rows, prevCursor, count, shown, ongoing>>
    BY <1>9 DEF LeaderboardsInit, Opened, Ask, KeepOpen, remove
  <2>2. queries' = <<Sent(Search(All, url.c))>> /\ ongoing' = FALSE
    BY <1>1, <1>4, <2>1
  <2>3. \E q \in Searches : /\ q.f \in Filters /\ queries' = <<Sent(q)>> /\ wanted' = q
                            /\ ongoing' = FALSE
    BY <1>0, <1>5, <2>1, <2>2
  <2> QED
    BY <1>0, <1>1, <1>3, <2>1, <2>3 DEF ListOpens, Counted
<1>10. ASSUME view \in {"records", "wallet", "notifications", "purchases", "subscriptions"},
              Plain(view), FirstPage(All)
       PROVE  ListOpens
  <2>1. /\ ~ready /\ ready' = TRUE
        /\ rows' = Listing(All, 0, 0) /\ nextCursor' = NextOf(All, 0, 0)
        /\ prevCursor' = PrevOf(All, 0, 0) /\ shown' = Search(All, 0)
        /\ UNCHANGED <<visit, role, sought, url, open, unfolded, dialogs, deletes, purge, gone, failed,
                       filter, count, queries, ongoing, wanted>>
    BY <1>10 DEF Plain, Opened, Untouched, FirstPage, KeepOpen, remove
  <2> QED
    BY <1>0, <1>2, <1>10, <2>1 DEF ListOpens, Counted
<1>11. CASE RecordsInit \/ WalletInit \/ NotificationsInit \/ PurchasesInit \/ SubscriptionsInit
  BY <1>10, <1>11 DEF RecordsInit, WalletInit, NotificationsInit, PurchasesInit, SubscriptionsInit,
     LeaderboardRecordsResolver, WalletLedgerResolver, NotificationsResolver, PurchasesResolver,
     SubscriptionsResolver, Plain, Opened
<1>12. CASE ChatListInit
  <2>1. /\ ~ready /\ ready' = TRUE /\ view = "chat" /\ filter' = url.f
        /\ UNCHANGED <<visit, role, sought, url, open, unfolded, dialogs, deletes, purge, gone, failed,
                       prevCursor, count, queries, ongoing, wanted>>
    BY <1>12 DEF ChatListInit, Opened, Untouched, KeepOpen, remove
  <2>2. PageOf(Listing(url.f, url.c, 0), 0) /\ NextOf(url.f, url.c, 0) \in Cursors
    BY <1>0, ListingIsPage
  <2>3. /\ nextCursor' \in Cursors /\ PageOf(rows', 0) /\ shown' \in Searches
        /\ ~url.set => rows' = <<>>
    <3>1. CASE /\ url.set /\ rows' = Listing(url.f, url.c, 0) /\ nextCursor' = NextOf(url.f, url.c, 0)
               /\ shown' = Search(url.f, url.c)
      BY <1>0, <1>5, <2>2, <3>1
    <3>2. CASE nextCursor' = url.c /\ UNCHANGED <<rows, shown>>
      BY <1>0, <1>1, <1>3, <2>1, <3>2
    <3> QED
      BY <1>12, <3>1, <3>2 DEF ChatListInit, ChatSearchResolver
  <2> QED
    BY <1>0, <2>1, <2>3 DEF ListOpens, Counted
<1> QED
  BY <1>6, <1>8, <1>9, <1>11, <1>12 DEF Inits

\* A search that is put behind those under way.
LEMMA AsksOne ==
    ASSUME ListsBase, MayAct, NEW f \in Filters, NEW c \in Cursors, NEW x \in 0..N,
           view # "accounts", Ask([f |-> f, c |-> c, get |-> x]), sought' \in -1..N,
           UNCHANGED <<visit, role, ready, filter, url, list, ongoing, remove, failed>>
    PROVE  ListAsks([f |-> f, c |-> c, get |-> x])
<1> DEFINE q == [f |-> f, c |-> c, get |-> x]
<1>0. TypeOK /\ queries \in Seq(Query)
  BY DEF ListsBase, TypeOK
<1>1. q \in Searches /\ q.f \in Filters /\ Sent(q) \in Query
  BY <1>0, SearchTyped
<1> HIDE DEF q
<1>2. queries' = Append(queries, Sent(q)) /\ wanted' = q
  BY DEF Ask, q
<1>3. /\ queries' \in Seq(Query) /\ queries' # <<>>
      /\ \A i \in DOMAIN queries' :
            queries'[i] = Sent(q) \/ \E j \in DOMAIN queries : queries'[i] = queries[j]
  BY <1>0, <1>1, <1>2, AppendRest
<1>4. filter \in Filters
  BY DEF ListsBase, TypeOK
<1>5. ListAsks(q)
  BY <1>1, <1>2, <1>3, <1>4 DEF ListAsks, MayAct
<1> QED
  BY <1>5 DEF q

\* Each page's search, next and previous are ListAsks steps.
LEMMA AsksListed ==
    ASSUME ListsBase, NEW s \in {-1, 0, 1},
           \/ AccountListSearch(s) \/ GroupListSearch(s) \/ StorageListSearch(s)
           \/ LeaderboardsSearch(s) \/ loadRecords(s) \/ WalletLoadData(s) \/ ChatSearch(s)
           \/ NotificationsLoadData(s) \/ PurchasesLoadData(s) \/ SubscriptionsLoadData(s)
    PROVE  \E q \in Searches : ListAsks(q)
<1> DEFINE c == CursorOf(s)
<1>0. TypeOK /\ queries \in Seq(Query) /\ filter \in Filters /\ All \in Filters /\ 0 \in 0..N
  BY AllListed, ListAssumption DEF ListsBase, TypeOK
<1>1. c \in Cursors
  BY ListAssumption DEF ListsBase, TypeOK, CursorOf, Cursors
<1> HIDE DEF c
<1>2. sought \in -1..N
  BY DEF ListsBase, TypeOK
<1>3. ASSUME NEW f \in Filters, NEW v \in ListViews \ {"accounts"}, Ask1(v, Search(f, c))
      PROVE  \E q \in Searches : ListAsks(q)
  <2>1. ListAsks(Search(f, c))
    BY <1>0, <1>1, <1>2, <1>3, AsksOne DEF Ask1, Search, fixed
  <2> QED
    BY <2>1 DEF ListAsks
<1>4. CASE AccountListSearch(s)
  <2>0. PICK f \in Filters : filter' = f /\ AskAlone(Search(f, c))
    BY <1>4 DEF AccountListSearch, c
  <2> DEFINE q == Search(f, c)
  <2>1. q \in Searches /\ q.f \in Filters /\ Sent(q) \in Query
    BY <1>0, <1>1, SearchTyped DEF Search
  <2> HIDE DEF q
  <2>2. /\ view = "accounts" /\ MayAct /\ wanted' = q /\ ongoing' = TRUE
        /\ queries' = IF ongoing THEN <<Sent(q)>> ELSE Append(queries, Sent(q))
        /\ filter' \in Filters
        /\ UNCHANGED <<fixed, url, list, remove, failed>>
    BY <1>4, <2>0 DEF AccountListSearch, AskAlone, q
  <2>3. queries' = <<Sent(q)>>
    <3>1. CASE ongoing
      BY <2>2, <3>1
    <3>2. CASE ~ongoing
      <4>1. queries = <<>> /\ Append(<<>>, Sent(q)) = <<Sent(q)>>
        BY <2>2, <3>2 DEF ListsBase, LastAsked
      <4> QED
        BY <2>2, <3>2, <4>1
    <3> QED
      BY <3>1, <3>2
  <2>4. queries' \in Seq(Query) /\ queries' # <<>> /\ Len(queries') = 1 /\ DOMAIN queries' = {1}
        /\ queries'[1] = Sent(q)
    BY <2>1, <2>3
  <2>5. ListAsks(q)
    BY <1>2, <2>1, <2>2, <2>4 DEF ListAsks, MayAct, fixed
  <2> QED
    BY <2>1, <2>5
<1>5. CASE /\ view = "storage" /\ MayAct
           /\ queries' = queries \o <<Sent(Search(filter, c)), Sent(Search(filter, c))>>
           /\ wanted' = Search(filter, c)
           /\ UNCHANGED <<fixed, filter, url, list, ongoing, remove, failed>>
  <2> DEFINE q == Search(filter, c)
             e == <<Sent(q), Sent(q)>>
  <2>1. q \in Searches /\ q.f \in Filters /\ Sent(q) \in Query
    BY <1>0, <1>1, SearchTyped DEF Search
  <2>2. /\ e \in Seq(Query) /\ Len(e) = 2 /\ DOMAIN e = 1..2 /\ e[1] = Sent(q) /\ e[2] = Sent(q)
    BY <2>1
  <2> HIDE DEF e, q
  <2>3. /\ queries \o e \in Seq(Query) /\ Len(queries \o e) = Len(queries) + 2 /\ Len(queries) \in Nat
        /\ \A i \in 1..Len(queries) + 2 :
              (queries \o e)[i] = IF i <= Len(queries) THEN queries[i] ELSE e[i - Len(queries)]
    <3>1. e \in Seq(Query) /\ queries \in Seq(Query) /\ Len(e) = 2 /\ Len(queries) \in Nat
      BY <1>0, <2>2
    <3>2. /\ queries \o e \in Seq(Query) /\ Len(queries \o e) = Len(queries) + Len(e)
          /\ \A i \in 1..Len(queries) + Len(e) :
                (queries \o e)[i] = IF i <= Len(queries) THEN queries[i] ELSE e[i - Len(queries)]
      BY ONLY <3>1, ConcatProperties
    <3> QED
      BY ONLY <3>1, <3>2
  <2>4. \A i \in 1..Len(queries) + 2 :
            (queries \o e)[i] = Sent(q) \/ \E j \in DOMAIN queries : (queries \o e)[i] = queries[j]
    <3> SUFFICES ASSUME NEW i \in 1..Len(queries) + 2
                 PROVE  (queries \o e)[i] = Sent(q) \/ \E j \in DOMAIN queries : (queries \o e)[i] = queries[j]
      OBVIOUS
    <3>1. CASE i <= Len(queries)
      BY <1>0, <2>3, <3>1
    <3>2. CASE ~(i <= Len(queries))
      <4>1. i - Len(queries) \in 1..2
        BY <2>3, <3>2
      <4>2. e[i - Len(queries)] = Sent(q)
        BY <2>2, <4>1
      <4> QED
        BY <2>3, <3>2, <4>2
    <3> QED
      BY <3>1, <3>2
  <2>5. queries' = queries \o e
    BY <1>5 DEF e, q
  <2>6. queries' \in Seq(Query) /\ queries' # <<>> /\ DOMAIN queries' = 1..Len(queries) + 2
    BY <2>3, <2>5
  <2>7. ListAsks(q)
    BY <1>0, <1>2, <1>5, <2>1, <2>4, <2>5, <2>6 DEF ListAsks, MayAct, fixed, q
  <2> QED
    BY <2>1, <2>7
<1>6. CASE SearchFrom("groups", filter, s) \/ SearchFrom("storage", filter, s)
           \/ SearchFrom("leaderboards", All, s) \/ SearchFrom("chat", filter, s)
  BY <1>0, <1>3, <1>6 DEF SearchFrom, ListViews, c
<1>7. CASE LoadFrom("records", s) \/ LoadFrom("wallet", s) \/ LoadFrom("notifications", s)
           \/ LoadFrom("purchases", s) \/ LoadFrom("subscriptions", s)
  BY <1>0, <1>3, <1>7 DEF LoadFrom, ListViews, c
<1>8. CASE StorageListSearch(s)
  BY <1>5, <1>6, <1>8 DEF StorageListSearch, c
<1> QED
  BY <1>4, <1>6, <1>7, <1>8 DEF GroupListSearch, LeaderboardsSearch, loadRecords, WalletLoadData,
     ChatSearch, NotificationsLoadData, PurchasesLoadData, SubscriptionsLoadData

\* A search for one item is a ListAsks step.
LEMMA FindsListed ==
    ASSUME ListsBase, NEW x \in 0..N, NotificationsFind(x) \/ PurchasesFind(x) \/ SubscriptionsFind(x)
    PROVE  \E q \in Searches : ListAsks(q)
<1>0. TypeOK /\ All \in Filters /\ 0 \in Cursors /\ x \in -1..N
  BY AllListed, ListAssumption DEF ListsBase, Cursors
<1>1. ASSUME NEW v \in {"notifications", "purchases", "subscriptions"}, Find(v, x)
      PROVE  \E q \in Searches : ListAsks(q)
  <2>1. /\ view # "accounts" /\ MayAct /\ Ask([f |-> All, c |-> 0, get |-> x]) /\ sought' \in -1..N
        /\ UNCHANGED <<visit, role, ready, filter, url, list, ongoing, remove, failed>>
    BY <1>0, <1>1 DEF Find
  <2>2. ListAsks([f |-> All, c |-> 0, get |-> x])
    BY <1>0, <2>1, AsksOne
  <2> QED
    BY <2>2 DEF ListAsks
<1> QED
  BY <1>1 DEF NotificationsFind, PurchasesFind, SubscriptionsFind

\* What a page shows of an answer that was found after n deletes.
LEMMA PageShown ==
    ASSUME ListsBase, NEW k \in DOMAIN queries, NEW n \in queries[k].at..Len(gone)
    PROVE  /\ n \in Nat /\ queries[k] \in Query /\ queries[k].c \in Cursors /\ queries[k].f \in Filters
           /\ PageOf(Listing(queries[k].f, queries[k].c, n), n)
           /\ NextOf(queries[k].f, queries[k].c, n) \in Cursors
           /\ PrevOf(queries[k].f, queries[k].c, n) \in Cursors
<1>1. TypeOK /\ queries \in Seq(Query) /\ gone \in Seq(Items)
  BY DEF ListsBase, TypeOK
<1>2. queries[k] \in Query
  BY <1>1
<1>3. queries[k].at \in Nat /\ queries[k].c \in Cursors /\ queries[k].f \in Filters
  BY <1>2 DEF Query
<1>4. n \in Nat
  BY <1>1, <1>3
<1>5. queries[k].f \in DOMAIN Match
  BY <1>1, <1>3, AllListed
<1> QED
  BY <1>2, <1>3, <1>4, <1>5, ListingIsPage

\* Each page's answer to a search is a ListAnswers step.
LEMMA AnswersListed ==
    ASSUME ListsBase, NEW k,
           \/ AccountListed(k) \/ GroupListed(k) \/ StorageListed(k) \/ LeaderboardsListed(k)
           \/ RecordsLoaded(k) \/ WalletLoaded(k) \/ postData(k)
           \/ NotificationsLoaded(k) \/ PurchasesLoaded(k) \/ SubscriptionsLoaded(k)
    PROVE  k \in DOMAIN queries /\ ListAnswers(k)
<1>0. /\ TypeOK /\ DOMAIN queries = 1..Len(queries) /\ filter \in Filters
      /\ nextCursor \in Cursors /\ prevCursor \in Cursors /\ count \in Int
      /\ url \in [f: Filters, c: Cursors, set: BOOLEAN]
  BY DEF ListsBase, TypeOK
<1>1. ASSUME NEW v \in Counted, Listed(v, k), ongoing' = IF v = "accounts" THEN FALSE ELSE ongoing
      PROVE  k \in DOMAIN queries /\ ListAnswers(k)
  <2>1. /\ k \in 1..Len(queries) /\ view = v /\ queries' = RemoveAt(queries, k)
        /\ UNCHANGED <<fixed, filter, remove, wanted, failed, open, unfolded, prevCursor>>
    BY <1>1 DEF Listed, Answer, KeepOpen
  <2>2. PICK n \in queries[k].at..Len(gone) :
            /\ rows' = Listing(queries[k].f, queries[k].c, n)
            /\ nextCursor' = NextOf(queries[k].f, queries[k].c, n)
            /\ shown' = Of(queries[k])
            /\ ShowCount(n)
            /\ url' = [f |-> filter, c |-> queries[k].c, set |-> TRUE]
    BY <1>1 DEF Listed, Answer, ShowRows, ShowUrl
  <2>3. k \in DOMAIN queries
    BY <1>0, <2>1
  <2>4. url' \in [f: Filters, c: Cursors, set: {TRUE}] /\ url'.set = TRUE
    BY <1>0, <2>2, <2>3, PageShown
  <2>5. /\ PageOf(rows', n) /\ count' \in Int /\ nextCursor' \in Cursors /\ prevCursor' \in Cursors
        /\ view = "leaderboards" => count' = Cardinality(Left(n))
    BY <1>0, <2>1, <2>2, <2>3, PageShown, CountTyped DEF ShowCount
  <2>6. view \notin Splices /\ (view = "accounts" <=> v = "accounts")
    BY <2>1 DEF Counted, Splices
  <2> QED
    BY <1>1, <2>1, <2>2, <2>3, <2>4, <2>5, <2>6 DEF ListAnswers
<1>2. ASSUME NEW v \in ListViews \ Counted, view = v, v # "chat", k \in 1..Len(queries),
             queries' = RemoveAt(queries, k),
             NEW n \in queries[k].at..Len(gone),
             rows' = Listing(queries[k].f, queries[k].c, n),
             nextCursor' = NextOf(queries[k].f, queries[k].c, n),
             shown' = Of(queries[k]),
             prevCursor' = PrevOf(queries[k].f, queries[k].c, n),
             open' = {}, unfolded' = {},
             UNCHANGED <<fixed, filter, remove, wanted, failed, url, count, ongoing>>
      PROVE  k \in DOMAIN queries /\ ListAnswers(k)
  <2>1. k \in DOMAIN queries
    BY <1>0, <1>2
  <2>2. /\ PageOf(rows', n) /\ count' \in Int /\ nextCursor' \in Cursors /\ prevCursor' \in Cursors
    BY <1>0, <1>2, <2>1, PageShown
  <2>3. view \notin Counted /\ view # "accounts" /\ view # "leaderboards" /\ view # "chat"
    BY <1>2 DEF Counted
  <2> QED
    BY <1>2, <2>1, <2>2, <2>3 DEF ListAnswers
<1>3. ASSUME NEW v \in {"records", "wallet"}, Loaded(v, k)
      PROVE  k \in DOMAIN queries /\ ListAnswers(k)
  <2>1. /\ k \in 1..Len(queries) /\ view = v /\ queries' = RemoveAt(queries, k)
        /\ UNCHANGED <<fixed, filter, remove, wanted, failed, url, count, ongoing>>
    BY <1>3 DEF Loaded, Answer
  <2>2. PICK n \in queries[k].at..Len(gone) :
            /\ rows' = Listing(queries[k].f, queries[k].c, n)
            /\ nextCursor' = NextOf(queries[k].f, queries[k].c, n)
            /\ shown' = Of(queries[k])
            /\ prevCursor' = PrevOf(queries[k].f, queries[k].c, n)
            /\ open' = {} /\ unfolded' = {}
    BY <1>3 DEF Loaded, Answer, ShowRows, ShowPrev, FoldAll
  <2>3. v \in ListViews \ Counted /\ v # "chat"
    BY DEF ListViews, Counted
  <2> QED
    BY <1>2, <2>1, <2>2, <2>3
<1>4. ASSUME NEW v \in {"notifications", "purchases", "subscriptions"}, FoundOrLoaded(v, k)
      PROVE  k \in DOMAIN queries /\ ListAnswers(k)
  <2>1. /\ k \in 1..Len(queries) /\ view = v /\ queries' = RemoveAt(queries, k)
        /\ UNCHANGED <<fixed, filter, remove, wanted, failed, url, count, ongoing>>
    BY <1>4 DEF FoundOrLoaded, Answer
  <2>2. v \in ListViews \ Counted /\ v # "chat" /\ v \notin Splices /\ v # "accounts"
    BY DEF ListViews, Counted, Splices
  <2>3. PICK n \in queries[k].at..Len(gone) :
            IF queries[k].get # 0
            THEN /\ queries[k].get \in Matching(queries[k].f, n)
                 /\ rows' = <<queries[k].get>> /\ shown' = Of(queries[k])
                 /\ UNCHANGED <<nextCursor, prevCursor, open, unfolded>>
            ELSE /\ rows' = Listing(queries[k].f, queries[k].c, n)
                 /\ nextCursor' = NextOf(queries[k].f, queries[k].c, n)
                 /\ shown' = Of(queries[k])
                 /\ prevCursor' = PrevOf(queries[k].f, queries[k].c, n)
                 /\ open' = {} /\ unfolded' = {}
    BY <1>4 DEF FoundOrLoaded, Answer, ShowRows, ShowPrev, FoldAll
  <2>4. CASE queries[k].get # 0
    <3>1. queries[k].get \in Left(n) /\ Left(n) \subseteq Items
      BY <2>3, <2>4 DEF Left, Matching
    <3> DEFINE x == queries[k].get
    <3>2. x \in Items /\ x \in Left(n)
      BY <3>1
    <3> HIDE DEF x
    <3>3. <<x>> \in Seq(Items) /\ DOMAIN <<x>> = {1} /\ <<x>>[1] = x
      BY <3>2
    <3>4. PageOf(<<x>>, n)
      BY <3>2, <3>3 DEF PageOf, Once
    <3>5. PageOf(rows', n) /\ k \in DOMAIN queries
      BY <1>0, <2>1, <2>3, <2>4, <3>4 DEF x
    <3> QED
      BY <1>0, <2>1, <2>2, <2>3, <2>4, <3>5 DEF ListAnswers
  <2>5. CASE queries[k].get = 0
    BY <1>2, <2>1, <2>2, <2>3, <2>5
  <2> QED
    BY <2>4, <2>5
<1>5. CASE postData(k)
  <2>1. /\ k \in 1..Len(queries) /\ view = "chat" /\ queries' = RemoveAt(queries, k)
        /\ UNCHANGED <<fixed, filter, remove, wanted, failed, prevCursor, count, ongoing>>
    BY <1>5 DEF postData, Answer
  <2>2. PICK n \in queries[k].at..Len(gone) :
            /\ rows' = Listing(queries[k].f, queries[k].c, n)
            /\ nextCursor' = NextOf(queries[k].f, queries[k].c, n)
            /\ shown' = Of(queries[k])
            /\ url' = [f |-> filter, c |-> queries[k].c, set |-> TRUE]
            /\ open' = {} /\ unfolded' = {}
    BY <1>5 DEF postData, Answer, ShowRows, ShowUrl, FoldAll
  <2>3. k \in DOMAIN queries
    BY <1>0, <2>1
  <2>4. url' \in [f: Filters, c: Cursors, set: {TRUE}] /\ url'.set = TRUE
    BY <1>0, <2>2, <2>3, PageShown
  <2>5. /\ PageOf(rows', n) /\ count' \in Int /\ nextCursor' \in Cursors /\ prevCursor' \in Cursors
    BY <1>0, <2>1, <2>2, <2>3, PageShown
  <2> QED
    BY <2>1, <2>2, <2>3, <2>4, <2>5 DEF ListAnswers, Counted
<1>6. CASE AccountListed(k) \/ GroupListed(k) \/ StorageListed(k) \/ LeaderboardsListed(k)
  BY <1>1, <1>6 DEF AccountListed, GroupListed, StorageListed, LeaderboardsListed, Counted
<1>7. CASE RecordsLoaded(k) \/ WalletLoaded(k)
  BY <1>3, <1>7 DEF RecordsLoaded, WalletLoaded
<1>8. CASE NotificationsLoaded(k) \/ PurchasesLoaded(k) \/ SubscriptionsLoaded(k)
  BY <1>4, <1>8 DEF NotificationsLoaded, PurchasesLoaded, SubscriptionsLoaded
<1> QED
  BY <1>5, <1>6, <1>7, <1>8

\* Each page's answer to a delete is a ListDrops step.
LEMMA DropsListed ==
    ASSUME NEW k,
           \/ AccountDeleted(k) \/ GroupDeleted(k) \/ StorageDeleted(k) \/ LeaderboardDeleted(k)
           \/ RecordDeleted(k) \/ LedgerDeleted(k) \/ NotificationDeleted(k) \/ MessageDeleted(k)
    PROVE  k \in DOMAIN deletes /\ ListDrops(k)
<1>1. ASSUME Done(k), DropRow(deletes[k].i),
             \/ view \in Counted /\ count' = count - 1 /\ UNCHANGED <<open, unfolded>>
             \/ view \in Splices /\ DropUnfolded(deletes[k].i)
             \/ view \notin Counted \cup Splices /\ UNCHANGED <<count, open, unfolded>>
      PROVE  k \in DOMAIN deletes /\ ListDrops(k)
  BY <1>1 DEF Done, DropRow, ListDrops
<1>2. CASE AccountDeleted(k) \/ GroupDeleted(k) \/ StorageDeleted(k) \/ LeaderboardDeleted(k)
  BY <1>1, <1>2 DEF AccountDeleted, GroupDeleted, StorageDeleted, LeaderboardDeleted, DropCounted,
     KeepOpen, Counted
<1>3. CASE RecordDeleted(k) \/ LedgerDeleted(k) \/ MessageDeleted(k)
  BY <1>1, <1>3 DEF RecordDeleted, LedgerDeleted, MessageDeleted, DropUnfolded, Splices
<1>4. CASE NotificationDeleted(k)
  BY <1>1, <1>4 DEF NotificationDeleted, KeepOpen, Counted, Splices
<1> QED
  BY <1>2, <1>3, <1>4

\* What a page that has been opened does.
ListActs ==
    \/ \E q \in Searches : ListAsks(q)
    \/ \E k \in DOMAIN queries : ListAnswers(k) \/ SearchFailed(k)
    \/ \E k \in DOMAIN deletes : ServerDeletes(k) \/ ListDrops(k) \/ DeleteFailed(k)
    \/ \E i \in 1..N : openDeleteConfirmModal(i) \/ Toggle(i)
    \/ \E k \in DOMAIN dialogs : confirm(k) \/ closeModal(k)
    \/ \E f \in Filters : SetFilter(f)
    \/ AccountCancelQuery
    \/ deleteData \/ DataDeleted \/ DataDeleteFailed
    \/ \E b \in BOOLEAN : deleteDataConfirm(b)
    \/ \E x \in Items : ServerDeletesData(x)

\* Every step of the specification has one of the shapes above.
LEMMA ListSteps ==
    ASSUME ListsBase, Next
    PROVE  ListOpens \/ ListActs
<1>1. CASE Inits
  BY <1>1, OpensListed
<1>2. CASE Searching
  <2>1. CASE \E f \in Filters : SetFilter(f)
    BY <2>1 DEF ListActs
  <2>2. CASE AccountCancelQuery
    BY <2>2 DEF ListActs
  <2>3. CASE \E s \in {-1, 0, 1} :
                 \/ AccountListSearch(s) \/ GroupListSearch(s) \/ StorageListSearch(s)
                 \/ LeaderboardsSearch(s) \/ loadRecords(s) \/ WalletLoadData(s) \/ ChatSearch(s)
                 \/ NotificationsLoadData(s) \/ PurchasesLoadData(s) \/ SubscriptionsLoadData(s)
    BY <2>3, AsksListed DEF ListActs
  <2>4. CASE \E x \in 0..N : NotificationsFind(x) \/ PurchasesFind(x) \/ SubscriptionsFind(x)
    BY <2>4, FindsListed DEF ListActs
  <2>5. ASSUME NEW k,
               \/ AccountListed(k) \/ GroupListed(k) \/ StorageListed(k) \/ LeaderboardsListed(k)
               \/ RecordsLoaded(k) \/ WalletLoaded(k) \/ postData(k)
               \/ NotificationsLoaded(k) \/ PurchasesLoaded(k) \/ SubscriptionsLoaded(k)
        PROVE  ListActs
    BY <2>5, AnswersListed DEF ListActs
  <2>6. ASSUME NEW k, SearchFailed(k)
        PROVE  ListActs
    BY <2>6 DEF ListActs, SearchFailed
  <2> QED
    BY <1>2, <2>1, <2>2, <2>3, <2>4, <2>5, <2>6 DEF Searching
<1>3. CASE Removing
  <2>1. ASSUME NEW i \in 1..N,
               \/ AccountDelete(i) \/ GroupDelete(i) \/ StorageDelete(i) \/ LeaderboardDelete(i)
               \/ RecordDelete(i) \/ LedgerDelete(i) \/ NotificationDelete(i) \/ MessageDelete(i)
               \/ Toggle(i)
        PROVE  ListActs
    <3>1. openDeleteConfirmModal(i) \/ Toggle(i)
      BY <2>1 DEF AccountDelete, GroupDelete, StorageDelete, LeaderboardDelete, RecordDelete,
         LedgerDelete, NotificationDelete, MessageDelete
    <3> QED
      BY <3>1 DEF ListActs
  <2>2. ASSUME NEW k, confirm(k) \/ closeModal(k)
        PROVE  ListActs
    <3>1. k \in DOMAIN dialogs
      BY <2>2 DEF confirm, closeModal
    <3> QED
      BY <2>2, <3>1 DEF ListActs
  <2>3. ASSUME NEW k,
               \/ AccountDeleted(k) \/ GroupDeleted(k) \/ StorageDeleted(k) \/ LeaderboardDeleted(k)
               \/ RecordDeleted(k) \/ LedgerDeleted(k) \/ NotificationDeleted(k) \/ MessageDeleted(k)
        PROVE  ListActs
    BY <2>3, DropsListed DEF ListActs
  <2>4. ASSUME NEW k, ServerDeletes(k) \/ DeleteFailed(k)
        PROVE  ListActs
    BY <2>4 DEF ListActs, ServerDeletes, DeleteFailed
  <2>5. CASE \/ deleteData \/ DataDeleted \/ DataDeleteFailed
             \/ \E b \in BOOLEAN : deleteDataConfirm(b)
             \/ \E x \in Items : ServerDeletesData(x)
    BY <2>5 DEF ListActs
  <2> QED
    BY <1>3, <2>1, <2>2, <2>3, <2>4, <2>5 DEF Removing
<1> QED
  BY <1>1, <1>2, <1>3 DEF Next

\* Only an opened page acts, and it stays the page it is.
LEMMA ActsOpened ==
    ASSUME ListsBase, ListActs
    PROVE  ready /\ ready' = ready /\ visit' = visit /\ role' = role
<1>0. ~ready => queries = <<>> /\ dialogs = <<>> /\ deletes = <<>> /\ purge = "no" /\ ongoing = FALSE
  BY DEF ListsBase, NotYet
<1>1. ASSUME NEW s, s = <<>>
      PROVE  DOMAIN s = {}
  BY <1>1
<1>2. CASE \E q \in Searches : ListAsks(q)
  BY <1>2 DEF ListAsks
<1>3. CASE \E k \in DOMAIN queries : ListAnswers(k) \/ SearchFailed(k)
  BY <1>0, <1>1, <1>3 DEF ListAnswers, SearchFailed, fixed
<1>4. CASE \E k \in DOMAIN deletes : ServerDeletes(k) \/ ListDrops(k) \/ DeleteFailed(k)
  BY <1>0, <1>1, <1>4 DEF ServerDeletes, ListDrops, DeleteFailed, fixed
<1>5. CASE \E i \in 1..N : openDeleteConfirmModal(i) \/ Toggle(i)
  BY <1>5 DEF openDeleteConfirmModal, Toggle, MayAct, fixed
<1>6. CASE \E k \in DOMAIN dialogs : confirm(k) \/ closeModal(k)
  BY <1>0, <1>1, <1>6 DEF confirm, closeModal, fixed
<1>7. CASE \E f \in Filters : SetFilter(f)
  BY <1>7 DEF SetFilter, MayAct, fixed
<1>8. CASE AccountCancelQuery
  BY <1>0, <1>8 DEF AccountCancelQuery, fixed
<1>9. CASE deleteData \/ DataDeleteFailed \/ \E b \in BOOLEAN : deleteDataConfirm(b)
  BY <1>0, <1>9 DEF deleteData, DataDeleteFailed, deleteDataConfirm, MayAct, fixed
<1>10. CASE DataDeleted \/ \E x \in Items : ServerDeletesData(x)
  BY <1>0, <1>10 DEF DataDeleted, ServerDeletesData, fixed
<1> QED
  BY <1>2, <1>3, <1>4, <1>5, <1>6, <1>7, <1>8, <1>9, <1>10 DEF ListActs

-----------------------------------------------------------------------------
(* ConsoleLists: the types, and what the requests remember.                *)

\* Array.splice takes out the row at the position it is given, and no other.
LEMMA SpliceKeeps ==
    ASSUME NEW r \in Seq(Items), Once(r), NEW i
    PROVE  /\ splice(r, i) \in Seq(Items) /\ Once(splice(r, i))
           /\ i \notin DOMAIN r => splice(r, i) = r
           /\ i \in DOMAIN r =>
                 /\ DOMAIN splice(r, i) = 1..Len(r) - 1 /\ Len(r) \in Nat
                 /\ \A j \in 1..Len(r) - 1 : splice(r, i)[j] = IF j < i THEN r[j] ELSE r[j + 1]
                 /\ \A j \in DOMAIN splice(r, i) :
                       splice(r, i)[j] # r[i] /\ \E h \in DOMAIN r : splice(r, i)[j] = r[h]
<1>1. CASE i \notin DOMAIN r
  BY <1>1 DEF splice
<1>2. CASE i \in DOMAIN r
  <2> DEFINE w == RemoveAt(r, i)
  <2>1. splice(r, i) = w
    BY <1>2 DEF splice
  <2>2. /\ w \in Seq(Items) /\ Len(w) = Len(r) - 1
        /\ \A j \in 1..Len(r) - 1 : w[j] = IF j < i THEN r[j] ELSE r[j + 1]
    <3>1. i \in 1..Len(r)
      BY <1>2
    <3> QED
      BY <3>1, RemoveAtPlaces
  <2>3. \A j \in DOMAIN w : \E h \in DOMAIN r : h # i /\ w[j] = r[h]
    BY <1>2, RemoveAtRest
  <2>4. \A h, j \in DOMAIN w : h # j => \E m, n \in DOMAIN r : m # n /\ w[h] = r[m] /\ w[j] = r[n]
    BY <1>2, RemoveAtTwo
  <2> HIDE DEF w
  <2>5. Once(w)
    BY <2>4 DEF Once
  <2>6. \A j \in DOMAIN w : w[j] # r[i]
    BY <1>2, <2>3 DEF Once
  <2>7. DOMAIN w = 1..Len(r) - 1 /\ Len(r) \in Nat
    BY <2>2
  <2> QED
    BY <1>2, <2>1, <2>2, <2>3, <2>5, <2>6, <2>7
<1> QED
  BY <1>1, <1>2

\* What the server has deleted grows.
LEMMA GoneGrows ==
    ASSUME gone \in Seq(Items), NEW x \in Items
    PROVE  Delete1(x) \in Seq(Items)
BY DEF Delete1

\* What a visit fixes stays fixed.
LEMMA ListParameters ==
    ASSUME visit' = visit
    PROVE  view' = view /\ Filters' = Filters /\ Serial' = Serial /\ Query' = Query
BY DEF view, Filters, Serial, Query

\* The types of what a step leaves, with the filters of the visit it is about.
StaysTyped ==
    /\ ready' \in BOOLEAN /\ sought' \in -1..N
    /\ filter' \in Filters /\ url' \in [f: Filters, c: Cursors, set: BOOLEAN]
    /\ rows' \in Seq(Items) /\ nextCursor' \in Cursors /\ prevCursor' \in Cursors
    /\ count' \in Int /\ open' \subseteq Nat /\ unfolded' \subseteq Items
    /\ queries' \in Seq(Query) /\ ongoing' \in BOOLEAN
    /\ dialogs' \in Seq(Row) /\ deletes' \in Seq(Delete)
    /\ purge' \in {"no", "dialog", "deleting", "deleted"} /\ gone' \in Seq(Items)
    /\ wanted' \in Searches /\ shown' \in Searches /\ failed' \in BOOLEAN

\* The types are kept.
LEMMA ListTypeStep ==
    ASSUME ListsBase, ListOpens \/ ListActs, crossed' = (crossed \/ Crossing')
    PROVE  TypeOK'
<1>0. TypeOK /\ RowsOnce
  BY DEF ListsBase
<1>1. /\ visit \in Visits /\ role \in RoleSet /\ ready \in BOOLEAN /\ sought \in -1..N
      /\ filter \in Filters /\ url \in [f: Filters, c: Cursors, set: BOOLEAN]
      /\ rows \in Seq(Items) /\ nextCursor \in Cursors /\ prevCursor \in Cursors /\ count \in Int
      /\ open \subseteq Nat /\ unfolded \subseteq Items
      /\ queries \in Seq(Query) /\ ongoing \in BOOLEAN
      /\ dialogs \in Seq(Row) /\ deletes \in Seq(Delete)
      /\ purge \in {"no", "dialog", "deleting", "deleted"} /\ gone \in Seq(Items)
      /\ wanted \in Searches /\ shown \in Searches /\ failed \in BOOLEAN
  BY <1>0 DEF TypeOK
<1>2. visit' = visit /\ role' = role
  BY ActsOpened DEF ListOpens
<1>3. Filters' = Filters /\ Query' = Query
  BY <1>2, ListParameters
<1>4. SUFFICES StaysTyped
  <2>1. crossed' \in BOOLEAN
    BY <1>0 DEF TypeOK, Crossing
  <2> QED
    BY <1>1, <1>2, <1>3, <2>1 DEF TypeOK, StaysTyped
<1>5. CASE ListOpens
  <2>1. queries' \in Seq(Query) /\ ongoing' \in BOOLEAN /\ wanted' \in Searches
    <3>1. CASE UNCHANGED <<queries, ongoing, wanted>>
      BY <1>1, <3>1
    <3>2. ASSUME NEW q \in Searches, q.f \in Filters, queries' = <<Sent(q)>>, wanted' = q,
                 ongoing' = (view = "accounts")
          PROVE  queries' \in Seq(Query) /\ ongoing' \in BOOLEAN /\ wanted' \in Searches
      <4>1. Len(gone) \in Nat
        BY <1>1
      <4>2. Sent(q) \in Query
        BY <3>2, <4>1 DEF Sent, Query, Searches
      <4> QED
        BY <3>2, <4>2
    <3> QED
      BY <1>5, <3>1, <3>2 DEF ListOpens
  <2> QED
    BY <1>1, <1>5, <2>1 DEF ListOpens, PageOf, StaysTyped
<1>6. CASE \E q \in Searches : ListAsks(q)
  BY <1>1, <1>6 DEF ListAsks, list, remove, StaysTyped
<1>7. ASSUME NEW k \in DOMAIN queries, ListAnswers(k)
      PROVE  StaysTyped
  <2>1. queries' \in Seq(Query)
    BY <1>1, <1>7, RemoveAtRest DEF ListAnswers
  <2>2. Of(queries[k]) \in Searches
    <3>1. queries[k] \in Query
      BY <1>1
    <3> QED
      BY <1>0, <3>1, AllListed DEF Query, Searches, Of
  <2>3. rows' \in Seq(Items)
    BY <1>7 DEF ListAnswers, PageOf
  <2>4. ongoing' \in BOOLEAN
    BY <1>1, <1>7 DEF ListAnswers
  <2>5. url' \in [f: Filters, c: Cursors, set: BOOLEAN]
    BY <1>1, <1>7 DEF ListAnswers
  <2> QED
    BY <1>1, <1>7, <2>1, <2>2, <2>3, <2>4, <2>5 DEF ListAnswers, fixed, remove, StaysTyped
<1>8. ASSUME NEW k \in DOMAIN queries, SearchFailed(k)
      PROVE  StaysTyped
  <2>1. queries' \in Seq(Query)
    BY <1>1, <1>8, RemoveAtRest DEF SearchFailed
  <2> QED
    BY <1>1, <1>8, <2>1 DEF SearchFailed, fixed, list, remove, StaysTyped
<1>17. ASSUME NEW k \in DOMAIN deletes, ServerDeletes(k)
       PROVE  StaysTyped
  <2>1. deletes[k] \in Delete
    BY <1>1
  <2>2. deletes[k].item \in Items /\ [deletes[k] EXCEPT !.done = TRUE] \in Delete
    BY <2>1 DEF Delete
  <2>3. gone' \in Seq(Items)
    BY <1>1, <1>17, <2>2, GoneGrows DEF ServerDeletes
  <2>4. deletes' \in Seq(Delete)
    BY <1>1, <1>17, <2>2 DEF ServerDeletes
  <2> QED
    BY <1>1, <1>17, <2>3, <2>4 DEF ServerDeletes, fixed, list, StaysTyped
<1>9. ASSUME NEW k \in DOMAIN deletes, ListDrops(k) \/ DeleteFailed(k)
      PROVE  StaysTyped
  <2>1. deletes' \in Seq(Delete)
    BY <1>1, <1>9, RemoveAtRest DEF ListDrops, DeleteFailed
  <2>2. deletes[k] \in Delete
    BY <1>1
  <2>3. deletes[k].item \in Items /\ deletes[k].i \in Nat
    BY <2>2 DEF Delete
  <2>4. gone' \in Seq(Items)
    BY <1>1, <1>9 DEF ListDrops, DeleteFailed
  <2>5. CASE DeleteFailed(k)
    BY <1>1, <2>1, <2>4, <2>5 DEF DeleteFailed, fixed, list, StaysTyped
  <2>6. CASE ListDrops(k)
    <3>1. rows' \in Seq(Items)
      BY <1>0, <1>1, <2>6, SpliceKeeps DEF ListDrops, RowsOnce
    <3>2. count' \in Int /\ open' \subseteq Nat /\ unfolded' \subseteq Items
      <4>1. CASE view \in Counted /\ count' = count - 1 /\ UNCHANGED <<open, unfolded>>
        BY <1>1, <4>1
      <4>2. CASE UNCHANGED <<count, open, unfolded>>
        BY <1>1, <4>2
      <4>3. CASE DropUnfolded(deletes[k].i)
        <5>1. unfolded' \subseteq Items /\ count' \in Int /\ open' = spliceOpen(deletes[k].i)
          BY <1>1, <4>3 DEF DropUnfolded
        <5>2. spliceOpen(deletes[k].i) \subseteq Nat
          <6>1. \A j \in Nat, i \in Nat : j > i => j - 1 \in Nat
            OBVIOUS
          <6> QED
            BY <1>1, <2>3, <6>1 DEF spliceOpen
        <5> QED
          BY <5>1, <5>2
      <4> QED
        BY <2>6, <4>1, <4>2, <4>3 DEF ListDrops
    <3> QED
      BY <1>1, <2>1, <2>4, <2>6, <3>1, <3>2 DEF ListDrops, fixed, StaysTyped
  <2> QED
    BY <1>9, <2>5, <2>6
<1>10. ASSUME NEW i \in 1..N, openDeleteConfirmModal(i)
       PROVE  StaysTyped
  <2>1. [i |-> i, item |-> rows[i]] \in Row
    BY <1>1, <1>10 DEF openDeleteConfirmModal, Row
  <2>2. dialogs' \in Seq(Row)
    BY <1>1, <1>10, <2>1, AppendRest DEF openDeleteConfirmModal
  <2> QED
    BY <1>1, <1>10, <2>2 DEF openDeleteConfirmModal, fixed, list, StaysTyped
<1>11. ASSUME NEW i \in 1..N, Toggle(i)
       PROVE  StaysTyped
  <2>1. i \in Nat /\ rows[i] \in Items
    BY <1>1, <1>11, ListAssumption DEF Toggle
  <2>2. open' \subseteq Nat /\ unfolded' \subseteq Items
    BY <1>1, <1>11, <2>1 DEF Toggle
  <2> QED
    BY <1>1, <1>11, <2>2 DEF Toggle, fixed, remove, StaysTyped
<1>12. ASSUME NEW k \in DOMAIN dialogs, confirm(k) \/ closeModal(k)
       PROVE  StaysTyped
  <2>1. dialogs' \in Seq(Row) /\ dialogs[k] \in Row
    BY <1>1, <1>12, RemoveAtRest DEF confirm, closeModal
  <2>2. deletes' \in Seq(Delete)
    <3>1. CASE confirm(k)
      <4> DEFINE d == [i |-> dialogs[k].i, item |-> dialogs[k].item, done |-> FALSE]
      <4>1. deletes' = Append(deletes, d)
        BY <3>1 DEF confirm
      <4>2. d \in Delete
        BY <2>1 DEF Row, Delete
      <4> HIDE DEF d
      <4> QED
        BY <1>1, <4>1, <4>2, AppendRest
    <3>2. CASE closeModal(k)
      BY <1>1, <3>2 DEF closeModal
    <3> QED
      BY <1>12, <3>1, <3>2
  <2> QED
    BY <1>1, <1>12, <2>1, <2>2 DEF confirm, closeModal, fixed, list, StaysTyped
<1>13. CASE \E f \in Filters : SetFilter(f)
  BY <1>1, <1>13 DEF SetFilter, fixed, list, remove, StaysTyped
<1>14. CASE AccountCancelQuery
  <2>0. queries' = <<>> /\ ongoing' = FALSE
    BY <1>14 DEF AccountCancelQuery
  <2>1. queries' \in Seq(Query) /\ ongoing' \in BOOLEAN
    BY <2>0, EmptySeq
  <2>2. UNCHANGED <<fixed, filter, url, list, remove, wanted, failed>>
    BY <1>14 DEF AccountCancelQuery
  <2> QED
    BY <1>1, <2>1, <2>2 DEF fixed, list, remove, StaysTyped
<1>15. CASE deleteData \/ DataDeleteFailed \/ \E b \in BOOLEAN : deleteDataConfirm(b)
  BY <1>1, <1>15 DEF deleteData, DataDeleteFailed, deleteDataConfirm, fixed, list, StaysTyped
<1>16. ASSUME NEW x \in Items, ServerDeletesData(x)
       PROVE  StaysTyped
  <2> DEFINE old == {y \in Left(Len(gone)) : y <= x}
  <2>1. gone' = gone \o Ascending(old) /\ purge' = "deleted"
        /\ UNCHANGED <<fixed, filter, url, list, queries, ongoing, dialogs, deletes, wanted, failed>>
    BY <1>16 DEF ServerDeletesData
  <2>2. old \in SUBSET Items
    BY DEF Left
  <2> HIDE DEF old
  <2>3. Ascending(old) \in Seq(Items)
    BY <2>2, ItemsFinite, AscendingLists
  <2>4. gone' \in Seq(Items)
    BY <1>1, <2>1, <2>3, ConcatProperties
  <2> QED
    BY <1>1, <2>1, <2>4 DEF fixed, list, StaysTyped
<1>18. CASE DataDeleted
  <2>1. purge' = "no" /\ UNCHANGED <<fixed, filter, url, list, ongoing, dialogs, deletes, gone, failed>>
    BY <1>18 DEF DataDeleted
  <2>2. queries' \in Seq(Query) /\ wanted' \in Searches
    <3>1. CASE UNCHANGED <<queries, wanted>>
      BY <1>1, <3>1
    <3>2. CASE Ask(Search(url.f, url.c))
      <4>1. url.f \in Filters /\ url.c \in Cursors /\ 0 \in 0..N
        BY <1>1, ListAssumption
      <4>2. Sent(Search(url.f, url.c)) \in Query /\ Search(url.f, url.c) \in Searches
        BY <1>0, <4>1, SearchTyped DEF Search
      <4>3. queries' = Append(queries, Sent(Search(url.f, url.c))) /\ wanted' = Search(url.f, url.c)
        BY <3>2 DEF Ask
      <4> QED
        BY <1>1, <4>2, <4>3, AppendRest
    <3> QED
      BY <1>18, <3>1, <3>2 DEF DataDeleted
  <2> QED
    BY <1>1, <2>1, <2>2 DEF fixed, list, StaysTyped
<1> QED
  BY <1>5, <1>6, <1>7, <1>8, <1>9, <1>10, <1>11, <1>12, <1>13, <1>14, <1>15, <1>16,
     <1>17, <1>18 DEF ListActs

\* A page that was not opened has done nothing.
LEMMA NotYetStep ==
    ASSUME ListsBase, ListOpens \/ ListActs
    PROVE  NotYet'
<1>1. ready' = TRUE
  <2>1. ready \in BOOLEAN
    BY DEF ListsBase, TypeOK
  <2> QED
    BY <2>1, ActsOpened DEF ListOpens
<1> QED
  BY <1>1 DEF NotYet

\* No step lists an item twice.
LEMMA RowsOnceStep ==
    ASSUME ListsBase, ListOpens \/ ListActs
    PROVE  RowsOnce'
<1>0. TypeOK /\ RowsOnce
  BY DEF ListsBase
<1>1. rows \in Seq(Items) /\ dialogs \in Seq(Row) /\ deletes \in Seq(Delete)
  BY <1>0 DEF TypeOK
<1>2. /\ Once(rows) /\ (purge # "no" => view = "chat")
      /\ \A k \in DOMAIN dialogs : dialogs[k].i # 0
      /\ \A k \in DOMAIN deletes : deletes[k].i # 0
  BY <1>0 DEF RowsOnce
<1>3. view' = view
  <2>1. visit' = visit
    BY ActsOpened DEF ListOpens
  <2> QED
    BY <2>1, ListParameters
<1>4. CASE ListOpens
  BY <1>2, <1>3, <1>4 DEF ListOpens, RowsOnce, PageOf
<1>5. CASE \E q \in Searches : ListAsks(q)
  BY <1>2, <1>3, <1>5 DEF ListAsks, list, remove, RowsOnce
<1>6. CASE \E k \in DOMAIN queries : ListAnswers(k) \/ SearchFailed(k)
  BY <1>2, <1>3, <1>6 DEF ListAnswers, SearchFailed, list, remove, RowsOnce, PageOf
<1>7. ASSUME NEW k \in DOMAIN deletes, ListDrops(k) \/ DeleteFailed(k)
      PROVE  RowsOnce'
  <2>1. \A j \in DOMAIN deletes' : deletes'[j].i # 0
    <3>1. deletes' = RemoveAt(deletes, k)
      BY <1>7 DEF ListDrops, DeleteFailed
    <3>2. \A j \in DOMAIN deletes' : \E h \in DOMAIN deletes : deletes'[j] = deletes[h]
      BY <1>1, <3>1, RemoveAtRest
    <3> QED
      BY <1>2, <3>2
  <2>2. Once(rows')
    <3>1. CASE ListDrops(k)
      <4>1. rows' = splice(rows, deletes[k].i)
        BY <3>1 DEF ListDrops
      <4> QED
        BY <1>1, <1>2, <4>1, SpliceKeeps
    <3>2. CASE DeleteFailed(k)
      BY <1>2, <3>2 DEF DeleteFailed, list
    <3> QED
      BY <1>7, <3>1, <3>2
  <2>3. purge' = purge /\ dialogs' = dialogs
    BY <1>7 DEF ListDrops, DeleteFailed
  <2> QED
    BY <1>2, <1>3, <2>1, <2>2, <2>3 DEF RowsOnce
<1>8. ASSUME NEW i \in 1..N, openDeleteConfirmModal(i) \/ Toggle(i)
      PROVE  RowsOnce'
  <2>1. CASE Toggle(i)
    BY <1>2, <1>3, <2>1 DEF Toggle, remove, RowsOnce
  <2>2. CASE openDeleteConfirmModal(i)
    <3> DEFINE d == [i |-> i, item |-> rows[i]]
    <3>1. i # 0 /\ i \in Nat /\ rows[i] \in Items
      BY <1>1, <2>2, ListAssumption DEF openDeleteConfirmModal
    <3>2. d \in Row /\ d.i # 0
      BY <3>1 DEF Row
    <3>3. dialogs' = Append(dialogs, d) /\ deletes' = deletes /\ purge' = purge /\ rows' = rows
      BY <2>2 DEF openDeleteConfirmModal, list
    <3> HIDE DEF d
    <3>4. \A k \in DOMAIN dialogs' : dialogs'[k].i # 0
      BY <1>1, <1>2, <3>2, <3>3, AppendRest
    <3> QED
      BY <1>2, <1>3, <3>3, <3>4 DEF RowsOnce
  <2> QED
    BY <1>8, <2>1, <2>2
<1>9. ASSUME NEW k \in DOMAIN dialogs, confirm(k) \/ closeModal(k)
      PROVE  RowsOnce'
  <2>1. \A j \in DOMAIN dialogs' : dialogs'[j].i # 0
    <3>1. dialogs' = RemoveAt(dialogs, k)
      BY <1>9 DEF confirm, closeModal
    <3>2. \A j \in DOMAIN dialogs' : \E h \in DOMAIN dialogs : dialogs'[j] = dialogs[h]
      BY <1>1, <3>1, RemoveAtRest
    <3> QED
      BY <1>2, <3>2
  <2>2. \A j \in DOMAIN deletes' : deletes'[j].i # 0
    <3>1. CASE confirm(k)
      <4> DEFINE d == [i |-> dialogs[k].i, item |-> dialogs[k].item, done |-> FALSE]
      <4>1. deletes' = Append(deletes, d) /\ dialogs[k] \in Row
        BY <1>1, <3>1 DEF confirm
      <4>2. d \in Delete /\ d.i # 0
        BY <1>2, <4>1 DEF Row, Delete
      <4> HIDE DEF d
      <4> QED
        BY <1>1, <1>2, <4>1, <4>2, AppendRest
    <3>2. CASE closeModal(k)
      BY <1>2, <3>2 DEF closeModal
    <3> QED
      BY <1>9, <3>1, <3>2
  <2>3. purge' = purge /\ rows' = rows
    BY <1>9 DEF confirm, closeModal, list
  <2> QED
    BY <1>2, <1>3, <2>1, <2>2, <2>3 DEF RowsOnce
<1>10. CASE (\E f \in Filters : SetFilter(f)) \/ AccountCancelQuery
  BY <1>2, <1>3, <1>10 DEF SetFilter, AccountCancelQuery, list, remove, RowsOnce
<1>11. CASE deleteData \/ DataDeleteFailed \/ \E b \in BOOLEAN : deleteDataConfirm(b)
  BY <1>2, <1>3, <1>11 DEF deleteData, DataDeleteFailed, deleteDataConfirm, list, RowsOnce
<1>12. CASE DataDeleted \/ \E x \in Items : ServerDeletesData(x)
  BY <1>2, <1>3, <1>12 DEF DataDeleted, ServerDeletesData, list, RowsOnce
<1>13. ASSUME NEW k \in DOMAIN deletes, ServerDeletes(k)
       PROVE  RowsOnce'
  <2>1. deletes' = [deletes EXCEPT ![k].done = TRUE] /\ UNCHANGED <<rows, dialogs, purge>>
    BY <1>13 DEF ServerDeletes, list
  <2>2. \A j \in DOMAIN deletes : deletes[j] \in Delete
    BY <1>1
  <2>3. DOMAIN deletes' = DOMAIN deletes /\ \A j \in DOMAIN deletes : deletes'[j].i = deletes[j].i
    BY <2>1, <2>2 DEF Delete
  <2> QED
    BY <1>2, <1>3, <2>1, <2>3 DEF RowsOnce
<1> QED
  BY <1>4, <1>5, <1>6, <1>7, <1>8, <1>9, <1>10, <1>11, <1>12, <1>13 DEF ListActs

\* takeUntil(querySubject) leaves the last search of the accounts only.
LEMMA LastAskedStep ==
    ASSUME ListsBase, ListOpens \/ ListActs
    PROVE  LastAsked'
<1>0. TypeOK /\ RowsOnce /\ NotYet /\ LastAsked
  BY DEF ListsBase
<1>1. queries \in Seq(Query) /\ ongoing \in BOOLEAN /\ gone \in Seq(Items) /\ (purge # "no" => view = "chat")
  BY <1>0 DEF TypeOK, RowsOnce
<1>2. view' = view
  <2>1. visit' = visit
    BY ActsOpened DEF ListOpens
  <2> QED
    BY <2>1, ListParameters
<1> DEFINE asked == /\ ongoing' => Len(queries') = 1 /\ Of(queries'[1]) = wanted'
                    /\ ~ongoing' => queries' = <<>>
<1>3. SUFFICES ASSUME view = "accounts"
      PROVE  asked
  BY <1>2 DEF LastAsked
<1>4. /\ ongoing => Len(queries) = 1 /\ Of(queries[1]) = wanted
      /\ ~ongoing => queries = <<>>
  BY <1>0, <1>3 DEF LastAsked
<1>5. \A q \in Searches : Of(Sent(q)) = q
  BY DEF Of, Sent, Searches
<1>6. CASE ListOpens
  <2>1. CASE UNCHANGED <<queries, ongoing, wanted>>
    BY <1>4, <2>1
  <2>2. ASSUME NEW q \in Searches, queries' = <<Sent(q)>>, wanted' = q, ongoing' = (view = "accounts")
        PROVE  asked
    BY <1>3, <1>5, <2>2
  <2> QED
    BY <1>6, <2>1, <2>2 DEF ListOpens
<1>7. ASSUME NEW q \in Searches, ListAsks(q)
      PROVE  asked
  BY <1>3, <1>5, <1>7 DEF ListAsks
<1>8. ASSUME NEW k \in DOMAIN queries, ListAnswers(k) \/ SearchFailed(k)
      PROVE  asked
  <2>1. ongoing' = FALSE /\ queries' = RemoveAt(queries, k)
    BY <1>3, <1>8 DEF ListAnswers, SearchFailed
  <2>2. Len(queries) = 1
    <3>1. queries # <<>>
      BY <1>8
    <3> QED
      BY <1>1, <1>4, <3>1
  <2>3. queries' \in Seq(Query) /\ Len(queries') = 0
    <3>1. RemoveAt(queries, k) \in Seq(Query) /\ Len(RemoveAt(queries, k)) = Len(queries) - 1
      BY <1>1, RemoveAtRest
    <3> QED
      BY <2>1, <2>2, <3>1
  <2>4. queries' = <<>>
    BY <2>3, EmptySeq
  <2> QED
    BY <2>1, <2>4
<1>9. CASE UNCHANGED <<queries, ongoing, wanted>>
  BY <1>4, <1>9
<1>10. CASE AccountCancelQuery
  BY <1>10 DEF AccountCancelQuery
<1>11. CASE DataDeleted \/ \E x \in Items : ServerDeletesData(x)
  BY <1>1, <1>3, <1>11 DEF DataDeleted, ServerDeletesData
<1>12. CASE \/ \E k \in DOMAIN deletes : ServerDeletes(k) \/ ListDrops(k) \/ DeleteFailed(k)
            \/ \E i \in 1..N : openDeleteConfirmModal(i) \/ Toggle(i)
            \/ \E k \in DOMAIN dialogs : confirm(k) \/ closeModal(k)
            \/ \E f \in Filters : SetFilter(f)
            \/ deleteData \/ DataDeleteFailed
            \/ \E b \in BOOLEAN : deleteDataConfirm(b)
  <2>1. UNCHANGED <<queries, ongoing, wanted>>
    BY <1>12 DEF ServerDeletes, ListDrops, DeleteFailed, openDeleteConfirmModal, Toggle, confirm, closeModal, SetFilter,
       deleteData, DataDeleteFailed, deleteDataConfirm
  <2> QED
    BY <1>9, <2>1
<1> QED
  BY <1>6, <1>7, <1>8, <1>10, <1>11, <1>12 DEF ListActs

\* The core of the invariant holds at the start ...
LEMMA ListsBaseInit == Init => ListsBase
<1> SUFFICES ASSUME Init
             PROVE  ListsBase
  OBVIOUS
<1>1. /\ visit \in Visits /\ role \in RoleSet /\ ready = FALSE /\ sought = -1 /\ filter = All
      /\ rows = <<>> /\ nextCursor = 0 /\ prevCursor = 0 /\ count = 0
      /\ open = {} /\ unfolded = {} /\ queries = <<>> /\ ongoing = FALSE
      /\ dialogs = <<>> /\ deletes = <<>> /\ purge = "no" /\ gone = <<>>
      /\ wanted = Search(All, 0) /\ shown = Search(Text[url.f], 0) /\ failed = FALSE /\ crossed = FALSE
  BY DEF Init
<1>2. /\ All \in Filters /\ Filters \subseteq DOMAIN Match /\ N \in Nat
      /\ \A f \in DOMAIN Match : Match[f] \subseteq Items
  BY <1>1, ListAssumption DEF Filters
<1>3. 0 \in Cursors /\ 0 \in 0..N /\ -1 \in -1..N /\ Items \subseteq Cursors
  BY <1>2 DEF Cursors, Items
<1>4. url \in [f: Filters, c: Cursors, set: BOOLEAN]
  <2>1. CASE url = [f |-> All, c |-> 0, set |-> FALSE]
    BY <1>2, <1>3, <2>1
  <2>2. CASE url \in [f: Filters, c: {0} \cup Match[All], set: {TRUE}]
    <3>1. {0} \cup Match[All] \subseteq Cursors
      BY <1>2, <1>3
    <3> QED
      BY <2>2, <3>1
  <2> QED
    BY <2>1, <2>2 DEF Init
<1>5. Search(All, 0) \in Searches /\ Search(Text[url.f], 0) \in Searches
  <2>1. Text[url.f] \in DOMAIN Match
    BY <1>2, <1>4, ListAssumption
  <2> QED
    BY <1>2, <1>3, <2>1 DEF Search, Searches
<1>6. \A S : <<>> \in Seq(S)
  BY EmptySeq
<1>7. DOMAIN <<>> = {}
  OBVIOUS
<1>8. TypeOK
  <2>1. ready \in BOOLEAN /\ ongoing \in BOOLEAN /\ failed \in BOOLEAN /\ crossed \in BOOLEAN
    BY <1>1
  <2>2. /\ rows \in Seq(Items) /\ queries \in Seq(Query) /\ dialogs \in Seq(Row)
        /\ deletes \in Seq(Delete) /\ gone \in Seq(Items)
    BY <1>1, <1>6
  <2>3. open \subseteq Nat /\ unfolded \subseteq Items /\ count \in Int
    BY <1>1
  <2> QED
    BY <1>1, <1>2, <1>3, <1>4, <1>5, <2>1, <2>2, <2>3 DEF TypeOK
<1>9. NotYet /\ LastAsked
  BY <1>1 DEF NotYet, LastAsked
<1>10. RowsOnce
  BY <1>1, <1>7 DEF RowsOnce, Once
<1> QED
  BY <1>8, <1>9, <1>10 DEF ListsBase

\* ... and after every step.
LEMMA ListsBaseStep == ListsBase /\ [Next]_vars => ListsBase'
<1> SUFFICES ASSUME ListsBase, [Next]_vars
             PROVE  ListsBase'
  OBVIOUS
<1>1. CASE Next
  <2>1. crossed' = (crossed \/ Crossing')
    BY <1>1 DEF Next
  <2> QED
    BY <1>1, <2>1, ListSteps, ListTypeStep, NotYetStep, RowsOnceStep, LastAskedStep DEF ListsBase
<1>2. CASE UNCHANGED vars
  BY <1>2 DEF vars, fixed, list, remove, ListsBase, TypeOK, NotYet, RowsOnce, LastAsked,
     view, Filters, Query
<1> QED
  BY <1>1, <1>2

\* Every list page keeps its types, whatever the order of the answers.
THEOREM ListsTypeCorrect == Spec => []TypeOK
<1>1. ListsBase => TypeOK
  BY DEF ListsBase
<1> QED
  BY <1>1, ListsBaseInit, ListsBaseStep, PTL DEF Spec

-----------------------------------------------------------------------------
(* ConsoleLists: the flags of the rows.                                    *)

\* FlagsFollowRows, row by row.
FlagOfEachRow ==
    view \in Splices => \A i \in DOMAIN rows : i \in open <=> rows[i] \in unfolded

\* The steps that leave rows and flags alone.
LeavesRows == UNCHANGED <<rows, open, unfolded>>

\* Searches, failures and dialogs leave the rows and their flags alone.
LEMMA ListQuiet ==
    ASSUME \/ \E q \in Searches : ListAsks(q)
           \/ \E k \in DOMAIN queries : SearchFailed(k)
           \/ \E k \in DOMAIN deletes : ServerDeletes(k) \/ DeleteFailed(k)
           \/ \E i \in 1..N : openDeleteConfirmModal(i)
           \/ \E k \in DOMAIN dialogs : confirm(k) \/ closeModal(k)
           \/ \E f \in Filters : SetFilter(f)
           \/ AccountCancelQuery
           \/ deleteData \/ DataDeleted \/ DataDeleteFailed
           \/ \E b \in BOOLEAN : deleteDataConfirm(b)
           \/ \E x \in Items : ServerDeletesData(x)
    PROVE  LeavesRows /\ UNCHANGED count
<1>1. UNCHANGED list
  BY DEF ListAsks, SearchFailed, ServerDeletes, DeleteFailed, openDeleteConfirmModal, confirm, closeModal,
     SetFilter, AccountCancelQuery, deleteData, DataDeleteFailed, deleteDataConfirm, DataDeleted,
     ServerDeletesData
<1> QED
  BY <1>1 DEF list, LeavesRows

\* Every step keeps the flags with their rows.
LEMMA FlagsStep ==
    ASSUME ListsBase, FlagOfEachRow, ListOpens \/ ListActs
    PROVE  FlagOfEachRow'
<1>0. TypeOK /\ RowsOnce /\ NotYet
  BY DEF ListsBase
<1>1. rows \in Seq(Items) /\ Once(rows) /\ open \subseteq Nat /\ deletes \in Seq(Delete)
      /\ \A k \in DOMAIN deletes : deletes[k].i # 0
  BY <1>0 DEF TypeOK, RowsOnce
<1>2. view' = view
  <2>1. visit' = visit
    BY ActsOpened DEF ListOpens
  <2> QED
    BY <2>1, ListParameters
<1>3. SUFFICES ASSUME view \in Splices
      PROVE  \A i \in DOMAIN rows' : i \in open' <=> rows'[i] \in unfolded'
  BY <1>2 DEF FlagOfEachRow
<1>4. \A i \in DOMAIN rows : i \in open <=> rows[i] \in unfolded
  BY <1>3 DEF FlagOfEachRow
<1>5. CASE ListOpens
  BY <1>0, <1>5 DEF ListOpens, NotYet
<1>6. CASE \E k \in DOMAIN queries : ListAnswers(k)
  BY <1>3, <1>6 DEF ListAnswers
<1>7. CASE LeavesRows
  BY <1>4, <1>7 DEF LeavesRows
<1>8. ASSUME NEW k \in DOMAIN deletes, ListDrops(k)
      PROVE  \A j \in DOMAIN rows' : j \in open' <=> rows'[j] \in unfolded'
  <2> DEFINE i == deletes[k].i
  <2>1. deletes[k] \in Delete
    BY <1>1
  <2>2. i \in Nat /\ i # 0
    BY <1>1, <2>1 DEF Delete
  <2> HIDE DEF i
  <2>3. DropUnfolded(i)
    BY <1>3, <1>8 DEF ListDrops, Counted, Splices, i
  <2>4. /\ rows' = splice(rows, i) /\ open' = spliceOpen(i)
        /\ unfolded' = IF i \in DOMAIN rows THEN unfolded \ {rows[i]} ELSE unfolded
    BY <2>3 DEF DropUnfolded, DropRow
  <2>5. \A j \in Nat : j < i => (j \in open' <=> j \in open)
    <3> SUFFICES ASSUME NEW j \in Nat, j < i
                 PROVE  j \in open' <=> j \in open
      OBVIOUS
    <3>1. \A h \in open : h > i => j # h - 1
      BY <1>1, <2>2
    <3>2. j \in spliceOpen(i) <=> j \in open
      BY <3>1 DEF spliceOpen
    <3> QED
      BY <2>4, <3>2
  <2>6. \A j \in Nat : j >= i => (j \in open' <=> j + 1 \in open)
    <3> SUFFICES ASSUME NEW j \in Nat, j >= i
                 PROVE  j \in open' <=> j + 1 \in open
      OBVIOUS
    <3>1. j \in open' => j + 1 \in open
      <4> SUFFICES ASSUME j \in open'
                   PROVE  j + 1 \in open
        OBVIOUS
      <4>1. PICK h \in open : h > i /\ j = h - 1
        BY <1>1, <2>2, <2>4 DEF spliceOpen
      <4>2. j + 1 = h
        BY <1>1, <4>1
      <4> QED
        BY <4>1, <4>2
    <3>2. j + 1 \in open => j \in open'
      <4>1. j + 1 > i /\ j = (j + 1) - 1
        BY <2>2
      <4> QED
        BY <2>4, <4>1 DEF spliceOpen
    <3> QED
      BY <3>1, <3>2
  <2>7. CASE i \notin DOMAIN rows
    <3>1. rows' = rows /\ unfolded' = unfolded
      BY <1>1, <2>4, <2>7, SpliceKeeps
    <3>2. \A j \in DOMAIN rows : j \in Nat /\ j < i
      BY <1>1, <2>2, <2>7
    <3> QED
      BY <1>4, <2>5, <3>1, <3>2
  <2>8. CASE i \in DOMAIN rows
    <3>1. /\ DOMAIN rows' = 1..Len(rows) - 1 /\ Len(rows) \in Nat
          /\ \A j \in 1..Len(rows) - 1 : rows'[j] = IF j < i THEN rows[j] ELSE rows[j + 1]
          /\ \A j \in DOMAIN rows' : rows'[j] # rows[i]
      <4>1. rows \in Seq(Items) /\ Once(rows)
        BY <1>1
      <4>2. /\ DOMAIN splice(rows, i) = 1..Len(rows) - 1 /\ Len(rows) \in Nat
            /\ \A j \in 1..Len(rows) - 1 : splice(rows, i)[j] = IF j < i THEN rows[j] ELSE rows[j + 1]
            /\ \A j \in DOMAIN splice(rows, i) : splice(rows, i)[j] # rows[i]
        BY <2>8, <4>1, SpliceKeeps
      <4> QED
        BY <2>4, <4>2, Zenon
    <3>2. unfolded' = unfolded \ {rows[i]}
      BY <2>4, <2>8
    <3> SUFFICES ASSUME NEW j \in DOMAIN rows'
                 PROVE  j \in open' <=> rows'[j] \in unfolded'
      OBVIOUS
    <3>3. /\ j \in Nat /\ j \in DOMAIN rows /\ j + 1 \in DOMAIN rows
          /\ j < i \/ j >= i
      BY <1>1, <2>2, <3>1
    <3>4. CASE j < i
      BY <1>4, <2>5, <3>1, <3>2, <3>3, <3>4
    <3>5. CASE j >= i
      <4>1. rows'[j] = rows[j + 1]
        BY <2>2, <3>1, <3>3, <3>5
      <4> QED
        BY <1>4, <2>6, <3>1, <3>2, <3>3, <3>5, <4>1
    <3> QED
      BY <3>3, <3>4, <3>5
  <2> QED
    BY <2>7, <2>8
<1>9. ASSUME NEW i \in 1..N, Toggle(i)
      PROVE  \A j \in DOMAIN rows' : j \in open' <=> rows'[j] \in unfolded'
  <2>1. /\ i \in DOMAIN rows /\ rows' = rows
        /\ IF i \in open THEN open' = open \ {i} /\ unfolded' = unfolded \ {rows[i]}
                         ELSE open' = open \cup {i} /\ unfolded' = unfolded \cup {rows[i]}
    BY <1>9 DEF Toggle
  <2>2. \A j \in DOMAIN rows : j # i => rows[j] # rows[i]
    BY <1>1, <2>1 DEF Once
  <2> QED
    BY <1>4, <2>1, <2>2
<1> QED
  BY <1>5, <1>6, <1>7, <1>8, <1>9, ListQuiet DEF ListActs

\* The unfolded rows of the records, ledger and chat pages stay the unfolded ones: the
\* ...Open array is spliced at the position the row had when its button was clicked, and
\* answers to deletes and searches may come in any order.
THEOREM FlagsStayWithRows == Spec => []FlagsFollowRows
<1> DEFINE I == ListsBase /\ FlagOfEachRow
<1>1. Init => I
  <2> SUFFICES ASSUME Init
               PROVE  I
    OBVIOUS
  <2>1. rows = <<>>
    BY DEF Init
  <2> QED
    BY <2>1, ListsBaseInit DEF FlagOfEachRow
<1>2. I /\ [Next]_vars => I'
  <2> SUFFICES ASSUME I, [Next]_vars
               PROVE  FlagOfEachRow'
    BY ListsBaseStep
  <2>1. CASE Next
    BY <2>1, ListSteps, FlagsStep
  <2>2. CASE UNCHANGED vars
    BY <2>2 DEF vars, fixed, list, FlagOfEachRow, view
  <2> QED
    BY <2>1, <2>2
<1>3. I => FlagsFollowRows
  BY DEF FlagOfEachRow, FlagsFollowRows, Splices
<1> QED
  BY <1>1, <1>2, <1>3, PTL DEF Spec

-----------------------------------------------------------------------------
(* ConsoleLists: no delete is open beside a search or another delete.      *)

\* What the server still has.
Remaining == Left(Len(gone))

\* One delete at most is open, and no search beside it.
OneAtATime ==
    /\ queries # <<>> => dialogs = <<>> /\ deletes = <<>> /\ purge = "no"
    /\ purge # "no" => dialogs = <<>> /\ deletes = <<>>
    /\ Len(dialogs) + Len(deletes) <= 1

\* What is under way knows the list as it is.
UpToDate ==
    /\ \A k \in DOMAIN queries : queries[k].at = Len(gone)
    /\ \A k \in DOMAIN dialogs : dialogs[k].i \in DOMAIN rows /\ rows[dialogs[k].i] = dialogs[k].item
    /\ \A k \in DOMAIN deletes : deletes[k].i \in DOMAIN rows /\ rows[deletes[k].i] = deletes[k].item

\* The delete the server has done and not answered yet, for the row at position i.
Served(i) == \E k \in DOMAIN deletes : deletes[k].done /\ deletes[k].i = i

\* ListIsServed while something is under way: a row may wait for the answer to its
\* delete, the chat page lists again what it has deleted, and the leaderboards are not
\* there before the first answer.
RowsServed ==
    /\ view # "chat" \/ (queries = <<>> /\ purge # "deleted") =>
          \A i \in DOMAIN rows : rows[i] \in Remaining \/ Served(i)
    /\ view = "chat" /\ ~url.set => rows = <<>>
    /\ view = "leaderboards" /\ ready /\ queries = <<>> =>
          count = Cardinality(Remaining) + IF \E k \in DOMAIN deletes : deletes[k].done THEN 1 ELSE 0

ServedAlone == ~crossed => ~Crossing /\ (~failed => UpToDate /\ RowsServed)

\* What Crossing rules out.
LEMMA NotCrossing ==
    ASSUME TypeOK, ~Crossing
    PROVE  OneAtATime
<1> DEFINE a == Len(dialogs)
           b == Len(deletes)
<1>1. a \in Nat /\ b \in Nat /\ (a = 0 => dialogs = <<>>) /\ (b = 0 => deletes = <<>>)
  BY EmptySeq DEF TypeOK
<1> HIDE DEF a, b
<1>2. CASE purge = "no"
  <2>1. ~(a + b + 0 > 1) /\ ~(a + b + 0 = 1 /\ queries # <<>>)
    BY <1>2 DEF Crossing, a, b
  <2>2. a + b <= 1 /\ (queries # <<>> => a = 0 /\ b = 0)
    BY <1>1, <2>1
  <2> QED
    BY <1>1, <1>2, <2>2 DEF OneAtATime, a, b
<1>3. CASE purge # "no"
  <2>1. ~(a + b + 1 > 1) /\ ~(a + b + 1 = 1 /\ queries # <<>>)
    BY <1>3 DEF Crossing, a, b
  <2>2. a = 0 /\ b = 0 /\ queries = <<>>
    BY <1>1, <2>1
  <2> QED
    BY <1>1, <1>3, <2>2 DEF OneAtATime, a, b
<1> QED
  BY <1>2, <1>3

\* A delete of the server takes its item, and nothing else, out of what is left; there
\* is no account behind a tombstone.
LEMMA RemainingDrops ==
    ASSUME gone \in Seq(Items), NEW x \in Items, gone' = Delete1(x)
    PROVE  /\ Remaining \ {x} \subseteq Remaining'
           /\ x \in Remaining /\ view # "accounts" =>
                 Cardinality(Remaining) = Cardinality(Remaining') + 1
<1>1. Len(gone) \in Nat /\ DOMAIN gone = 1..Len(gone) /\ Remaining = Items \ {gone[k] : k \in 1..Len(gone)}
  BY DEF Remaining, Left
<1>2. Remaining' = Items \ {gone'[k] : k \in 1..Len(gone')}
  BY DEF Remaining, Left, Items
<1>3. CASE gone' = gone /\ ~(x \in Remaining /\ view # "accounts")
  BY <1>1, <1>2, <1>3
<1>4. CASE gone' = Append(gone, x)
  <2>1. /\ Len(gone') = Len(gone) + 1 /\ gone'[Len(gone) + 1] = x
        /\ \A k \in 1..Len(gone) : gone'[k] = gone[k]
    BY <1>1, <1>4, AppendRest
  <2>2. 1..Len(gone') = 1..Len(gone) \cup {Len(gone) + 1}
    BY <1>1, <2>1
  <2>3. Remaining' = Remaining \ {x}
    BY <1>1, <1>2, <2>1, <2>2
  <2>4. IsFiniteSet(Remaining) /\ Cardinality(Remaining) \in Nat
    BY <1>1, ItemsFinite
  <2>5. x \in Remaining => Cardinality(Remaining \ {x}) = Cardinality(Remaining) - 1
    BY <2>4, FS_RemoveElement
  <2> QED
    BY <2>3, <2>4, <2>5
<1>5. x \in Remaining => x \notin ToSet(gone)
  BY <1>1 DEF ToSet
<1> QED
  BY <1>3, <1>4, <1>5 DEF Delete1

\* Nothing else changes what is left.
LEMMA RemainingKept ==
    ASSUME gone' = gone
    PROVE  Remaining' = Remaining
BY DEF Remaining, Left, Items

\* The delete that is under way is the only thing that is.
LEMMA AloneUnderWay ==
    ASSUME TypeOK, OneAtATime, NEW k \in DOMAIN deletes
    PROVE  /\ queries = <<>> /\ purge = "no" /\ dialogs = <<>>
           /\ DOMAIN deletes = {k} /\ RemoveAt(deletes, k) = <<>>
<1>1. deletes \in Seq(Delete) /\ dialogs \in Seq(Row) /\ Len(deletes) \in Nat /\ Len(dialogs) \in Nat
  BY DEF TypeOK
<1>2. DOMAIN deletes = 1..Len(deletes) /\ deletes # <<>>
  BY <1>1
<1>3. queries = <<>> /\ purge = "no" /\ Len(dialogs) + Len(deletes) <= 1
  BY <1>2 DEF OneAtATime
<1>4. k \in 1..Len(deletes)
  BY <1>2
<1>5. Len(deletes) = 1 /\ Len(dialogs) = 0
  <2>1. \A a, b \in Nat : a + b <= 1 /\ k \in 1..b => b = 1 /\ a = 0
    OBVIOUS
  <2> QED
    BY <1>1, <1>3, <1>4, <2>1
<1>6. dialogs = <<>> /\ k = 1 /\ DOMAIN deletes = {k}
  BY <1>1, <1>2, <1>4, <1>5, EmptySeq
<1>7. RemoveAt(deletes, k) \in Seq(Delete) /\ Len(RemoveAt(deletes, k)) = 0
  BY <1>1, <1>5, RemoveAtRest
<1> QED
  BY <1>3, <1>6, <1>7, EmptySeq

\* A dialog that is open is the only thing that is.
LEMMA DialogAlone ==
    ASSUME TypeOK, OneAtATime, NEW k \in DOMAIN dialogs
    PROVE  queries = <<>> /\ purge = "no" /\ deletes = <<>>
<1>1. deletes \in Seq(Delete) /\ dialogs \in Seq(Row) /\ Len(deletes) \in Nat /\ Len(dialogs) \in Nat
  BY DEF TypeOK
<1>2. DOMAIN dialogs = 1..Len(dialogs) /\ dialogs # <<>>
  BY <1>1
<1>3. queries = <<>> /\ purge = "no" /\ Len(dialogs) + Len(deletes) <= 1
  BY <1>2 DEF OneAtATime
<1>4. k \in 1..Len(dialogs)
  BY <1>2
<1>5. Len(deletes) = 0
  BY <1>1, <1>3, <1>4
<1> QED
  BY <1>1, <1>3, <1>5, EmptySeq

\* Without crossings what is under way stays up to date.
LEMMA UpToDateStep ==
    ASSUME ListsBase, OneAtATime, UpToDate, ListOpens \/ ListActs, failed' = FALSE
    PROVE  UpToDate'
<1>0. TypeOK /\ NotYet
  BY DEF ListsBase
<1>1. /\ rows \in Seq(Items) /\ dialogs \in Seq(Row) /\ deletes \in Seq(Delete) /\ queries \in Seq(Query)
      /\ DOMAIN <<>> = {}
  BY <1>0 DEF TypeOK
<1>2. UpToDate
  OBVIOUS
<1>3. CASE ListOpens
  <2>1. dialogs' = <<>> /\ deletes' = <<>> /\ gone' = gone /\ queries = <<>>
    BY <1>0, <1>3 DEF ListOpens, NotYet
  <2>2. \A k \in DOMAIN queries' : queries'[k].at = Len(gone')
    <3>1. CASE queries' = queries
      BY <1>1, <2>1, <3>1
    <3>2. ASSUME NEW q \in Searches, queries' = <<Sent(q)>>
          PROVE  \A k \in DOMAIN queries' : queries'[k].at = Len(gone')
      <4>1. DOMAIN queries' = {1} /\ queries'[1] = Sent(q) /\ Sent(q).at = Len(gone)
        BY <3>2 DEF Sent
      <4> QED
        BY <2>1, <4>1
    <3> QED
      BY <1>3, <3>1, <3>2 DEF ListOpens
  <2> QED
    BY <1>1, <2>1, <2>2 DEF UpToDate
<1>4. ASSUME NEW q \in Searches, ListAsks(q)
      PROVE  UpToDate'
  <2>1. UNCHANGED <<dialogs, deletes, gone, rows>>
    BY <1>4 DEF ListAsks, list, remove
  <2>2. Sent(q).at = Len(gone)
    BY DEF Sent
  <2>3. \A k \in DOMAIN queries' : queries'[k].at = Len(gone)
    BY <1>2, <1>4, <2>2 DEF ListAsks, UpToDate
  <2> QED
    BY <1>2, <2>1, <2>3 DEF UpToDate
<1>5. ASSUME NEW k \in DOMAIN queries, ListAnswers(k)
      PROVE  UpToDate'
  <2>1. dialogs = <<>> /\ deletes = <<>>
    <3>1. queries # <<>>
      BY <1>5
    <3> QED
      BY <3>1 DEF OneAtATime
  <2>2. UNCHANGED <<dialogs, deletes, gone>> /\ queries' = RemoveAt(queries, k)
    BY <1>5 DEF ListAnswers, remove
  <2>3. \A j \in DOMAIN queries' : \E h \in DOMAIN queries : queries'[j] = queries[h]
    BY <1>1, <2>2, RemoveAtRest
  <2>4. \A j \in DOMAIN queries' : queries'[j].at = Len(gone')
    BY <1>2, <2>2, <2>3 DEF UpToDate
  <2> QED
    BY <1>1, <2>1, <2>2, <2>4 DEF UpToDate
<1>6. ASSUME NEW k \in DOMAIN deletes, ListDrops(k)
      PROVE  UpToDate'
  <2>1. queries' = <<>> /\ dialogs' = <<>> /\ deletes' = <<>>
    BY <1>0, <1>6, AloneUnderWay DEF ListDrops
  <2> QED
    BY <1>1, <2>1 DEF UpToDate
<1>7. ASSUME NEW k \in DOMAIN deletes, ServerDeletes(k)
      PROVE  UpToDate'
  <2>1. queries' = <<>> /\ dialogs' = <<>> /\ rows' = rows
    BY <1>0, <1>7, AloneUnderWay DEF ServerDeletes, list
  <2>2. deletes' = [deletes EXCEPT ![k].done = TRUE]
    BY <1>7 DEF ServerDeletes
  <2>3. /\ DOMAIN deletes' = DOMAIN deletes
        /\ \A h \in DOMAIN deletes : deletes'[h].i = deletes[h].i /\ deletes'[h].item = deletes[h].item
    <3>1. \A h \in DOMAIN deletes : deletes[h] \in Delete
      BY <1>1
    <3> QED
      BY <2>2, <3>1 DEF Delete
  <2> QED
    BY <1>1, <1>2, <2>1, <2>3 DEF UpToDate
<1>8. ASSUME NEW i \in 1..N, openDeleteConfirmModal(i)
      PROVE  UpToDate'
  <2> DEFINE d == [i |-> i, item |-> rows[i]]
  <2>1. /\ i \in DOMAIN rows /\ dialogs' = Append(dialogs, d)
        /\ UNCHANGED <<queries, deletes, rows, gone>>
    BY <1>8 DEF openDeleteConfirmModal, list
  <2>2. d.i = i /\ d.item = rows[i] /\ d \in Row
    BY <1>1, <2>1 DEF Row
  <2> HIDE DEF d
  <2>3. \A k \in DOMAIN dialogs' : dialogs'[k] = d \/ \E h \in DOMAIN dialogs : dialogs'[k] = dialogs[h]
    BY <1>1, <2>1, <2>2, AppendRest
  <2> QED
    BY <1>2, <2>1, <2>2, <2>3 DEF UpToDate
<1>9. ASSUME NEW k \in DOMAIN dialogs, confirm(k) \/ closeModal(k)
      PROVE  UpToDate'
  <2> DEFINE d == [i |-> dialogs[k].i, item |-> dialogs[k].item, done |-> FALSE]
  <2>1. dialogs' = RemoveAt(dialogs, k) /\ UNCHANGED <<queries, rows, gone>>
    BY <1>9 DEF confirm, closeModal, list
  <2>2. deletes' = deletes \/ deletes' = Append(deletes, d)
    BY <1>9 DEF confirm, closeModal
  <2>3. \A j \in DOMAIN dialogs' : \E h \in DOMAIN dialogs : dialogs'[j] = dialogs[h]
    BY <1>1, <2>1, RemoveAtRest
  <2>4. deletes = <<>>
    BY <1>0, DialogAlone
  <2>5. d.i \in DOMAIN rows /\ rows[d.i] = d.item
    BY <1>2 DEF UpToDate
  <2> HIDE DEF d
  <2>6. \A j \in DOMAIN deletes' : deletes'[j] = d
    BY <1>1, <2>2, <2>4
  <2>7. \A j \in DOMAIN deletes' : deletes'[j].i \in DOMAIN rows' /\ rows'[deletes'[j].i] = deletes'[j].item
    BY <2>1, <2>5, <2>6
  <2>8. \A j \in DOMAIN dialogs' : dialogs'[j].i \in DOMAIN rows' /\ rows'[dialogs'[j].i] = dialogs'[j].item
    BY <1>2, <2>1, <2>3 DEF UpToDate
  <2> QED
    BY <1>2, <2>1, <2>7, <2>8 DEF UpToDate
<1>10. CASE AccountCancelQuery
  <2>1. queries' = <<>> /\ UNCHANGED <<dialogs, deletes, gone, rows>>
    BY <1>10 DEF AccountCancelQuery, list, remove
  <2> QED
    BY <1>1, <1>2, <2>1 DEF UpToDate
<1>11. CASE \/ (\E i \in 1..N : Toggle(i)) \/ (\E f \in Filters : SetFilter(f))
            \/ deleteData \/ (\E b \in BOOLEAN : deleteDataConfirm(b))
  <2>1. UNCHANGED <<queries, dialogs, deletes, gone, rows>>
    BY <1>11 DEF Toggle, SetFilter, deleteData, deleteDataConfirm, list, remove
  <2> QED
    BY <1>2, <2>1 DEF UpToDate
<1>12. ASSUME NEW x \in Items, ServerDeletesData(x)
       PROVE  UpToDate'
  <2>1. purge # "no" /\ UNCHANGED <<dialogs, deletes, queries, rows>>
    BY <1>12 DEF ServerDeletesData, list
  <2>2. queries = <<>>
    BY <2>1 DEF OneAtATime
  <2> QED
    BY <1>1, <1>2, <2>1, <2>2 DEF UpToDate
<1>13. CASE DataDeleted
  <2>1. UNCHANGED <<dialogs, deletes, rows, gone>>
    BY <1>13 DEF DataDeleted, list
  <2>2. \A k \in DOMAIN queries' : queries'[k].at = Len(gone')
    <3>1. CASE queries' = queries
      BY <1>2, <2>1, <3>1 DEF UpToDate
    <3>2. CASE queries' = Append(queries, Sent(Search(url.f, url.c)))
      <4> DEFINE q == Sent(Search(url.f, url.c))
      <4>1. q.at = Len(gone)
        BY DEF Sent
      <4>2. purge # "no"
        BY <1>13 DEF DataDeleted
      <4>3. queries = <<>>
        BY <4>2 DEF OneAtATime
      <4> HIDE DEF q
      <4>4. \A k \in DOMAIN queries' : queries'[k] = q
        BY <3>2, <4>3 DEF q
      <4> QED
        BY <2>1, <4>1, <4>4
    <3> QED
      BY <1>13, <3>1, <3>2 DEF DataDeleted, Ask
  <2> QED
    BY <1>2, <2>1, <2>2 DEF UpToDate
<1>14. CASE \/ \E k \in DOMAIN queries : SearchFailed(k)
            \/ \E k \in DOMAIN deletes : DeleteFailed(k)
            \/ DataDeleteFailed
  BY <1>14 DEF SearchFailed, DeleteFailed, DataDeleteFailed
<1> QED
  BY <1>3, <1>4, <1>5, <1>6, <1>7, <1>8, <1>9, <1>10, <1>11, <1>12, <1>13, <1>14 DEF ListActs

\* Without crossings rows and total are the server's, after every step.
LEMMA RowsServedStep ==
    ASSUME ListsBase, OneAtATime, UpToDate, RowsServed, ListOpens \/ ListActs, failed' = FALSE
    PROVE  RowsServed'
<1>0. TypeOK /\ NotYet /\ RowsOnce
  BY DEF ListsBase
<1>1. /\ rows \in Seq(Items) /\ Once(rows) /\ queries \in Seq(Query) /\ deletes \in Seq(Delete)
      /\ gone \in Seq(Items) /\ Len(gone) \in Nat /\ DOMAIN <<>> = {} /\ count \in Int
      /\ purge # "no" => view = "chat"
  BY <1>0 DEF TypeOK, RowsOnce
<1>2. view' = view /\ (ready' => ready \/ ListOpens)
  <2>1. visit' = visit
    BY ActsOpened DEF ListOpens
  <2> QED
    BY <2>1, ListParameters, ActsOpened
<1>3. RowsServed /\ Cardinality(Remaining) \in Nat
  <2>1. Remaining \in SUBSET Items
    BY DEF Remaining, Left
  <2> QED
    BY <2>1, ItemsFinite
<1>4. CASE ListOpens
  <2>1. gone' = gone /\ gone = <<>> /\ Len(gone) = 0
    BY <1>0, <1>4 DEF ListOpens, NotYet
  <2>2. Remaining' = Left(0)
    BY <2>1, RemainingKept DEF Remaining
  <2>3. /\ \A i \in DOMAIN rows' : rows'[i] \in Left(0)
        /\ view = "chat" /\ ~url'.set => rows' = <<>>
    BY <1>4 DEF ListOpens, PageOf
  <2>4. view = "leaderboards" => queries' # <<>>
    <3>1. \A q : <<q>> # <<>>
      OBVIOUS
    <3> QED
      BY <1>4, <3>1 DEF ListOpens
  <2> QED
    BY <1>2, <2>2, <2>3, <2>4 DEF RowsServed
<1>5. ASSUME NEW q \in Searches, ListAsks(q)
      PROVE  RowsServed'
  <2>1. ready /\ queries' # <<>>
    BY <1>5 DEF ListAsks
  <2>2. UNCHANGED <<rows, count, url, gone, deletes>>
    BY <1>5 DEF ListAsks, list, remove
  <2>3. Remaining' = Remaining
    BY <2>2, RemainingKept
  <2> QED
    BY <1>2, <1>3, <2>1, <2>2, <2>3 DEF RowsServed, Served
<1>6. ASSUME NEW k \in DOMAIN queries, ListAnswers(k)
      PROVE  RowsServed'
  <2>1. gone' = gone /\ deletes' = deletes /\ (view = "chat" => url'.set = TRUE)
    BY <1>6 DEF ListAnswers, remove
  <2>2. PICK n \in queries[k].at..Len(gone) :
            PageOf(rows', n) /\ (view = "leaderboards" => count' = Cardinality(Left(n)))
    BY <1>6 DEF ListAnswers
  <2>3. n = Len(gone)
    <3>1. queries[k].at = Len(gone)
      BY DEF UpToDate
    <3> QED
      BY <1>1, <2>2, <3>1
  <2>4. Remaining' = Left(n) /\ Remaining = Left(n)
    BY <2>1, <2>3, RemainingKept DEF Remaining
  <2>5. deletes' = <<>>
    <3>1. queries # <<>>
      BY <1>6
    <3> QED
      BY <2>1, <3>1 DEF OneAtATime
  <2>6. view = "leaderboards" => count' = Cardinality(Remaining') + 0
    BY <1>3, <2>2, <2>4
  <2>7. ~\E h \in DOMAIN deletes' : deletes'[h].done
    BY <1>1, <2>5
  <2> QED
    BY <1>2, <2>1, <2>2, <2>4, <2>6, <2>7 DEF RowsServed, PageOf
<1>7. ASSUME NEW k \in DOMAIN deletes, ListDrops(k)
      PROVE  RowsServed'
  <2> DEFINE i == deletes[k].i
  <2>1. /\ queries = <<>> /\ purge = "no" /\ i \in DOMAIN rows /\ DOMAIN deletes = {k}
        /\ deletes[k].done /\ deletes' = <<>>
    BY <1>0, <1>7, AloneUnderWay DEF UpToDate, ListDrops
  <2>2. /\ rows' = splice(rows, i) /\ url' = url /\ gone' = gone
        /\ view = "leaderboards" => count' = count - 1
    BY <1>7 DEF ListDrops, Counted, Splices
  <2>3. Remaining' = Remaining
    BY <2>2, RemainingKept
  <2>4. \A j \in DOMAIN rows : rows[j] \in Remaining \/ j = i
    BY <1>3, <2>1 DEF RowsServed, Served
  <2>5. ready /\ view = "leaderboards" => count = Cardinality(Remaining) + 1
    BY <1>3, <2>1 DEF RowsServed
  <2> HIDE DEF i
  <2>6. \A j \in DOMAIN rows' : rows'[j] # rows[i] /\ \E h \in DOMAIN rows : rows'[j] = rows[h]
    BY <1>1, <2>1, <2>2, SpliceKeeps
  <2>7. \A j \in DOMAIN rows' : rows'[j] \in Remaining'
    BY <2>3, <2>4, <2>6
  <2>8. ~(view = "chat" /\ ~url'.set)
    BY <1>1, <1>3, <2>1, <2>2 DEF RowsServed
  <2>9. ready
    BY <1>7, ActsOpened DEF ListActs
  <2>10. view = "leaderboards" => count' = Cardinality(Remaining') + 0
    BY <1>3, <2>2, <2>3, <2>5, <2>9
  <2>11. ~\E h \in DOMAIN deletes' : deletes'[h].done
    BY <1>1, <2>1
  <2> QED
    BY <1>2, <2>7, <2>8, <2>10, <2>11 DEF RowsServed
<1>8. ASSUME NEW k \in DOMAIN deletes, ServerDeletes(k)
      PROVE  RowsServed'
  <2> DEFINE i == deletes[k].i
             x == deletes[k].item
  <2>1. /\ queries = <<>> /\ purge = "no" /\ DOMAIN deletes = {k} /\ ~deletes[k].done
        /\ i \in DOMAIN rows /\ rows[i] = x /\ x \in Items
    <3>1. queries = <<>> /\ purge = "no" /\ DOMAIN deletes = {k}
      BY <1>0, AloneUnderWay
    <3>2. ~deletes[k].done
      BY <1>8 DEF ServerDeletes
    <3>3. i \in DOMAIN rows /\ rows[i] = x
      BY <1>8 DEF UpToDate
    <3>4. x \in Items
      BY <1>1, <3>3
    <3> QED
      BY <3>1, <3>2, <3>3, <3>4
  <2>2. /\ gone' = Delete1(x) /\ deletes' = [deletes EXCEPT ![k].done = TRUE]
        /\ UNCHANGED <<rows, url, count, ready>>
    BY <1>8 DEF ServerDeletes, list, fixed
  <2>3. DOMAIN deletes' = DOMAIN deletes /\ deletes'[k].done /\ deletes'[k].i = i
    <3>1. deletes[k] \in Delete
      BY <1>1
    <3> QED
      BY <2>2, <3>1 DEF Delete
  <2>4. \A j \in DOMAIN rows : rows[j] \in Remaining
    BY <1>3, <2>1 DEF RowsServed, Served
  <2>5. ready /\ view = "leaderboards" => count = Cardinality(Remaining) + 0
    BY <1>3, <2>1 DEF RowsServed
  <2> HIDE DEF i, x
  <2>6. /\ Remaining \ {x} \subseteq Remaining'
        /\ view # "accounts" => Cardinality(Remaining) = Cardinality(Remaining') + 1
    <3>1. x \in Remaining
      BY <2>1, <2>4
    <3> QED
      BY <1>1, <2>1, <2>2, <3>1, RemainingDrops
  <2>7. \A j \in DOMAIN rows' :
            rows'[j] \in Remaining' \/ \E h \in DOMAIN deletes' : deletes'[h].done /\ deletes'[h].i = j
    <3>1. \E h \in DOMAIN deletes' : deletes'[h].done /\ deletes'[h].i = i
      BY <2>3
    <3>2. \A j \in DOMAIN rows : j # i => rows[j] # x
      BY <1>1, <2>1 DEF Once
    <3> QED
      BY <2>2, <2>4, <2>6, <3>1, <3>2
  <2>8. view = "chat" /\ ~url'.set => rows' = <<>>
    BY <1>3, <2>2 DEF RowsServed
  <2>9. view = "leaderboards" /\ ready => count' = Cardinality(Remaining') + 1
    BY <1>3, <2>2, <2>5, <2>6
  <2> QED
    BY <1>2, <2>2, <2>3, <2>7, <2>8, <2>9 DEF RowsServed, Served
<1>9. CASE /\ UNCHANGED <<rows, count, url, gone, ready>>
           /\ queries' = queries \/ view = "accounts"
           /\ purge' = "deleted" <=> purge = "deleted"
           /\ deletes' = deletes
  <2>1. Remaining' = Remaining
    BY <1>9, RemainingKept
  <2> QED
    BY <1>2, <1>3, <1>9, <2>1 DEF RowsServed, Served
<1>10. CASE \/ \E i \in 1..N : openDeleteConfirmModal(i) \/ Toggle(i)
            \/ \E k \in DOMAIN dialogs : closeModal(k)
            \/ \E f \in Filters : SetFilter(f)
            \/ AccountCancelQuery
            \/ deleteData \/ \E b \in BOOLEAN : deleteDataConfirm(b)
  <2>1. /\ UNCHANGED <<rows, count, url, gone, ready, deletes>>
        /\ queries' = queries \/ view = "accounts"
        /\ purge' = "deleted" <=> purge = "deleted"
    BY <1>10 DEF openDeleteConfirmModal, Toggle, closeModal, SetFilter, AccountCancelQuery,
       deleteData, deleteDataConfirm, fixed, list, remove
  <2> QED
    BY <1>9, <2>1
<1>11. ASSUME NEW k \in DOMAIN dialogs, confirm(k)
       PROVE  RowsServed'
  <2> DEFINE d == [i |-> dialogs[k].i, item |-> dialogs[k].item, done |-> FALSE]
  <2>1. UNCHANGED <<rows, count, url, gone, ready, queries, purge>> /\ deletes' = Append(deletes, d)
    BY <1>11 DEF confirm, fixed, list
  <2>2. deletes = <<>> /\ d.done = FALSE
    BY <1>0, DialogAlone
  <2> HIDE DEF d
  <2>3. deletes' = <<d>>
    BY <2>1, <2>2
  <2>4. DOMAIN deletes' = {1} /\ deletes'[1] = d
    BY <2>3
  <2>5. (~\E h \in DOMAIN deletes' : deletes'[h].done) /\ ~\E h \in DOMAIN deletes : deletes[h].done
    BY <1>1, <2>2, <2>4
  <2>6. \A i : ~Served(i) /\ ~Served(i)'
    BY <2>5 DEF Served
  <2>7. Remaining' = Remaining
    BY <2>1, RemainingKept
  <2>8. count' = Cardinality(Remaining') + 0 \/ ~(view = "leaderboards" /\ ready /\ queries = <<>>)
    BY <1>3, <2>1, <2>5, <2>7 DEF RowsServed
  <2>9. view # "chat" \/ (queries = <<>> /\ purge # "deleted") =>
            \A i \in DOMAIN rows' : rows'[i] \in Remaining'
    BY <1>3, <2>1, <2>6, <2>7 DEF RowsServed
  <2>10. view = "chat" /\ ~url'.set => rows' = <<>>
    BY <1>3, <2>1 DEF RowsServed
  <2> QED
    BY <1>2, <2>1, <2>5, <2>8, <2>9, <2>10 DEF RowsServed
<1>12. ASSUME NEW x \in Items, ServerDeletesData(x)
       PROVE  RowsServed'
  <2>1. view = "chat" /\ purge' = "deleted" /\ rows' = rows /\ url' = url
    BY <1>1, <1>12 DEF ServerDeletesData, list
  <2> QED
    BY <1>2, <1>3, <2>1 DEF RowsServed
<1>13. CASE DataDeleted
  <2>1. view = "chat" /\ rows' = rows /\ url' = url
    BY <1>1, <1>13 DEF DataDeleted, list
  <2>2. CASE url.set
    <3>1. queries' = Append(queries, Sent(Search(url.f, url.c)))
      BY <1>13, <2>2 DEF DataDeleted, Ask
    <3>2. queries' # <<>>
      BY <1>1, <3>1
    <3> QED
      BY <1>2, <2>1, <2>2, <3>2 DEF RowsServed
  <2>3. CASE ~url.set
    <3>1. rows' = <<>>
      BY <1>3, <2>1, <2>3 DEF RowsServed
    <3> QED
      BY <1>1, <1>2, <2>1, <3>1 DEF RowsServed
  <2> QED
    BY <2>2, <2>3
<1>14. CASE \/ \E k \in DOMAIN queries : SearchFailed(k)
            \/ \E k \in DOMAIN deletes : DeleteFailed(k)
            \/ DataDeleteFailed
  BY <1>14 DEF SearchFailed, DeleteFailed, DataDeleteFailed
<1> QED
  BY <1>4, <1>5, <1>6, <1>7, <1>8, <1>10, <1>11, <1>12, <1>13, <1>14 DEF ListActs

\* As long as no delete was open beside a search or another delete, and no answer was an
\* error, a list at rest shows nothing that was deleted and the leaderboards' total is
\* what is left, although the server deletes, the page answers and a search lists at
\* different times: a row is spliced at the position where it still is, and every page
\* that is answered is the one after the last delete.
THEOREM ListStaysServed == Spec => []ListIsServed
<1> DEFINE I == ListsBase /\ ServedAlone
<1>1. Init => I
  <2> SUFFICES ASSUME Init
               PROVE  ServedAlone
    BY ListsBaseInit
  <2>1. /\ rows = <<>> /\ queries = <<>> /\ dialogs = <<>> /\ deletes = <<>> /\ purge = "no"
        /\ ready = FALSE
    BY DEF Init
  <2>2. DOMAIN <<>> = {} /\ Len(<<>>) = 0
    OBVIOUS
  <2>3. ~Crossing
    BY <2>1, <2>2 DEF Crossing
  <2> QED
    BY <2>1, <2>2, <2>3 DEF ServedAlone, UpToDate, RowsServed
<1>2. I /\ [Next]_vars => I'
  <2> SUFFICES ASSUME I, [Next]_vars
               PROVE  ServedAlone'
    BY ListsBaseStep
  <2>1. CASE Next
    <3>1. ListOpens \/ ListActs
      BY <2>1, ListSteps
    <3>2. failed => failed'
      BY <3>1 DEF ListOpens, ListActs, ListAsks, ListAnswers, SearchFailed, ListDrops, DeleteFailed,
         ServerDeletes, openDeleteConfirmModal, Toggle, confirm, closeModal, SetFilter, AccountCancelQuery,
         deleteData, DataDeleteFailed, deleteDataConfirm, DataDeleted, ServerDeletesData
    <3>3. crossed' = (crossed \/ Crossing')
      BY <2>1 DEF Next
    <3>4. failed' \in BOOLEAN
      BY ListsBaseStep DEF ListsBase, TypeOK
    <3>5. ~crossed /\ ~failed => OneAtATime /\ UpToDate /\ RowsServed
      BY NotCrossing DEF ServedAlone, ListsBase
    <3>6. ~crossed' /\ ~failed' => UpToDate' /\ RowsServed'
      BY <3>1, <3>2, <3>3, <3>4, <3>5, UpToDateStep, RowsServedStep
    <3> QED
      BY <3>3, <3>6 DEF ServedAlone
  <2>2. CASE UNCHANGED vars
    BY <2>2 DEF vars, fixed, list, remove, ServedAlone, Crossing, UpToDate, RowsServed, Served, view,
       Remaining, Left, Items
  <2> QED
    BY <2>1, <2>2
<1>3. I => ListIsServed
  <2> SUFFICES ASSUME I, ~crossed, ready, Idle, ~failed
               PROVE  /\ \A i \in DOMAIN rows : rows[i] \in Left(Len(gone))
                      /\ view = "leaderboards" => count = Cardinality(Left(Len(gone)))
    BY DEF ListIsServed
  <2>1. RowsServed /\ queries = <<>> /\ deletes = <<>> /\ purge = "no" /\ DOMAIN <<>> = {}
    BY DEF ServedAlone, Idle
  <2>2. Cardinality(Remaining) \in Nat
    <3>1. Remaining \in SUBSET Items
      BY DEF Remaining, Left
    <3> QED
      BY <3>1, ItemsFinite
  <2>3. view = "leaderboards" => count = Cardinality(Remaining) + 0
    BY <2>1 DEF RowsServed
  <2> QED
    BY <2>1, <2>2, <2>3 DEF RowsServed, Served, Remaining
<1> QED
  BY <1>1, <1>2, <1>3, PTL DEF Spec

-----------------------------------------------------------------------------
(* ConsoleLists: the accounts page implements LatestSearch.                *)

\* The steps of the accounts page as LatestSearch sees them.
LEMMA AccountSteps ==
    ASSUME ListsBase, view = "accounts", ListOpens \/ ListActs
    PROVE  \/ wanted' \in Searches /\ ongoing' = TRUE /\ shown' = shown
           \/ ongoing = TRUE /\ ongoing' = FALSE /\ shown' = wanted /\ wanted' = wanted
           \/ ongoing = TRUE /\ ongoing' = FALSE /\ UNCHANGED <<wanted, shown>>
           \/ UNCHANGED <<wanted, shown, ongoing>>
<1>0. TypeOK /\ LastAsked /\ RowsOnce
  BY DEF ListsBase
<1>1. queries \in Seq(Query) /\ ongoing \in BOOLEAN /\ (purge # "no" => view = "chat")
  BY <1>0 DEF TypeOK, RowsOnce
<1>2. /\ ongoing => Len(queries) = 1 /\ Of(queries[1]) = wanted
      /\ ~ongoing => queries = <<>>
  BY <1>0 DEF LastAsked
<1>3. CASE ListOpens
  BY <1>3 DEF ListOpens
<1>4. CASE \E q \in Searches : ListAsks(q)
  BY <1>4 DEF ListAsks, list
<1>5. ASSUME NEW k \in DOMAIN queries, ListAnswers(k) \/ SearchFailed(k)
      PROVE  /\ ongoing = TRUE /\ ongoing' = FALSE /\ wanted' = wanted
             /\ shown' = wanted \/ shown' = shown
  <2>1. queries # <<>>
    BY <1>5
  <2>2. ongoing = TRUE
    BY <1>1, <1>2, <2>1
  <2>3. k = 1 /\ Of(queries[1]) = wanted
    BY <1>1, <1>2, <2>2
  <2>4. CASE ListAnswers(k)
    BY <2>2, <2>3, <2>4 DEF ListAnswers
  <2>5. CASE SearchFailed(k)
    BY <2>2, <2>5 DEF SearchFailed, list
  <2> QED
    BY <1>5, <2>4, <2>5
<1>6. CASE AccountCancelQuery
  BY <1>1, <1>6 DEF AccountCancelQuery, list
<1>7. CASE \/ \E k \in DOMAIN deletes : ServerDeletes(k) \/ ListDrops(k) \/ DeleteFailed(k)
           \/ \E i \in 1..N : openDeleteConfirmModal(i) \/ Toggle(i)
           \/ \E k \in DOMAIN dialogs : confirm(k) \/ closeModal(k)
           \/ \E f \in Filters : SetFilter(f)
           \/ deleteData \/ DataDeleteFailed
           \/ \E b \in BOOLEAN : deleteDataConfirm(b)
  <2>1. UNCHANGED <<wanted, shown, ongoing>>
    BY <1>7 DEF ServerDeletes, ListDrops, DeleteFailed, openDeleteConfirmModal, Toggle, confirm, closeModal, SetFilter,
       deleteData, DataDeleteFailed, deleteDataConfirm, list
  <2> QED
    BY <2>1
<1>8. CASE DataDeleted \/ \E x \in Items : ServerDeletesData(x)
  BY <1>1, <1>8 DEF DataDeleted, ServerDeletesData
<1> QED
  BY <1>3, <1>4, <1>5, <1>6, <1>7, <1>8 DEF ListActs

\* The accounts page starts as LatestSearch does ...
LEMMA LatestInit == Init => Latest!Init
<1> SUFFICES ASSUME Init
             PROVE  Latest!Init
  OBVIOUS
<1>1. TypeOK
  BY ListsBaseInit DEF ListsBase
<1>2. wanted \in Searches /\ shown \in Searches /\ ongoing \in BOOLEAN
  BY <1>1 DEF TypeOK
<1>3. Search(All, 0) \in Searches
  BY <1>2 DEF Init
<1>4. cancels \in BOOLEAN
  BY DEF cancels
<1> QED
  BY <1>2, <1>3, <1>4 DEF Latest!Init

\* ... and each of its steps is a step of LatestSearch or a stutter.
LEMMA LatestStep ==
    ListsBase /\ [Next]_vars =>
        [Latest!Next]_<<IF cancels THEN wanted ELSE Search(All, 0),
                        IF cancels THEN shown ELSE Search(All, 0), cancels /\ ongoing>>
<1> SUFFICES ASSUME ListsBase, [Next]_vars
             PROVE  Latest!Next \/ UNCHANGED <<IF cancels THEN wanted ELSE Search(All, 0),
                        IF cancels THEN shown ELSE Search(All, 0), cancels /\ ongoing>>
  OBVIOUS
<1>1. visit' = visit
  <2>1. CASE Next
    BY <2>1, ListSteps, ActsOpened DEF ListOpens
  <2>2. CASE UNCHANGED vars
    BY <2>2 DEF vars, fixed
  <2> QED
    BY <2>1, <2>2
<1>2. cancels' = cancels /\ Search(All, 0)' = Search(All, 0)
  BY <1>1, ListParameters DEF cancels, Search, All
<1>3. CASE ~cancels
  BY <1>2, <1>3
<1>4. CASE cancels
  <2>1. cancels = TRUE /\ cancels' = TRUE /\ view = "accounts"
    BY <1>2, <1>4 DEF cancels
  <2>2. \/ wanted' \in Searches /\ ongoing' = TRUE /\ shown' = shown
        \/ ongoing = TRUE /\ ongoing' = FALSE /\ shown' = wanted /\ wanted' = wanted
        \/ ongoing = TRUE /\ ongoing' = FALSE /\ UNCHANGED <<wanted, shown>>
        \/ UNCHANGED <<wanted, shown, ongoing>>
    <3>1. CASE Next
      BY <2>1, <3>1, ListSteps, AccountSteps
    <3>2. CASE UNCHANGED vars
      BY <3>2 DEF vars, list
    <3> QED
      BY <3>1, <3>2
  <2>3. CASE wanted' \in Searches /\ ongoing' = TRUE /\ shown' = shown
    BY <2>1, <2>3 DEF Latest!Next, Latest!Search
  <2>4. CASE ongoing = TRUE /\ ongoing' = FALSE /\ shown' = wanted /\ wanted' = wanted
    BY <2>1, <2>4 DEF Latest!Next, Latest!Show
  <2>5. CASE ongoing = TRUE /\ ongoing' = FALSE /\ UNCHANGED <<wanted, shown>>
    BY <2>1, <2>5 DEF Latest!Next, Latest!GiveUp
  <2>6. CASE UNCHANGED <<wanted, shown, ongoing>>
    BY <1>2, <2>6
  <2> QED
    BY <2>2, <2>3, <2>4, <2>5, <2>6
<1> QED
  BY <1>3, <1>4

\* The accounts page implements LatestSearch: takeUntil(querySubject) leaves at most one
\* search under way, the last one made, so that no answer overtakes a later search.
THEOREM AccountsShowLatest == Spec => LatestSearchShown
<1>1. Spec => []ListsBase
  BY ListsBaseInit, ListsBaseStep, PTL DEF Spec
<1> QED
  BY <1>1, LatestInit, LatestStep, PTL DEF Spec, LatestSearchShown, Latest!Spec

-----------------------------------------------------------------------------
(* PortalLists.                                                            *)

\* What the bar is asked for is what the form or the bar says: without a page in the
\* URL both name the same one.
PageWanted ==
    ~Portal!FromUrl => pForm.page \in {0, pPage} /\ pWanted.page = pPage

\* The rows on the screen are those of the search shown, of as many items as the
\* total says there were.
RowsFitTotal ==
    LET left == pCount - (pShown.page - 1) * pShown.limit
    IN  pRows = IF left <= 0 THEN 0 ELSE IF left <= pShown.limit THEN left ELSE pShown.limit

\* takeUntil(querySubject) on the collections page.
PortalLastAsked ==
    Portal!cancels =>
        /\ pOngoing => pQueries = <<pWanted>>
        /\ ~pOngoing => pQueries = <<>>

PortalInv == Portal!TypeOK /\ PageWanted /\ RowsFitTotal /\ PortalLastAsked

-----------------------------------------------------------------------------
(* Arithmetic of the bar.                                                  *)

\* The larger, the smaller, and the last of the pages.
LEMMA MaxMin ==
    ASSUME NEW a \in Int, NEW b \in Int
    PROVE  /\ Portal!Max({a, b}) = IF a <= b THEN b ELSE a
           /\ Portal!Min({a, b}) = IF a <= b THEN a ELSE b
<1>1. \E x \in {a, b} : \A y \in {a, b} : x >= y
  OBVIOUS
<1>2. Portal!Max({a, b}) \in {a, b} /\ \A y \in {a, b} : Portal!Max({a, b}) >= y
  BY <1>1 DEF Portal!Max
<1>3. \E x \in {a, b} : \A y \in {a, b} : x <= y
  OBVIOUS
<1>4. Portal!Min({a, b}) \in {a, b} /\ \A y \in {a, b} : Portal!Min({a, b}) <= y
  BY <1>3 DEF Portal!Min
<1> QED
  BY <1>2, <1>4

\* The library's Max of 1..n.
LEMMA MaxOfInterval ==
    ASSUME NEW n \in Nat, n >= 1
    PROVE  Portal!Max(1..n) = n
<1>1. n \in 1..n /\ \A y \in 1..n : n >= y
  OBVIOUS
<1>2. Portal!Max(1..n) \in 1..n /\ \A y \in 1..n : Portal!Max(1..n) >= y
  BY <1>1 DEF Portal!Max
<1> QED
  BY <1>1, <1>2

\* The bar of n items: at least one page, never more pages than items, and its last
\* page begins before the last item.
LEMMA BarPages ==
    ASSUME PortalConstants, NEW n \in Nat
    PROVE  \E m \in Nat : /\ Portal!Bar(n) = 1..m /\ 1 <= m /\ m <= n + 1
                          /\ m = 1 \/ (m - 1) * Limit < n
<1>0. Limit \in Nat \ {0}
  BY DEF PortalConstants
<1> DEFINE d == (n + Limit - 1) \div Limit
           m == IF 1 <= d THEN d ELSE 1
<1>1. n + Limit - 1 \in Nat
  BY <1>0
<1>2. d \in Nat /\ Limit * d <= n + Limit - 1
  BY <1>0, <1>1
<1>3. Portal!Bar(n) = 1..m
  <2>1. d \in Int
    BY <1>2
  <2> HIDE DEF d
  <2>2. Portal!Max({1, d}) = m
    BY <2>1, MaxMin
  <2> QED
    BY <2>2 DEF Portal!Bar, d
<1> HIDE DEF d
<1>4. (d - 1) * Limit < n
  <2>1. (d - 1) * Limit = Limit * d - Limit
    BY <1>0, <1>2
  <2> QED
    BY <1>0, <1>2, <2>1
<1>5. d <= n + 1
  <2>1. CASE 1 <= d
    <3>1. d - 1 <= (d - 1) * Limit
      BY <1>0, <1>2, <2>1
    <3>2. (d - 1) * Limit \in Int
      BY <1>0, <1>2
    <3> QED
      BY <1>2, <1>4, <3>1, <3>2
  <2> QED
    BY <1>2, <2>1
<1> QED
  BY <1>2, <1>3, <1>4, <1>5

-----------------------------------------------------------------------------
(* The shapes of a step of a portal list.                                  *)

\* A search from form g and page p of the bar: ngOnInit, the button, a page of the bar,
\* the bar's own correction, another limit.
PortalAsks(g, p) ==
    /\ pReady' = TRUE /\ pForm' = g /\ pPage' = p
    /\ g \in [page: Portal!Pages \cup {0}, limit: Limits, f: PortalFilters] /\ p \in Portal!Pages
    /\ ~Portal!FromUrl => g.page \in {0, p}
    /\ pWanted' = Portal!Filter(g, p)
    /\ IF Portal!cancels THEN pQueries' = <<pWanted'>> /\ pOngoing' = TRUE
       ELSE /\ Len(pQueries) < Portal!MaxQueries
            /\ pQueries' = Append(pQueries, pWanted') /\ pOngoing' = pOngoing
    /\ UNCHANGED <<pVisit, pTotal, pRows, pCount, pShown>>

\* The end of a search, with its rows or with an error.
PortalEnds(k) ==
    /\ pQueries' = RemoveAt(pQueries, k) /\ pOngoing' = FALSE
    /\ \/ /\ pRows' = Portal!RowsOf(pQueries[k]) /\ pCount' = pTotal[pQueries[k].f]
          /\ pShown' = pQueries[k]
       \/ UNCHANGED <<pRows, pCount, pShown>>
    /\ UNCHANGED <<pVisit, pReady, pTotal, pForm, pPage, pWanted>>

PortalActs ==
    \/ \E g \in [page: Portal!Pages \cup {0}, limit: Limits, f: PortalFilters], p \in Portal!Pages :
          PortalAsks(g, p)
    \/ \E k \in DOMAIN pQueries : PortalEnds(k)
    \/ \E f \in PortalFilters, n \in 0..MaxTotal : Portal!Change(f, n)
    \/ Portal!cancelQuery

\* The types of the portal's lists, one by one.
LEMMA PortalTypes ==
    ASSUME Portal!TypeOK
    PROVE  /\ pVisit \in PortalVisits /\ pReady \in BOOLEAN /\ pTotal \in [PortalFilters -> 0..MaxTotal]
           /\ pForm \in [page: Portal!Pages \cup {0}, limit: Limits, f: PortalFilters]
           /\ pPage \in Portal!Pages /\ pRows \in 0..MaxTotal /\ pCount \in 0..MaxTotal
           /\ pQueries \in Seq(Portal!Searches) /\ Len(pQueries) <= Portal!MaxQueries
           /\ pOngoing \in BOOLEAN /\ pWanted \in Portal!Searches /\ pShown \in Portal!Searches
BY DEF Portal!TypeOK

\* Every step of a portal list is a search, the end of one, or leaves the list alone.
LEMMA PortalSteps ==
    ASSUME PortalConstants, PortalInv, Portal!Next
    PROVE  PortalActs
<1> DEFINE Forms == [page: Portal!Pages \cup {0}, limit: Limits, f: PortalFilters]
<1>0. Portal!TypeOK /\ PageWanted /\ pForm \in Forms /\ pPage \in Portal!Pages /\ pCount \in Nat
      /\ pCount <= MaxTotal /\ MaxTotal \in Nat
  BY PortalTypes DEF PortalInv, PortalConstants
<1>1. /\ pForm.page \in Portal!Pages \cup {0} /\ pForm.limit \in Limits /\ pForm.f \in PortalFilters
      /\ Limit \in Limits
  BY <1>0 DEF PortalConstants
<1>2. ~Portal!FromUrl => pForm.page \in {0, pPage}
  BY <1>0 DEF PageWanted
<1>3. ASSUME NEW g \in Forms, NEW p \in Portal!Pages, ~Portal!FromUrl => g.page \in {0, p},
             Portal!Search(g, p), pReady' = TRUE
      PROVE  PortalActs
  <2>1. PortalAsks(g, p)
    <3>1. CASE Portal!cancels
      BY <1>3, <3>1 DEF PortalAsks, Portal!Search, Portal!CollectionsSearch, Portal!cancels
    <3>2. CASE ~Portal!cancels
      BY <1>3, <3>2 DEF PortalAsks, Portal!Search, Portal!getListCollectible, Portal!cancels
    <3> QED
      BY <3>1, <3>2
  <2> QED
    BY <2>1 DEF PortalActs
<1>4. ASSUME NEW q \in Portal!Pages \cup {0}, NEW n \in Limits, NEW f \in PortalFilters
      PROVE  [page |-> q, limit |-> n, f |-> f] \in Forms
  OBVIOUS
<1>5. CASE Portal!CollectionsInit
  <2>1. PICK p \in (IF Portal!FromUrl THEN {0} \cup Portal!Pages ELSE {0}),
             n \in (IF Portal!FromUrl THEN Limits ELSE {Limit}), f \in PortalFilters :
            Portal!Search([page |-> p, limit |-> n, f |-> f], pPage)
    BY <1>5 DEF Portal!CollectionsInit
  <2> DEFINE g == [page |-> p, limit |-> n, f |-> f]
  <2>2. p \in Portal!Pages \cup {0} /\ (~Portal!FromUrl => p = 0) /\ n \in Limits
    BY <1>1, <2>1
  <2>3. g \in Forms /\ g.page = p
    BY <1>1, <1>4, <2>2
  <2> QED
    BY <1>0, <1>3, <1>5, <2>1, <2>2, <2>3 DEF Portal!CollectionsInit
<1>6. CASE Portal!CollectionDetailInit
  <2>1. PICK f \in PortalFilters : Portal!Search([page |-> pPage, limit |-> Limit, f |-> f], pPage)
    BY <1>6 DEF Portal!CollectionDetailInit
  <2> DEFINE g == [page |-> pPage, limit |-> Limit, f |-> f]
  <2>2. g \in Forms /\ g.page = pPage
    BY <1>0, <1>1, <1>4
  <2> QED
    BY <1>0, <1>3, <1>6, <2>1, <2>2 DEF Portal!CollectionDetailInit
<1>7. ASSUME NEW f \in PortalFilters, Portal!Submit(f)
      PROVE  PortalActs
  <2> DEFINE g == [pForm EXCEPT !.f = f]
  <2>1. g \in Forms /\ g.page = pForm.page
    BY <1>0
  <2>2. Portal!Search(g, pPage) /\ pReady' = TRUE
    BY <1>0, <1>7 DEF Portal!Submit, Portal!MayAct, Portal!TypeOK
  <2> QED
    BY <1>0, <1>2, <1>3, <2>1, <2>2
<1>8. ASSUME NEW p \in Portal!Pages, pReady, Portal!onPageChange(p)
      PROVE  PortalActs
  <2> DEFINE g == [pForm EXCEPT !.page = p]
  <2>1. g \in Forms /\ g.page = p
    BY <1>0
  <2>2. Portal!Search(g, p) /\ pReady' = TRUE
    BY <1>0, <1>8 DEF Portal!onPageChange, Portal!TypeOK
  <2> QED
    BY <1>3, <2>1, <2>2
<1>9. CASE \E p \in Portal!Pages : Portal!Click(p)
  BY <1>8, <1>9 DEF Portal!Click, Portal!MayAct
<1>10. CASE Portal!Correct
  <2>1. PICK m \in Nat : Portal!Bar(pCount) = 1..m /\ 1 <= m /\ m <= pCount + 1
    BY <1>0, BarPages
  <2>2. Portal!Max(Portal!Bar(pCount)) = m
    BY <2>1, MaxOfInterval
  <2>3. m \in Portal!Pages
    BY <1>0, <2>1 DEF Portal!Pages
  <2> QED
    BY <1>8, <1>10, <2>2, <2>3 DEF Portal!Correct
<1>11. ASSUME NEW n \in Limits, Portal!changeLimit(n)
       PROVE  PortalActs
  <2> DEFINE g == [pForm EXCEPT !.limit = n]
  <2>1. g \in Forms /\ g.page = pForm.page
    BY <1>0
  <2>2. Portal!Search(g, pPage) /\ pReady' = TRUE
    BY <1>0, <1>11 DEF Portal!changeLimit, Portal!MayAct, Portal!TypeOK
  <2> QED
    BY <1>0, <1>2, <1>3, <2>1, <2>2
<1>12. ASSUME NEW k, Portal!Answered(k) \/ Portal!Failed(k)
       PROVE  PortalActs
  <2>1. k \in DOMAIN pQueries /\ Portal!RemoveAt(pQueries, k) = RemoveAt(pQueries, k)
    BY <1>12 DEF Portal!Answered, Portal!Failed, Portal!RemoveAt, RemoveAt
  <2>2. PortalEnds(k)
    BY <1>12, <2>1 DEF PortalEnds, Portal!Answered, Portal!Failed, Portal!screen
  <2> QED
    BY <2>1, <2>2 DEF PortalActs
<1>13. CASE \/ \E f \in PortalFilters, n \in 0..MaxTotal : Portal!Change(f, n)
            \/ Portal!cancelQuery
  BY <1>13 DEF PortalActs
<1> QED
  BY <1>5, <1>6, <1>7, <1>9, <1>10, <1>11, <1>12, <1>13 DEF Portal!Next

-----------------------------------------------------------------------------
(* PortalLists: types, the bar and the last search.                        *)

\* What a portal list asks for, and on which page.
LEMMA PortalSearchTyped ==
    ASSUME NEW g \in [page: Portal!Pages \cup {0}, limit: Limits, f: PortalFilters], NEW p \in Portal!Pages
    PROVE  /\ Portal!Filter(g, p) \in Portal!Searches
           /\ Portal!Filter(g, p).page = IF g.page = 0 THEN p ELSE g.page
BY DEF Portal!Filter, Portal!Searches

\* How many rows the portal answers: what the total leaves on the page, up to the limit.
LEMMA RowsOfSearch ==
    ASSUME PortalConstants, Portal!TypeOK, NEW q \in Portal!Searches
    PROVE  LET left == pTotal[q.f] - (q.page - 1) * q.limit
           IN  /\ Portal!RowsOf(q) = IF left <= 0 THEN 0 ELSE IF left <= q.limit THEN left ELSE q.limit
               /\ Portal!RowsOf(q) \in 0..MaxTotal /\ pTotal[q.f] \in 0..MaxTotal
<1> DEFINE r == (q.page - 1) * q.limit
           t == pTotal[q.f]
           left == t - r
<1>1. q.page - 1 \in Nat /\ q.limit \in Nat \ {0} /\ q.f \in PortalFilters /\ MaxTotal \in Nat
  <2>1. q.page \in Portal!Pages /\ q.limit \in Limits /\ q.f \in PortalFilters
    BY DEF Portal!Searches
  <2>2. MaxTotal \in Nat /\ Limits \subseteq Nat \ {0}
    BY DEF PortalConstants
  <2>3. q.page \in 1..MaxTotal + 1
    BY <2>1 DEF Portal!Pages
  <2>4. q.page - 1 \in Nat
    BY <2>2, <2>3
  <2>5. q.limit \in Nat \ {0}
    BY <2>1, <2>2
  <2> QED
    BY <2>1, <2>2, <2>4, <2>5
<1>2. r \in Nat
  BY <1>1
<1>3. t \in 0..MaxTotal
  BY <1>1, PortalTypes
<1>4. left \in Int /\ left <= MaxTotal
  <2> HIDE DEF r, t
  <2> QED
    BY <1>1, <1>2, <1>3
<1>5. Portal!RowsOf(q) = Portal!Max({0, Portal!Min({q.limit, left})})
  BY DEF Portal!RowsOf
<1> HIDE DEF left
<1> DEFINE a == Portal!Min({q.limit, left})
<1>6. a = IF q.limit <= left THEN q.limit ELSE left
  <2>1. q.limit \in Int
    BY <1>1
  <2> QED
    BY <1>4, <2>1, MaxMin
<1>7. a \in Int
  BY <1>1, <1>4, <1>6
<1> HIDE DEF a
<1>8. Portal!Max({0, a}) = IF 0 <= a THEN a ELSE 0
  BY <1>7, MaxMin
<1>9. Portal!RowsOf(q) = IF left <= 0 THEN 0 ELSE IF left <= q.limit THEN left ELSE q.limit
  BY <1>1, <1>4, <1>5, <1>6, <1>7, <1>8 DEF a
<1>10. Portal!RowsOf(q) \in 0..MaxTotal
  BY <1>1, <1>4, <1>9
<1> QED
  BY <1>3, <1>9, <1>10 DEF left

\* The types of the portal's lists are kept.
LEMMA PortalTypeStep ==
    ASSUME PortalConstants, PortalInv, PortalActs
    PROVE  Portal!TypeOK' /\ pVisit' = pVisit
<1>0. Portal!TypeOK /\ PortalLastAsked
  BY DEF PortalInv
<1>1. Portal!MaxQueries \in Nat \ {0}
  BY <1>0, PortalTypes DEF PortalConstants, Portal!MaxQueries
<1>2. ASSUME pVisit' = pVisit
      PROVE  Portal!MaxQueries' = Portal!MaxQueries
  BY <1>2 DEF Portal!MaxQueries
<1>3. ASSUME NEW g \in [page: Portal!Pages \cup {0}, limit: Limits, f: PortalFilters],
             NEW p \in Portal!Pages, PortalAsks(g, p)
      PROVE  Portal!TypeOK' /\ pVisit' = pVisit
  <2>1. pWanted' \in Portal!Searches
    BY <1>3, PortalSearchTyped DEF PortalAsks
  <2>2. pQueries' \in Seq(Portal!Searches) /\ Len(pQueries') <= Portal!MaxQueries /\ pOngoing' \in BOOLEAN
    <3>1. CASE Portal!cancels
      <4>1. pQueries' = <<pWanted'>> /\ pOngoing' = TRUE
        BY <1>3, <3>1 DEF PortalAsks
      <4>2. pQueries' \in Seq(Portal!Searches) /\ Len(pQueries') = 1
        BY <2>1, <4>1
      <4> QED
        BY <1>1, <4>1, <4>2
    <3>2. CASE ~Portal!cancels
      <4>1. /\ Len(pQueries) < Portal!MaxQueries
            /\ pQueries' = Append(pQueries, pWanted') /\ pOngoing' = pOngoing
        BY <1>3, <3>2 DEF PortalAsks
      <4>2. pQueries \in Seq(Portal!Searches) /\ Len(pQueries) \in Nat /\ pOngoing \in BOOLEAN
        BY <1>0, PortalTypes
      <4>3. pQueries' \in Seq(Portal!Searches) /\ Len(pQueries') = Len(pQueries) + 1
        BY <2>1, <4>1, <4>2, AppendRest
      <4> QED
        BY <1>1, <4>1, <4>2, <4>3
    <3> QED
      BY <3>1, <3>2
  <2> QED
    BY <1>0, <1>2, <1>3, <2>1, <2>2, PortalTypes DEF PortalAsks, Portal!TypeOK
<1>4. ASSUME NEW k \in DOMAIN pQueries, PortalEnds(k)
      PROVE  Portal!TypeOK' /\ pVisit' = pVisit
  <2>1. pQueries' \in Seq(Portal!Searches) /\ Len(pQueries') <= Portal!MaxQueries
    <3>1. pQueries \in Seq(Portal!Searches) /\ Len(pQueries) <= Portal!MaxQueries /\ Len(pQueries) \in Nat
      BY <1>0, PortalTypes
    <3>2. /\ RemoveAt(pQueries, k) \in Seq(Portal!Searches)
          /\ Len(RemoveAt(pQueries, k)) = Len(pQueries) - 1
      BY <3>1, RemoveAtRest
    <3>3. pQueries' = RemoveAt(pQueries, k)
      BY <1>4 DEF PortalEnds
    <3> QED
      BY <1>1, <3>1, <3>2, <3>3
  <2>2. pRows' \in 0..MaxTotal /\ pCount' \in 0..MaxTotal /\ pShown' \in Portal!Searches
    <3>1. pQueries[k] \in Portal!Searches
      BY <1>0, PortalTypes
    <3> QED
      BY <1>0, <1>4, <3>1, PortalTypes, RowsOfSearch DEF PortalEnds
  <2>3. pOngoing' = FALSE /\ UNCHANGED <<pVisit, pReady, pTotal, pForm, pPage, pWanted>>
    BY <1>4 DEF PortalEnds
  <2>4. pOngoing' \in BOOLEAN
    BY <2>3
  <2> QED
    BY <1>0, <1>2, <2>1, <2>2, <2>3, <2>4, PortalTypes DEF Portal!TypeOK
<1>5. ASSUME NEW f \in PortalFilters, NEW n \in 0..MaxTotal, Portal!Change(f, n)
      PROVE  Portal!TypeOK' /\ pVisit' = pVisit
  <2>1. pTotal' \in [PortalFilters -> 0..MaxTotal]
    BY <1>0, <1>5, PortalTypes DEF Portal!Change
  <2> QED
    BY <1>0, <1>2, <1>5, <2>1, PortalTypes DEF Portal!Change, Portal!screen, Portal!TypeOK
<1>6. CASE Portal!cancelQuery
  <2>1. pQueries' = <<>> /\ pOngoing' = FALSE /\ UNCHANGED <<pVisit, pReady, pTotal, pForm, pPage, pRows,
                                                           pCount, pShown, pWanted>>
    BY <1>6 DEF Portal!cancelQuery, Portal!screen
  <2>2. pQueries' \in Seq(Portal!Searches) /\ Len(pQueries') = 0 /\ pOngoing' \in BOOLEAN
    BY <2>1, EmptySeq
  <2>3. Len(pQueries') <= Portal!MaxQueries
    BY <1>1, <2>2
  <2> QED
    BY <1>0, <1>2, <2>1, <2>2, <2>3, PortalTypes DEF Portal!TypeOK
<1> QED
  BY <1>3, <1>4, <1>5, <1>6 DEF PortalActs

\* The invariant of the portal's lists is kept ...
LEMMA PortalInvStep ==
    ASSUME PortalConstants, PortalInv, PortalActs
    PROVE  PortalInv'
<1>0. Portal!TypeOK /\ PageWanted /\ RowsFitTotal /\ PortalLastAsked
  BY DEF PortalInv
<1>1. Portal!TypeOK' /\ pVisit' = pVisit
  BY PortalTypeStep
<1>2. Portal!FromUrl' = Portal!FromUrl /\ Portal!cancels' = Portal!cancels
  BY <1>1 DEF Portal!FromUrl, Portal!cancels, Portal!view
<1>3. ASSUME NEW g \in [page: Portal!Pages \cup {0}, limit: Limits, f: PortalFilters],
             NEW p \in Portal!Pages, PortalAsks(g, p)
      PROVE  PortalInv'
  <2>1. ~Portal!FromUrl => pWanted'.page = p /\ pForm'.page \in {0, pPage'} /\ pPage' = p
    BY <1>3, PortalSearchTyped DEF PortalAsks
  <2>2. PageWanted'
    BY <1>2, <2>1 DEF PageWanted
  <2>3. RowsFitTotal'
    BY <1>0, <1>3 DEF PortalAsks, RowsFitTotal
  <2>4. PortalLastAsked'
    BY <1>2, <1>3 DEF PortalAsks, PortalLastAsked
  <2> QED
    BY <1>1, <2>2, <2>3, <2>4 DEF PortalInv
<1>4. ASSUME NEW k \in DOMAIN pQueries, PortalEnds(k)
      PROVE  PortalInv'
  <2>0. pQueries[k] \in Portal!Searches /\ pQueries \in Seq(Portal!Searches) /\ pOngoing \in BOOLEAN
    BY <1>0, PortalTypes
  <2>1. PageWanted'
    BY <1>0, <1>2, <1>4 DEF PortalEnds, PageWanted
  <2>2. RowsFitTotal'
    <3>1. CASE UNCHANGED <<pRows, pCount, pShown>>
      BY <1>0, <3>1 DEF RowsFitTotal
    <3>2. CASE /\ pRows' = Portal!RowsOf(pQueries[k]) /\ pCount' = pTotal[pQueries[k].f]
               /\ pShown' = pQueries[k]
      BY <1>0, <2>0, <3>2, RowsOfSearch DEF RowsFitTotal
    <3> QED
      BY <1>4, <3>1, <3>2 DEF PortalEnds
  <2>3. PortalLastAsked'
    <3> SUFFICES ASSUME Portal!cancels
                 PROVE  pOngoing' = FALSE /\ pQueries' = <<>>
      BY <1>2 DEF PortalLastAsked
    <3>1. pQueries # <<>>
      BY <1>4
    <3>2. pQueries = <<pWanted>>
      BY <1>0, <3>1 DEF PortalLastAsked
    <3>3. Len(pQueries) = 1
      BY <3>2
    <3>4. RemoveAt(pQueries, k) \in Seq(Portal!Searches) /\ Len(RemoveAt(pQueries, k)) = Len(pQueries) - 1
      BY <2>0, RemoveAtRest
    <3>5. RemoveAt(pQueries, k) = <<>>
      BY <3>3, <3>4, EmptySeq
    <3> QED
      BY <1>4, <3>5 DEF PortalEnds
  <2> QED
    BY <1>1, <2>1, <2>2, <2>3 DEF PortalInv
<1>5. CASE \E f \in PortalFilters, n \in 0..MaxTotal : Portal!Change(f, n)
  <2>1. UNCHANGED <<pForm, pPage, pRows, pCount, pShown, pQueries, pOngoing, pWanted>>
    BY <1>5 DEF Portal!Change, Portal!screen
  <2> QED
    BY <1>0, <1>1, <1>2, <2>1 DEF PortalInv, PageWanted, RowsFitTotal, PortalLastAsked
<1>6. CASE Portal!cancelQuery
  <2>1. pQueries' = <<>> /\ pOngoing' = FALSE /\ UNCHANGED <<pForm, pPage, pRows, pCount, pShown, pWanted>>
    BY <1>6 DEF Portal!cancelQuery, Portal!screen
  <2>2. PortalLastAsked'
    BY <2>1 DEF PortalLastAsked
  <2> QED
    BY <1>0, <1>1, <1>2, <2>1, <2>2 DEF PortalInv, PageWanted, RowsFitTotal
<1> QED
  BY <1>3, <1>4, <1>5, <1>6 DEF PortalActs

\* ... holds at the start ...
LEMMA PortalInvInit ==
    ASSUME PortalConstants, Portal!Init
    PROVE  PortalInv
<1> DEFINE f0 == CHOOSE f \in PortalFilters : TRUE
<1>1. f0 \in PortalFilters
  BY DEF PortalConstants
<1> HIDE DEF f0
<1>2. /\ pVisit \in PortalVisits /\ pReady = FALSE /\ pTotal \in [PortalFilters -> 0..MaxTotal]
      /\ pForm = [page |-> 0, limit |-> Limit, f |-> f0]
      /\ pPage = 1 /\ pRows = 0 /\ pCount = 0 /\ pQueries = <<>> /\ pOngoing = FALSE
      /\ pWanted = [pForm EXCEPT !.page = 1] /\ pShown = pWanted
  BY DEF Portal!Init, f0
<1>3. /\ pWanted = [page |-> 1, limit |-> Limit, f |-> f0] /\ 1 \in Portal!Pages /\ Limit \in Limits
      /\ MaxTotal \in Nat /\ 0 \in 0..MaxTotal /\ Limit \in Nat \ {0}
  BY <1>2 DEF PortalConstants, Portal!Pages
<1>4. /\ pWanted \in Portal!Searches
      /\ pForm \in [page: Portal!Pages \cup {0}, limit: Limits, f: PortalFilters]
  BY <1>1, <1>2, <1>3 DEF Portal!Searches
<1>5. /\ pQueries \in Seq(Portal!Searches) /\ Len(pQueries) = 0
      /\ pReady \in BOOLEAN /\ pOngoing \in BOOLEAN
  BY <1>2, EmptySeq
<1>6. Len(pQueries) <= Portal!MaxQueries
  <2>1. Portal!MaxQueries \in Nat
    BY <1>2 DEF PortalConstants, Portal!MaxQueries
  <2> QED
    BY <1>5, <2>1
<1>7. Portal!TypeOK
  BY <1>2, <1>3, <1>4, <1>5, <1>6 DEF Portal!TypeOK
<1>8. PageWanted /\ PortalLastAsked
  BY <1>2, <1>3 DEF PageWanted, PortalLastAsked
<1>9. RowsFitTotal
  <2>1. pShown.page - 1 = 0 /\ pShown.limit = Limit
    BY <1>2, <1>3
  <2>2. 0 * Limit = 0
    BY <1>3
  <2> QED
    BY <1>2, <2>1, <2>2 DEF RowsFitTotal
<1> QED
  BY <1>7, <1>8, <1>9 DEF PortalInv

\* ... and so always.
LEMMA PortalInvariance == PortalConstants => (Portal!Spec => []PortalInv)
<1> SUFFICES ASSUME PortalConstants
             PROVE  Portal!Spec => []PortalInv
  OBVIOUS
<1>1. Portal!Init => PortalInv
  BY PortalInvInit
<1>2. PortalInv /\ [Portal!Next]_(Portal!vars) => PortalInv'
  <2> SUFFICES ASSUME PortalInv, [Portal!Next]_(Portal!vars)
               PROVE  PortalInv'
    OBVIOUS
  <2>1. CASE Portal!Next
    BY <2>1, PortalSteps, PortalInvStep
  <2>2. CASE UNCHANGED Portal!vars
    BY <2>2 DEF Portal!vars, PortalInv, Portal!TypeOK, PageWanted, RowsFitTotal, PortalLastAsked,
       Portal!MaxQueries, Portal!FromUrl, Portal!cancels, Portal!view
  <2> QED
    BY <2>1, <2>2
<1> QED
  BY <1>1, <1>2, PTL DEF Portal!Spec

\* The two portal lists keep their types: the bar never leaves the pages there can be,
\* and no more searches are under way than the page sends.
THEOREM PortalTypeCorrect == Portal!Spec => []Portal!TypeOK
<1>1. Portal!Spec => []PortalInv
  BY ListPagesAssumption, PortalInvariance
<1>2. PortalInv => Portal!TypeOK
  BY DEF PortalInv
<1> QED
  BY <1>1, <1>2, PTL

\* The invariant makes the bar fit the list.
LEMMA BarFits ==
    ASSUME PortalConstants, PortalInv
    PROVE  Portal!BarFitsList
<1>0. Portal!TypeOK /\ PageWanted /\ RowsFitTotal
  BY DEF PortalInv
<1>1. SUFFICES ASSUME ~Portal!FromUrl, Portal!InRange, pShown = pWanted
      PROVE  /\ pPage = pShown.page
             /\ pRows = 0 /\ pShown.limit <= Limit => pCount = 0
  BY DEF Portal!BarFitsList
<1>2. pPage = pShown.page
  BY <1>0, <1>1 DEF PageWanted
<1>3. SUFFICES ASSUME pRows = 0, pShown.limit <= Limit
      PROVE  pCount = 0
  BY <1>2
<1>4. /\ pCount \in Nat /\ pShown.page \in Portal!Pages /\ pShown.limit \in Nat \ {0}
      /\ Limit \in Nat \ {0} /\ MaxTotal \in Nat
  <2>1. pCount \in 0..MaxTotal /\ pShown \in Portal!Searches
    BY <1>0, PortalTypes
  <2>2. pShown.page \in Portal!Pages /\ pShown.limit \in Limits
    BY <2>1 DEF Portal!Searches
  <2>3. MaxTotal \in Nat /\ Limits \subseteq Nat \ {0} /\ Limit \in Limits
    BY DEF PortalConstants
  <2>4. pShown.limit \in Nat \ {0} /\ Limit \in Nat \ {0}
    BY <2>2, <2>3
  <2>5. pCount \in Nat
    BY <2>1, <2>3
  <2> QED
    BY <2>2, <2>3, <2>4, <2>5
<1> DEFINE p == pShown.page
           l == pShown.limit
<1>5. p \in Nat /\ p >= 1
  BY <1>4 DEF Portal!Pages
<1> HIDE DEF p, l
<1>6. l \in Nat \ {0} /\ l <= Limit
  BY <1>3, <1>4 DEF l
<1>7. (p - 1) * l \in Nat /\ (p - 1) * Limit \in Nat /\ (p - 1) * l <= (p - 1) * Limit
  BY <1>4, <1>5, <1>6
<1>8. pCount <= (p - 1) * l
  <2>1. pCount - (p - 1) * l <= 0
    <3> DEFINE left == pCount - (p - 1) * l
    <3>1. left \in Int
      BY <1>4, <1>7
    <3>2. 0 = IF left <= 0 THEN 0 ELSE IF left <= l THEN left ELSE l
      BY <1>0, <1>3 DEF RowsFitTotal, p, l
    <3> HIDE DEF left
    <3>3. left <= 0
      BY <1>6, <3>1, <3>2
    <3> QED
      BY <3>3 DEF left
  <2> QED
    BY <1>4, <1>7, <2>1
<1>9. PICK m \in Nat : /\ Portal!Bar(pCount) = 1..m /\ 1 <= m
                       /\ m = 1 \/ (m - 1) * Limit < pCount
  BY <1>4, BarPages
<1>10. p <= m
  BY <1>1, <1>2, <1>9 DEF Portal!InRange, p
<1>11. CASE m = 1
  <2>1. p - 1 = 0
    BY <1>5, <1>10, <1>11
  <2>2. (p - 1) * l = 0
    BY <1>6, <2>1
  <2> QED
    BY <1>4, <1>8, <2>2
<1>12. CASE (m - 1) * Limit < pCount
  <2>1. (m - 1) * Limit \in Nat /\ (p - 1) * Limit <= (m - 1) * Limit
    BY <1>4, <1>5, <1>9, <1>10
  <2> QED
    BY <1>4, <1>7, <1>8, <1>12, <2>1
<1> QED
  BY <1>9, <1>11, <1>12

\* The bar stands on the page that is shown, and "none found" is said only of a list that
\* is empty: a page past the end of a list that another filter made shorter is out of the
\* bar's range, and the bar searches again.
THEOREM BarAlwaysFits == Portal!Spec => []BarFitsList
<1>1. Portal!Spec => []PortalInv
  BY ListPagesAssumption, PortalInvariance
<1>2. PortalInv => BarFitsList
  BY ListPagesAssumption, BarFits DEF BarFitsList
<1> QED
  BY <1>1, <1>2, PTL

\* The collections page starts as LatestSearch does.
LEMMA CollectionsLatestInit ==
    ASSUME PortalConstants, Portal!Init
    PROVE  Portal!Latest!Init
<1>1. Portal!TypeOK
  BY PortalInvInit DEF PortalInv
<1>2. pWanted \in Portal!Searches /\ pShown \in Portal!Searches /\ pOngoing \in BOOLEAN
  BY <1>1, PortalTypes
<1>3. Portal!Blank \in Portal!Searches
  <2>1. 1 \in Portal!Pages /\ Limit \in Limits /\ PortalFilters # {}
    BY DEF PortalConstants, Portal!Pages
  <2> QED
    BY <2>1 DEF Portal!Blank, Portal!Searches
<1>4. Portal!cancels \in BOOLEAN
  BY DEF Portal!cancels
<1> QED
  BY <1>2, <1>3, <1>4 DEF Portal!Latest!Init

\* The steps of the collections page as LatestSearch sees them.
LEMMA CollectionsSteps ==
    ASSUME PortalConstants, PortalInv, Portal!cancels, PortalActs
    PROVE  \/ pWanted' \in Portal!Searches /\ pOngoing' = TRUE /\ pShown' = pShown
           \/ pOngoing = TRUE /\ pOngoing' = FALSE /\ pShown' = pWanted /\ pWanted' = pWanted
           \/ pOngoing = TRUE /\ pOngoing' = FALSE /\ UNCHANGED <<pWanted, pShown>>
           \/ UNCHANGED <<pWanted, pShown, pOngoing>>
<1>0. PortalLastAsked /\ Portal!TypeOK /\ pOngoing \in BOOLEAN
  BY PortalTypes DEF PortalInv
<1>1. ASSUME NEW g \in [page: Portal!Pages \cup {0}, limit: Limits, f: PortalFilters],
             NEW p \in Portal!Pages, PortalAsks(g, p)
      PROVE  pWanted' \in Portal!Searches /\ pOngoing' = TRUE /\ pShown' = pShown
  BY <1>1, PortalSearchTyped DEF PortalAsks
<1>2. ASSUME NEW k \in DOMAIN pQueries, PortalEnds(k)
      PROVE  /\ pOngoing = TRUE /\ pOngoing' = FALSE /\ pWanted' = pWanted
             /\ pShown' = pWanted \/ pShown' = pShown
  <2>1. pQueries # <<>>
    BY <1>2
  <2>2. pOngoing = TRUE /\ pQueries = <<pWanted>>
    BY <1>0, <2>1 DEF PortalLastAsked
  <2>3. pQueries[k] = pWanted
    BY <1>2, <2>2
  <2> QED
    BY <1>2, <2>2, <2>3 DEF PortalEnds
<1>3. CASE \E f \in PortalFilters, n \in 0..MaxTotal : Portal!Change(f, n)
  BY <1>3 DEF Portal!Change, Portal!screen
<1>4. CASE Portal!cancelQuery
  BY <1>0, <1>4 DEF Portal!cancelQuery, Portal!screen
<1> QED
  BY <1>1, <1>2, <1>3, <1>4 DEF PortalActs

\* Each step of the collections page is a step of LatestSearch or a stutter.
LEMMA CollectionsLatestStep ==
    PortalConstants =>
        (PortalInv /\ [Portal!Next]_(Portal!vars) =>
            [Portal!Latest!Next]_<<IF Portal!cancels THEN pWanted ELSE Portal!Blank,
                                   IF Portal!cancels THEN pShown ELSE Portal!Blank,
                                   Portal!cancels /\ pOngoing>>)
<1> SUFFICES ASSUME PortalConstants, PortalInv, [Portal!Next]_(Portal!vars)
             PROVE  \/ Portal!Latest!Next
                    \/ UNCHANGED <<IF Portal!cancels THEN pWanted ELSE Portal!Blank,
                                   IF Portal!cancels THEN pShown ELSE Portal!Blank,
                                   Portal!cancels /\ pOngoing>>
  OBVIOUS
<1>1. pVisit' = pVisit
  <2>1. CASE Portal!Next
    BY <2>1, PortalSteps, PortalTypeStep
  <2>2. CASE UNCHANGED Portal!vars
    BY <2>2 DEF Portal!vars
  <2> QED
    BY <2>1, <2>2
<1>2. Portal!cancels' = Portal!cancels /\ Portal!Blank' = Portal!Blank
  BY <1>1 DEF Portal!cancels, Portal!view, Portal!Blank
<1>3. CASE ~Portal!cancels
  BY <1>2, <1>3
<1>4. CASE Portal!cancels
  <2>1. Portal!cancels = TRUE /\ Portal!cancels' = TRUE
    BY <1>2, <1>4 DEF Portal!cancels
  <2>2. \/ pWanted' \in Portal!Searches /\ pOngoing' = TRUE /\ pShown' = pShown
        \/ pOngoing = TRUE /\ pOngoing' = FALSE /\ pShown' = pWanted /\ pWanted' = pWanted
        \/ pOngoing = TRUE /\ pOngoing' = FALSE /\ UNCHANGED <<pWanted, pShown>>
        \/ UNCHANGED <<pWanted, pShown, pOngoing>>
    <3>1. CASE Portal!Next
      BY <1>4, <3>1, PortalSteps, CollectionsSteps
    <3>2. CASE UNCHANGED Portal!vars
      BY <3>2 DEF Portal!vars
    <3> QED
      BY <3>1, <3>2
  <2>3. CASE pWanted' \in Portal!Searches /\ pOngoing' = TRUE /\ pShown' = pShown
    BY <2>1, <2>3 DEF Portal!Latest!Next, Portal!Latest!Search
  <2>4. CASE pOngoing = TRUE /\ pOngoing' = FALSE /\ pShown' = pWanted /\ pWanted' = pWanted
    BY <2>1, <2>4 DEF Portal!Latest!Next, Portal!Latest!Show
  <2>5. CASE pOngoing = TRUE /\ pOngoing' = FALSE /\ UNCHANGED <<pWanted, pShown>>
    BY <2>1, <2>5 DEF Portal!Latest!Next, Portal!Latest!GiveUp
  <2>6. CASE UNCHANGED <<pWanted, pShown, pOngoing>>
    BY <1>2, <2>6
  <2> QED
    BY <2>2, <2>3, <2>4, <2>5, <2>6
<1> QED
  BY <1>3, <1>4

\* The accounts page and the collections page implement LatestSearch: no answer overtakes
\* a later search, and the searches the pagination bar makes by itself are no exception.
THEOREM LatestAlwaysShown == Spec /\ Portal!Spec => LatestShown
<1>1. Portal!Init => Portal!Latest!Init
  BY ListPagesAssumption, CollectionsLatestInit
<1>2. Portal!Spec => []PortalInv
  BY ListPagesAssumption, PortalInvariance
<1>3. PortalInv /\ [Portal!Next]_(Portal!vars) =>
            [Portal!Latest!Next]_<<IF Portal!cancels THEN pWanted ELSE Portal!Blank,
                                   IF Portal!cancels THEN pShown ELSE Portal!Blank,
                                   Portal!cancels /\ pOngoing>>
  BY ListPagesAssumption, CollectionsLatestStep
<1>4. Portal!Spec => Portal!LatestCollections
  BY <1>1, <1>2, <1>3, PTL DEF Portal!Spec, Portal!LatestCollections, Portal!Latest!Spec
<1> QED
  BY <1>4, AccountsShowLatest, PTL DEF LatestShown

-----------------------------------------------------------------------------
(* MatchesPage.                                                            *)

\* A search under way was made with the type the page holds, and unless the forms were
\* used since, it is the one the URL is going to name.
AskedIsNamed ==
    /\ ~mReady => mReqs = <<>>
    /\ \A k \in DOMAIN mReqs : mReqs[k].kind = "search" =>
          /\ mType \in Matches!types
          /\ ~mReqs[k].touched => mReqs[k].what = Matches!UrlNow

MatchesInv ==
    Matches!TypeOK /\ AskedIsNamed /\ Matches!OpenShowsOrWaits /\ Matches!UrlNamesList

\* An answer lists each of its matches once.
LEMMA AnswersTyped ==
    ASSUME MatchesConstants, Matches!TypeOK, NEW s \in Matches!Answers
    PROVE  s \in Seq(Matches!Matches)
<1>1. PICK S \in SUBSET Matches!Matches : s = Matches!SetToSeq(S)
  BY DEF Matches!Answers
<1>2. IsFiniteSet(Matches!Matches)
  BY DEF MatchesConstants, Matches!TypeOK, Matches!Matches
<1>3. IsFiniteSet(S)
  BY <1>2, FS_Subset
<1>4. Matches!Cardinality(S) = Cardinality(S)
  BY DEF Matches!Cardinality, Cardinality
<1>5. PICK n \in Nat : n = Cardinality(S) /\ ExistsBijection(1..n, S)
  BY <1>3, FS_CardinalityType
<1>6. PICK g : g \in Bijection(1..n, S)
  BY <1>5 DEF ExistsBijection
<1>7. g \in [1..n -> S] /\ Matches!IsInjective(g)
  BY <1>6 DEF Bijection, Injection, IsInjective, Matches!IsInjective
<1>8. Matches!SetToSeq(S) = CHOOSE f \in [1..n -> S] : Matches!IsInjective(f)
  BY <1>4, <1>5 DEF Matches!SetToSeq
<1>9. (CHOOSE f \in [1..n -> S] : Matches!IsInjective(f)) \in [1..n -> S]
  BY <1>7
<1>10. s \in [1..n -> S]
  BY <1>1, <1>8, <1>9
<1>11. s \in Seq(S)
  BY <1>10
<1> QED
  BY <1>11

Requests == Matches!SearchReq \cup Matches!StateReq

\* The types of the matches page, one by one.
LEMMA MatchesTypes ==
    ASSUME Matches!TypeOK
    PROVE  /\ mVisit \in MatchesVisits /\ mReady \in BOOLEAN /\ mUrl \in Matches!Search
           /\ mNodes \subseteq Matches!Nodes /\ mActiveNode \in mNodes \cup {Matches!AllNodes}
           /\ mActiveType \in Matches!types /\ mType \in Matches!types \cup {Matches!Invalid}
           /\ mForm \in [Matches!types -> Matches!Texts]
           /\ mMatches \in Seq(Matches!Matches)
           /\ mMatchStates \in [Matches!Positions -> Matches!Matches \cup {Matches!Null, Matches!Undefined}]
           /\ mMatchStatesOpen \subseteq Matches!Positions
           /\ mReqs \in Seq(Requests) /\ mShown \in Matches!Search /\ mTouched \in BOOLEAN
BY DEF Matches!TypeOK, Requests

\* What a visit of the matches page fixes stays fixed.
LEMMA MatchesParameters ==
    ASSUME mVisit' = mVisit
    PROVE  /\ Matches!Matches' = Matches!Matches /\ Matches!Nodes' = Matches!Nodes
           /\ Matches!Texts' = Matches!Texts /\ Matches!Positions' = Matches!Positions
           /\ Matches!Search' = Matches!Search /\ Requests' = Requests
BY DEF Matches!Matches, Matches!Nodes, Matches!Texts, Matches!Positions, Matches!Search, Requests,
   Matches!SearchReq, Matches!StateReq

\* The types of what a step leaves.
MatchesStayTyped ==
    /\ mReady' \in BOOLEAN /\ mUrl' \in Matches!Search
    /\ mNodes' \subseteq Matches!Nodes /\ mActiveNode' \in mNodes' \cup {Matches!AllNodes}
    /\ mActiveType' \in Matches!types /\ mType' \in Matches!types \cup {Matches!Invalid}
    /\ mForm' \in [Matches!types -> Matches!Texts]
    /\ mMatches' \in Seq(Matches!Matches)
    /\ mMatchStates' \in [Matches!Positions -> Matches!Matches \cup {Matches!Null, Matches!Undefined}]
    /\ mMatchStatesOpen' \subseteq Matches!Positions
    /\ mReqs' \in Seq(Requests) /\ mShown' \in Matches!Search /\ mTouched' \in BOOLEAN

\* A step whose changes are typed keeps the types of the matches page.
LEMMA MatchesTyped ==
    ASSUME Matches!TypeOK, mVisit' = mVisit, MatchesStayTyped
    PROVE  Matches!TypeOK'
<1>1. mVisit' \in MatchesVisits
  BY MatchesTypes
<1>2. /\ Matches!Matches' = Matches!Matches /\ Matches!Nodes' = Matches!Nodes
      /\ Matches!Texts' = Matches!Texts /\ Matches!Positions' = Matches!Positions
      /\ Matches!Search' = Matches!Search /\ Requests' = Requests
  BY MatchesParameters
<1>3. Requests' = (Matches!SearchReq \cup Matches!StateReq)'
  BY DEF Requests
<1> QED
  BY <1>1, <1>2, <1>3 DEF MatchesStayTyped, Matches!TypeOK

\* What the user does marks the searches under way, and leaves the rest.
LEMMA TouchedKeeps ==
    ASSUME Matches!TypeOK
    PROVE  /\ Matches!Touched \in Seq(Requests) /\ DOMAIN Matches!Touched = DOMAIN mReqs
           /\ \A k \in DOMAIN mReqs :
                 /\ Matches!Touched[k].kind = mReqs[k].kind
                 /\ mReqs[k].kind = "search" => Matches!Touched[k].touched = TRUE
                 /\ mReqs[k].kind # "search" => Matches!Touched[k] = mReqs[k]
<1>1. mReqs \in Seq(Requests)
  BY MatchesTypes
<1> DEFINE marked(r) == IF r.kind = "search" THEN [r EXCEPT !.touched = TRUE] ELSE r
<1>2. ASSUME NEW r \in Requests
      PROVE  /\ marked(r) \in Requests /\ marked(r).kind = r.kind
             /\ r.kind = "search" => marked(r).touched = TRUE
  <2>1. CASE r.kind = "search"
    <3>1. r \in Matches!SearchReq
      BY <2>1 DEF Requests, Matches!StateReq
    <3> DEFINE t == [r EXCEPT !.touched = TRUE]
    <3>2. t \in Matches!SearchReq /\ t.kind = r.kind /\ t.touched = TRUE
      BY <3>1 DEF Matches!SearchReq
    <3> HIDE DEF t
    <3> QED
      BY <2>1, <3>2 DEF Requests, t
  <2>2. CASE r.kind # "search"
    BY <2>2
  <2> QED
    BY <2>1, <2>2
<1>3. Matches!Touched = [k \in DOMAIN mReqs |-> marked(mReqs[k])]
  BY DEF Matches!Touched
<1>4. \A r : r.kind # "search" => marked(r) = r
  OBVIOUS
<1> HIDE DEF marked
<1>5. DOMAIN mReqs = 1..Len(mReqs) /\ Len(mReqs) \in Nat /\ \A k \in DOMAIN mReqs : mReqs[k] \in Requests
  BY <1>1
<1>6. Matches!Touched \in [1..Len(mReqs) -> Requests]
  BY <1>2, <1>3, <1>5
<1>7. Matches!Touched \in Seq(Requests)
  BY <1>5, <1>6
<1>8. \A k \in DOMAIN mReqs : Matches!Touched[k] = marked(mReqs[k])
  BY <1>3
<1> QED
  BY <1>2, <1>3, <1>4, <1>5, <1>7, <1>8

\* The rows are replaced, the flags and states cut to their number.
LEMMA ReplaceTyped ==
    ASSUME MatchesConstants, Matches!TypeOK, NEW s \in Matches!Answers, Matches!Replace(s)
    PROVE  /\ mMatches' \in Seq(Matches!Matches)
           /\ mMatchStates' \in [Matches!Positions -> Matches!Matches \cup {Matches!Null, Matches!Undefined}]
           /\ mMatchStatesOpen' \subseteq mMatchStatesOpen
           /\ \A i \in mMatchStatesOpen' : mMatchStates'[i] = mMatchStates[i]
<1>1. s \in Seq(Matches!Matches)
  BY AnswersTyped
<1>2. mMatchStatesOpen \subseteq Matches!Positions
  BY MatchesTypes
<1>3. /\ mMatches' = s
      /\ mMatchStates' = [i \in Matches!Positions |-> IF i <= Len(s) THEN mMatchStates[i] ELSE Matches!Undefined]
      /\ mMatchStatesOpen' = {i \in mMatchStatesOpen : i <= Len(s)}
  BY DEF Matches!Replace, Matches!SetLength
<1>4. \A i \in Matches!Positions : mMatchStates[i] \in Matches!Matches \cup {Matches!Null, Matches!Undefined}
  BY MatchesTypes
<1>5. mMatchStates' \in [Matches!Positions -> Matches!Matches \cup {Matches!Null, Matches!Undefined}]
  BY <1>3, <1>4
<1>6. \A i \in mMatchStatesOpen' : i \in Matches!Positions /\ i <= Len(s)
  BY <1>2, <1>3
<1>7. \A i \in mMatchStatesOpen' : mMatchStates'[i] = mMatchStates[i]
  BY <1>3, <1>6
<1> QED
  BY <1>1, <1>3, <1>5, <1>7

\* ngOnInit.
LEMMA MatchesOpens ==
    ASSUME MatchesConstants, MatchesInv, Matches!ngOnInit
    PROVE  MatchesInv'
<1>0. Matches!TypeOK /\ AskedIsNamed /\ Matches!OpenShowsOrWaits /\ Matches!UrlNamesList
  BY DEF MatchesInv
<1>1. /\ ~mReady /\ mReady' = TRUE /\ mReqs' = mReqs /\ mReqs = <<>>
      /\ UNCHANGED <<mVisit, mUrl, mTouched>> /\ mType' = mUrl.type
      /\ mNodes' = Matches!Nodes \/ mNodes' = {}
      /\ mActiveType' = IF mUrl.type \in Matches!types THEN mUrl.type ELSE mActiveType
      /\ mActiveNode' = IF mUrl.node \in mNodes' THEN mUrl.node ELSE Matches!AllNodes
      /\ mForm' = [t \in Matches!types |-> IF (t = 1) = (mUrl.type = 1) THEN mUrl.text ELSE ""]
  BY <1>0 DEF Matches!ngOnInit, Matches!NodesResolver, Matches!UrlType, AskedIsNamed
<1>2. /\ mMatches' \in Seq(Matches!Matches)
      /\ mMatchStates' \in [Matches!Positions -> Matches!Matches \cup {Matches!Null, Matches!Undefined}]
      /\ mMatchStatesOpen' \subseteq mMatchStatesOpen
      /\ \A i \in mMatchStatesOpen' : mMatchStates'[i] = mMatchStates[i]
      /\ mShown' = mUrl \/ mShown' = mShown
  <2>1. CASE (\E s \in Matches!Answers : Matches!Replace(s)) /\ mShown' = mUrl
    BY <1>0, <2>1, ReplaceTyped
  <2>2. CASE UNCHANGED <<Matches!list, mShown>>
    BY <1>0, <2>2, MatchesTypes DEF Matches!list
  <2> QED
    BY <2>1, <2>2 DEF Matches!ngOnInit, Matches!MatchesResolver
<1>3. /\ mUrl.text \in Matches!Texts /\ "" \in Matches!Texts
      /\ mUrl.type \in Matches!types \cup {Matches!Invalid}
  <2>1. mUrl \in Matches!Search /\ mVisit \in MatchesVisits
    BY <1>0, MatchesTypes
  <2> QED
    BY <2>1 DEF Matches!Search, MatchesConstants, Matches!Texts
<1>4. mForm' \in [Matches!types -> Matches!Texts]
  BY <1>1, <1>3
<1>5. MatchesStayTyped
  BY <1>0, <1>1, <1>2, <1>3, <1>4, MatchesTypes DEF MatchesStayTyped
<1>6. Matches!TypeOK'
  BY <1>0, <1>1, <1>5, MatchesTyped
<1>7. AskedIsNamed'
  <2>1. mReqs' = <<>>
    BY <1>0 DEF Matches!ngOnInit, AskedIsNamed
  <2>2. DOMAIN <<>> = {}
    OBVIOUS
  <2> QED
    BY <1>1, <2>1, <2>2 DEF AskedIsNamed
<1>8. Matches!OpenShowsOrWaits'
  BY <1>0, <1>1, <1>2 DEF Matches!OpenShowsOrWaits
<1>9. Matches!UrlNamesList'
  BY <1>0, <1>1, <1>2 DEF Matches!UrlNamesList
<1> QED
  BY <1>6, <1>7, <1>8, <1>9 DEF MatchesInv

\* The forms, the menus and the search button.
LEMMA MatchesUsed ==
    ASSUME MatchesInv, mReady,
           UNCHANGED <<mVisit, mReady, mUrl, mNodes, mMatches, mMatchStates, mMatchStatesOpen,
                       mShown, mTouched>>,
           mActiveType' \in Matches!types, mForm' \in [Matches!types -> Matches!Texts],
           mActiveNode' \in mNodes \cup {Matches!AllNodes},
           \/ mReqs' = Matches!Touched /\ mType' = mType
           \/ /\ mType' = mActiveType /\ UNCHANGED Matches!input
              /\ mReqs' = Append(Matches!Touched,
                     [kind |-> "search", touched |-> FALSE,
                      what |-> Matches!listMatches(mActiveType, mForm[mActiveType], mActiveNode)])
    PROVE  MatchesInv'
<1>0. Matches!TypeOK /\ AskedIsNamed /\ Matches!OpenShowsOrWaits /\ Matches!UrlNamesList
  BY DEF MatchesInv
<1>1. /\ Matches!Touched \in Seq(Requests) /\ DOMAIN Matches!Touched = DOMAIN mReqs
      /\ \A k \in DOMAIN mReqs :
            /\ Matches!Touched[k].kind = mReqs[k].kind
            /\ mReqs[k].kind = "search" => Matches!Touched[k].touched = TRUE
            /\ mReqs[k].kind # "search" => Matches!Touched[k] = mReqs[k]
  BY <1>0, TouchedKeeps
<1> DEFINE what == Matches!listMatches(mActiveType, mForm[mActiveType], mActiveNode)
           new == [kind |-> "search", touched |-> FALSE, what |-> what]
<1>2. new \in Requests /\ new.kind = "search" /\ new.what = what
  <2>1. /\ mActiveType \in Matches!types /\ mForm[mActiveType] \in Matches!Texts
        /\ mActiveNode \in Matches!Nodes \cup {Matches!AllNodes}
    BY <1>0, MatchesTypes
  <2>2. what \in Matches!Search
    BY <2>1 DEF Matches!listMatches, Matches!Search
  <2> HIDE DEF what
  <2> QED
    BY <2>2 DEF Requests, Matches!SearchReq
<1> HIDE DEF new, what
<1>3. /\ mReqs' \in Seq(Requests)
      /\ \A k \in DOMAIN mReqs : k \in DOMAIN mReqs' /\ mReqs'[k] = Matches!Touched[k]
      /\ \A k \in DOMAIN mReqs' : k \in DOMAIN mReqs \/ mReqs'[k] = new
  <2>1. CASE mReqs' = Matches!Touched
    BY <1>1, <2>1
  <2>2. CASE mReqs' = Append(Matches!Touched, new) /\ mType' = mActiveType /\ UNCHANGED Matches!input
    BY <1>1, <1>2, <2>2, AppendRest
  <2> QED
    BY <2>1, <2>2 DEF new, what
<1>4. mType' \in Matches!types \cup {Matches!Invalid}
  BY <1>0, MatchesTypes
<1>5. MatchesStayTyped
  BY <1>0, <1>3, <1>4, MatchesTypes DEF MatchesStayTyped
<1>6. Matches!TypeOK'
  BY <1>0, <1>5, MatchesTyped
<1>7. AskedIsNamed'
  <2>1. CASE mReqs' = Matches!Touched /\ mType' = mType
    BY <1>0, <1>1, <2>1 DEF AskedIsNamed
  <2>2. CASE mType' = mActiveType /\ UNCHANGED Matches!input
    <3>1. Matches!UrlNow' = what
      BY <2>2 DEF Matches!UrlNow, Matches!listMatches, Matches!input, what
    <3>2. mType' \in Matches!types
      BY <1>0, <2>2, MatchesTypes
    <3>3. \A k \in DOMAIN mReqs' : mReqs'[k].kind = "search" /\ ~mReqs'[k].touched => mReqs'[k].what = what
      BY <1>1, <1>2, <1>3
    <3> QED
      BY <3>1, <3>2, <3>3 DEF AskedIsNamed
  <2> QED
    BY <2>1, <2>2
<1>8. Matches!OpenShowsOrWaits'
  <2>1. ASSUME NEW k \in DOMAIN mReqs, mReqs[k].kind = "state"
        PROVE  k \in DOMAIN mReqs' /\ mReqs'[k] = mReqs[k]
    BY <1>1, <1>3, <2>1
  <2> QED
    BY <1>0, <2>1 DEF Matches!OpenShowsOrWaits
<1>9. Matches!UrlNamesList'
  BY <1>0 DEF Matches!UrlNamesList
<1> QED
  BY <1>6, <1>7, <1>8, <1>9 DEF MatchesInv

\* The answer to a search, and its failure.
LEMMA MatchesSearched ==
    ASSUME MatchesConstants, MatchesInv, NEW k \in DOMAIN mReqs,
           Matches!postData(k) \/ Matches!SearchFailed(k)
    PROVE  MatchesInv'
<1>0. Matches!TypeOK /\ AskedIsNamed /\ Matches!OpenShowsOrWaits /\ Matches!UrlNamesList
  BY DEF MatchesInv
<1>1. /\ mReqs[k].kind = "search" /\ mReqs' = RemoveAt(mReqs, k)
      /\ UNCHANGED <<mVisit, mReady, mNodes, mActiveType, mActiveNode, mForm, mType>>
  BY DEF Matches!postData, Matches!SearchFailed, Matches!input, Matches!RemoveAt, RemoveAt
<1>2. mReqs \in Seq(Requests) /\ mReqs[k] \in Requests
  BY <1>0, MatchesTypes
<1>3. /\ mReqs' \in Seq(Requests)
      /\ \A i \in DOMAIN mReqs' : \E j \in DOMAIN mReqs : j # k /\ mReqs'[i] = mReqs[j]
      /\ \A j \in DOMAIN mReqs : j # k => \E i \in DOMAIN mReqs' : mReqs'[i] = mReqs[j]
  <2>1. /\ RemoveAt(mReqs, k) \in Seq(Requests)
        /\ \A i \in DOMAIN RemoveAt(mReqs, k) :
              \E j \in DOMAIN mReqs : j # k /\ RemoveAt(mReqs, k)[i] = mReqs[j]
        /\ \A j \in DOMAIN mReqs : j # k =>
              \E i \in DOMAIN RemoveAt(mReqs, k) : RemoveAt(mReqs, k)[i] = mReqs[j]
    BY <1>2, RemoveAtRest
  <2> QED
    BY <1>1, <2>1
<1>4. mReqs[k].what \in Matches!Search /\ mReqs[k].touched \in BOOLEAN
  <2>1. mReqs[k] \in Matches!SearchReq
    BY <1>1, <1>2 DEF Requests, Matches!StateReq
  <2> QED
    BY <2>1 DEF Matches!SearchReq
<1>5. mType \in Matches!types /\ (~mReqs[k].touched => mReqs[k].what = Matches!UrlNow)
  BY <1>0, <1>1 DEF AskedIsNamed
<1>6. Matches!UrlNow \in Matches!Search
  <2>1. /\ mForm[mType] \in Matches!Texts /\ mActiveNode \in Matches!Nodes \cup {Matches!AllNodes}
    BY <1>0, <1>5, MatchesTypes
  <2> QED
    BY <1>5, <2>1 DEF Matches!UrlNow, Matches!Search
<1>7. /\ mMatches' \in Seq(Matches!Matches)
      /\ mMatchStates' \in [Matches!Positions -> Matches!Matches \cup {Matches!Null, Matches!Undefined}]
      /\ mMatchStatesOpen' \subseteq mMatchStatesOpen
      /\ \A i \in mMatchStatesOpen' : mMatchStates'[i] = mMatchStates[i]
  <2>1. CASE Matches!postData(k)
    BY <1>0, <2>1, ReplaceTyped DEF Matches!postData
  <2>2. CASE Matches!SearchFailed(k)
    BY <1>0, <2>2, MatchesTypes DEF Matches!SearchFailed, Matches!list
  <2> QED
    BY <2>1, <2>2
<1>8. \/ mUrl' = Matches!UrlNow /\ mShown' = mReqs[k].what /\ mTouched' = mReqs[k].touched
      \/ UNCHANGED <<mUrl, mShown, mTouched>>
  BY DEF Matches!postData, Matches!SearchFailed
<1>9. mUrl' \in Matches!Search /\ mShown' \in Matches!Search /\ mTouched' \in BOOLEAN
  BY <1>0, <1>4, <1>6, <1>8, MatchesTypes
<1>10. MatchesStayTyped
  BY <1>0, <1>1, <1>3, <1>7, <1>9, MatchesTypes DEF MatchesStayTyped
<1>11. Matches!TypeOK'
  BY <1>0, <1>1, <1>10, MatchesTyped
<1>12. mReady /\ Matches!UrlNow' = Matches!UrlNow
  <2>1. mReady
    BY <1>0 DEF AskedIsNamed
  <2> QED
    BY <1>1, <2>1 DEF Matches!UrlNow
<1>13. AskedIsNamed'
  BY <1>0, <1>1, <1>3, <1>12 DEF AskedIsNamed
<1>14. Matches!OpenShowsOrWaits'
  <2>1. ASSUME NEW j \in DOMAIN mReqs, mReqs[j].kind = "state"
        PROVE  \E i \in DOMAIN mReqs' : mReqs'[i] = mReqs[j]
    BY <1>1, <1>3, <2>1
  <2> QED
    BY <1>0, <1>7, <2>1 DEF Matches!OpenShowsOrWaits
<1>15. Matches!UrlNamesList'
  BY <1>0, <1>5, <1>8 DEF Matches!UrlNamesList
<1> QED
  BY <1>11, <1>13, <1>14, <1>15 DEF MatchesInv

\* The arrow of a row.
LEMMA MatchesUnfolds ==
    ASSUME MatchesConstants, MatchesInv, NEW i \in Matches!Positions, Matches!Arrow(i)
    PROVE  MatchesInv'
<1>0. Matches!TypeOK /\ AskedIsNamed /\ Matches!OpenShowsOrWaits /\ Matches!UrlNamesList
  BY DEF MatchesInv
<1>1. /\ mReady /\ i \in DOMAIN mMatches
      /\ UNCHANGED <<mVisit, mReady, mUrl, mNodes, mActiveType, mActiveNode, mForm, mType, mMatches,
                     mShown, mTouched>>
  BY DEF Matches!Arrow, Matches!input
<1>2. Matches!UrlNow' = Matches!UrlNow /\ Matches!UrlNamesList'
  BY <1>0, <1>1 DEF Matches!UrlNow, Matches!UrlNamesList
<1>3. mReqs \in Seq(Requests) /\ mMatchStatesOpen \subseteq Matches!Positions
  BY <1>0, MatchesTypes
<1>4. CASE i \in mMatchStatesOpen
  <2>1. UNCHANGED <<mMatchStates, mReqs>> /\ mMatchStatesOpen' = mMatchStatesOpen \ {i}
    BY <1>4 DEF Matches!Arrow, Matches!getMatchState
  <2>2. MatchesStayTyped
    BY <1>0, <1>1, <2>1, MatchesTypes DEF MatchesStayTyped
  <2>3. Matches!TypeOK'
    BY <1>0, <1>1, <2>2, MatchesTyped
  <2>4. AskedIsNamed'
    BY <1>0, <1>1, <1>2, <2>1 DEF AskedIsNamed
  <2>5. Matches!OpenShowsOrWaits'
    BY <1>0, <2>1 DEF Matches!OpenShowsOrWaits
  <2> QED
    BY <1>2, <2>3, <2>4, <2>5 DEF MatchesInv
<1>5. CASE i \notin mMatchStatesOpen
  <2> DEFINE new == [kind |-> "state", i |-> i, match |-> mMatches[i]]
  <2>1. /\ mMatchStates' = [mMatchStates EXCEPT ![i] = Matches!Null]
        /\ mReqs' = Append(mReqs, new) /\ mMatchStatesOpen' = mMatchStatesOpen \cup {i}
    BY <1>5 DEF Matches!Arrow, Matches!getMatchState
  <2>2. new \in Requests /\ new.kind = "state" /\ new.i = i
    <3>1. mMatches[i] \in Matches!Matches
      BY <1>0, <1>1, MatchesTypes
    <3> QED
      BY <3>1 DEF Requests, Matches!StateReq
  <2> HIDE DEF new
  <2>3. /\ mReqs' \in Seq(Requests)
        /\ \A k \in DOMAIN mReqs : k \in DOMAIN mReqs' /\ mReqs'[k] = mReqs[k]
        /\ \A k \in DOMAIN mReqs' : k \in DOMAIN mReqs \/ mReqs'[k] = new
        /\ \E k \in DOMAIN mReqs' : mReqs'[k] = new
    BY <1>3, <2>1, <2>2, AppendRest
  <2>4. /\ mMatchStates' \in [Matches!Positions -> Matches!Matches \cup {Matches!Null, Matches!Undefined}]
        /\ mMatchStates'[i] = Matches!Null
        /\ \A j \in mMatchStatesOpen : mMatchStates'[j] = mMatchStates[j]
    BY <1>0, <1>3, <1>5, <2>1, MatchesTypes
  <2>5. MatchesStayTyped
    BY <1>0, <1>1, <1>3, <2>1, <2>3, <2>4, MatchesTypes DEF MatchesStayTyped
  <2>6. Matches!TypeOK'
    BY <1>0, <1>1, <2>5, MatchesTyped
  <2>7. AskedIsNamed'
    BY <1>0, <1>1, <1>2, <2>2, <2>3 DEF AskedIsNamed
  <2>8. Matches!Null # Matches!Undefined
    BY DEF Matches!Null, Matches!Undefined
  <2>9. Matches!OpenShowsOrWaits'
    BY <1>0, <2>1, <2>2, <2>3, <2>4, <2>8 DEF Matches!OpenShowsOrWaits
  <2> QED
    BY <1>2, <2>6, <2>7, <2>9 DEF MatchesInv
<1> QED
  BY <1>4, <1>5

\* The answer to a request for a state, and its failure.
LEMMA MatchesStateCame ==
    ASSUME MatchesConstants, MatchesInv, NEW k \in DOMAIN mReqs,
           Matches!StateAnswered(k) \/ Matches!StateFailed(k)
    PROVE  MatchesInv'
<1>0. Matches!TypeOK /\ AskedIsNamed /\ Matches!OpenShowsOrWaits /\ Matches!UrlNamesList
  BY DEF MatchesInv
<1> DEFINE i == mReqs[k].i
           m == mReqs[k].match
<1>1. /\ mReqs[k].kind = "state" /\ mReqs' = RemoveAt(mReqs, k)
      /\ UNCHANGED <<mVisit, mReady, mUrl, mNodes, mActiveType, mActiveNode, mForm, mType, mMatches,
                     mShown, mTouched>>
      /\ \/ /\ mMatchStatesOpen' = mMatchStatesOpen \cup {i}
            /\ mMatchStates' = [mMatchStates EXCEPT ![i] = m]
         \/ /\ mMatchStatesOpen' = mMatchStatesOpen \ {i}
            /\ mMatchStates' = [mMatchStates EXCEPT ![i] = Matches!Null]
  BY DEF Matches!StateAnswered, Matches!StateFailed, Matches!input, Matches!RemoveAt, RemoveAt
<1>2. mReqs \in Seq(Requests) /\ mReqs[k] \in Requests /\ mMatchStatesOpen \subseteq Matches!Positions
  BY <1>0, MatchesTypes
<1>3. i \in Matches!Positions /\ m \in Matches!Matches
  <2>1. mReqs[k] \in Matches!StateReq
    BY <1>1, <1>2 DEF Requests, Matches!SearchReq
  <2> QED
    BY <2>1 DEF Matches!StateReq
<1>4. m # Matches!Null /\ m # Matches!Undefined
  <2>1. mVisit \in MatchesVisits
    BY <1>0, MatchesTypes
  <2> QED
    BY <1>3, <2>1 DEF MatchesConstants, Matches!Matches
<1>5. /\ mReqs' \in Seq(Requests)
      /\ \A h \in DOMAIN mReqs' : \E j \in DOMAIN mReqs : j # k /\ mReqs'[h] = mReqs[j]
      /\ \A j \in DOMAIN mReqs : j # k => \E h \in DOMAIN mReqs' : mReqs'[h] = mReqs[j]
  <2>1. /\ RemoveAt(mReqs, k) \in Seq(Requests)
        /\ \A h \in DOMAIN RemoveAt(mReqs, k) :
              \E j \in DOMAIN mReqs : j # k /\ RemoveAt(mReqs, k)[h] = mReqs[j]
        /\ \A j \in DOMAIN mReqs : j # k =>
              \E h \in DOMAIN RemoveAt(mReqs, k) : RemoveAt(mReqs, k)[h] = mReqs[j]
    BY <1>2, RemoveAtRest
  <2> QED
    BY <1>1, <2>1
<1>6. /\ mMatchStates' \in [Matches!Positions -> Matches!Matches \cup {Matches!Null, Matches!Undefined}]
      /\ \A j \in Matches!Positions : j # i => mMatchStates'[j] = mMatchStates[j]
      /\ i \in mMatchStatesOpen' => mMatchStates'[i] = m
      /\ mMatchStatesOpen' \subseteq mMatchStatesOpen \cup {i}
  <2>1. mMatchStates \in [Matches!Positions -> Matches!Matches \cup {Matches!Null, Matches!Undefined}]
    BY <1>0, MatchesTypes
  <2> HIDE DEF i, m
  <2> QED
    BY <1>1, <1>3, <2>1
<1>7. MatchesStayTyped
  BY <1>0, <1>1, <1>2, <1>3, <1>5, <1>6, MatchesTypes DEF MatchesStayTyped
<1>8. Matches!TypeOK'
  BY <1>0, <1>1, <1>7, MatchesTyped
<1>9. Matches!UrlNow' = Matches!UrlNow /\ Matches!UrlNamesList' /\ mReady
  <2>1. mReady
    BY <1>0 DEF AskedIsNamed
  <2> QED
    BY <1>0, <1>1, <2>1 DEF Matches!UrlNow, Matches!UrlNamesList
<1>10. AskedIsNamed'
  BY <1>0, <1>1, <1>5, <1>9 DEF AskedIsNamed
<1>11. Matches!OpenShowsOrWaits'
  <2> SUFFICES ASSUME NEW j \in mMatchStatesOpen'
               PROVE  /\ mMatchStates'[j] # Matches!Undefined
                      /\ mMatchStates'[j] = Matches!Null =>
                            \E h \in DOMAIN mReqs' : mReqs'[h].kind = "state" /\ mReqs'[h].i = j
    BY DEF Matches!OpenShowsOrWaits
  <2>1. CASE j = i
    BY <1>4, <1>6, <2>1
  <2>2. CASE j # i
    <3>1. j \in mMatchStatesOpen /\ mMatchStates'[j] = mMatchStates[j]
      BY <1>2, <1>6, <2>2
    <3>2. /\ mMatchStates[j] # Matches!Undefined
          /\ mMatchStates[j] = Matches!Null =>
                \E h \in DOMAIN mReqs : mReqs[h].kind = "state" /\ mReqs[h].i = j
      BY <1>0, <3>1 DEF Matches!OpenShowsOrWaits
    <3>3. \A h \in DOMAIN mReqs : mReqs[h].i = j => h # k
      BY <2>2
    <3> QED
      BY <1>5, <3>1, <3>2, <3>3
  <2> QED
    BY <2>1, <2>2
<1> QED
  BY <1>8, <1>9, <1>10, <1>11 DEF MatchesInv

\* The invariant of the matches page is kept ...
LEMMA MatchesInvStep ==
    ASSUME MatchesConstants, MatchesInv, [Matches!Next]_(Matches!vars)
    PROVE  MatchesInv'
<1>0. Matches!TypeOK
  BY DEF MatchesInv
<1>1. CASE Matches!ngOnInit
  BY <1>1, MatchesOpens
<1>2. ASSUME Matches!Use, mActiveType' \in Matches!types, mForm' \in [Matches!types -> Matches!Texts],
             mActiveNode' \in mNodes \cup {Matches!AllNodes}
      PROVE  MatchesInv'
  BY <1>2, MatchesUsed DEF Matches!Use, Matches!list
<1>3. CASE Matches!search
  <2>1. /\ mActiveType \in Matches!types /\ mForm \in [Matches!types -> Matches!Texts]
        /\ mActiveNode \in mNodes \cup {Matches!AllNodes}
    BY <1>0, MatchesTypes
  <2> QED
    BY <1>3, <2>1, MatchesUsed DEF Matches!search, Matches!list, Matches!input
<1>4. CASE \E t \in Matches!types : Matches!SetType(t)
  BY <1>0, <1>2, <1>4, MatchesTypes DEF Matches!SetType
<1>5. CASE \E n \in Matches!Nodes \cup {Matches!AllNodes} : Matches!SetNode(n)
  BY <1>0, <1>2, <1>5, MatchesTypes DEF Matches!SetNode
<1>6. CASE \E x \in Matches!Texts : Matches!SetText(x)
  <2>1. PICK x \in Matches!Texts : Matches!SetText(x)
    BY <1>6
  <2>2. mForm' \in [Matches!types -> Matches!Texts]
    BY <1>0, <2>1, MatchesTypes DEF Matches!SetText
  <2> QED
    BY <1>0, <1>2, <2>1, <2>2, MatchesTypes DEF Matches!SetText
<1>7. CASE \E i \in Matches!Positions : Matches!Arrow(i)
  BY <1>7, MatchesUnfolds
<1>8. ASSUME NEW k \in DOMAIN mReqs,
             \/ Matches!postData(k) \/ Matches!SearchFailed(k)
             \/ Matches!StateAnswered(k) \/ Matches!StateFailed(k)
      PROVE  MatchesInv'
  BY <1>8, MatchesSearched, MatchesStateCame
<1>9. CASE UNCHANGED Matches!vars
  <2>1. UNCHANGED <<mVisit, mReady, mUrl, mNodes, mActiveType, mActiveNode, mForm, mType, mMatches,
                    mMatchStates, mMatchStatesOpen, mReqs, mShown, mTouched>>
    BY <1>9 DEF Matches!vars, Matches!input, Matches!list
  <2>2. MatchesStayTyped
    BY <1>0, <2>1, MatchesTypes DEF MatchesStayTyped
  <2>3. Matches!TypeOK'
    BY <1>0, <2>1, <2>2, MatchesTyped
  <2>4. AskedIsNamed' /\ Matches!OpenShowsOrWaits' /\ Matches!UrlNamesList'
    BY <2>1 DEF MatchesInv, AskedIsNamed, Matches!UrlNow, Matches!OpenShowsOrWaits, Matches!UrlNamesList
  <2> QED
    BY <2>3, <2>4 DEF MatchesInv
<1> QED
  BY <1>1, <1>3, <1>4, <1>5, <1>6, <1>7, <1>8, <1>9 DEF Matches!Next

\* ... holds at the start ...
LEMMA MatchesInvInit ==
    ASSUME MatchesConstants, Matches!Init
    PROVE  MatchesInv
<1>1. /\ mVisit \in MatchesVisits /\ mReady = FALSE /\ mUrl \in Matches!Search
      /\ mNodes = {} /\ mActiveType = 0 /\ mActiveNode = Matches!AllNodes /\ mType = 0
      /\ mForm = [t \in Matches!types |-> ""] /\ mMatches = <<>> /\ mMatchStatesOpen = {}
      /\ mMatchStates = [i \in Matches!Positions |-> Matches!Undefined]
      /\ mReqs = <<>> /\ mShown = mUrl /\ mTouched = FALSE
  BY DEF Matches!Init
<1>2. "" \in Matches!Texts /\ 0 \in Matches!types
  <2>1. mVisit \in MatchesVisits
    BY <1>1
  <2>2. "" \in Matches!Texts
    BY <2>1, Zenon DEF MatchesConstants, Matches!Texts
  <2>3. 0 \in Matches!types
    BY DEF Matches!types
  <2> QED
    BY <2>2, <2>3
<1>3. mReady \in BOOLEAN /\ mTouched \in BOOLEAN
  BY <1>1
<1>4. mMatches \in Seq(Matches!Matches) /\ mReqs \in Seq(Requests)
  BY <1>1, EmptySeq
<1>5. mForm \in [Matches!types -> Matches!Texts]
  BY <1>1, <1>2
<1>6. mMatchStates \in [Matches!Positions -> Matches!Matches \cup {Matches!Null, Matches!Undefined}]
  BY <1>1
<1>7. Matches!TypeOK
  BY <1>1, <1>2, <1>3, <1>4, <1>5, <1>6 DEF Matches!TypeOK, Requests
<1>8. DOMAIN <<>> = {}
  OBVIOUS
<1>9. AskedIsNamed
  BY <1>1, <1>8 DEF AskedIsNamed
<1>10. Matches!OpenShowsOrWaits /\ Matches!UrlNamesList
  BY <1>1 DEF Matches!OpenShowsOrWaits, Matches!UrlNamesList
<1> QED
  BY <1>7, <1>9, <1>10 DEF MatchesInv

\* ... and so always.
LEMMA MatchesInvariance == MatchesConstants => (Matches!Spec => []MatchesInv)
<1> SUFFICES ASSUME MatchesConstants
             PROVE  Matches!Spec => []MatchesInv
  OBVIOUS
<1>1. Matches!Init => MatchesInv
  BY MatchesInvInit
<1>2. MatchesInv /\ [Matches!Next]_(Matches!vars) => MatchesInv'
  BY MatchesInvStep
<1> QED
  BY <1>1, <1>2, PTL DEF Matches!Spec

\* The page of the matches: no sequence of clicks, searches that cut or extend the list,
\* late answers and errors leaves a row unfolded without a state and without a request
\* for one.
THEOREM OpenAlwaysShowsOrWaits == Matches!Spec => []OpenShowsOrWaits
<1>1. Matches!Spec => []MatchesInv
  BY ListPagesAssumption, MatchesInvariance
<1>2. MatchesInv => OpenShowsOrWaits
  BY DEF MatchesInv, OpenShowsOrWaits
<1> QED
  BY <1>1, <1>2, PTL

\* The page of the matches: the URL, made from the form as it is when the answer comes,
\* names the search that was answered, unless the forms were used in between.
THEOREM UrlAlwaysNamesList == Matches!Spec => []UrlNamesList
<1>1. Matches!Spec => []MatchesInv
  BY ListPagesAssumption, MatchesInvariance
<1>2. MatchesInv => UrlNamesList
  BY DEF MatchesInv, UrlNamesList
<1> QED
  BY <1>1, <1>2, PTL

-----------------------------------------------------------------------------
(* The pages together.                                                     *)

\* The lists of the console, of the portal and of the matches side by side: rows, flags,
\* cursors, pages, forms and requests under way stay in their domains, for any number of
\* items, filters, limits, matches and texts.
THEOREM ListTypesCorrect == Spec /\ Portal!Spec /\ Matches!Spec => []ListTypesOK
<1>1. Spec => []TypeOK
  BY ListsTypeCorrect
<1>2. Portal!Spec => []Portal!TypeOK
  BY PortalTypeCorrect
<1>3. Matches!Spec => []Matches!TypeOK
  <2>1. Matches!Spec => []MatchesInv
    BY ListPagesAssumption, MatchesInvariance
  <2>2. MatchesInv => Matches!TypeOK
    BY DEF MatchesInv
  <2> QED
    BY <2>1, <2>2, PTL
<1>4. TypeOK /\ Portal!TypeOK /\ Matches!TypeOK => ListTypesOK
  BY DEF ListTypesOK
<1> QED
  BY <1>1, <1>2, <1>3, <1>4, PTL
=============================================================================
