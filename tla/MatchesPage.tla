---------------------------- MODULE MatchesPage ----------------------------
(***************************************************************************)
(* MatchesComponent of the console UI: three search forms behind one        *)
(* button, the list of matches, and the state of an authoritative match     *)
(* that is fetched when its row is unfolded.  matchStates and               *)
(* matchStatesOpen are arrays beside the list, indexed by the position of   *)
(* the row; an answer writes to the position its row had when it was asked. *)
(***************************************************************************)
EXTENDS Integers, FiniteSets, SequencesExt

CONSTANT Visits         \* visits of the page: [matches, nodes, texts, maxRequests]

AllNodes == "All Nodes"
types == 0 .. 2          \* All, Authoritative, Relayed
Invalid == 3             \* any other number in the URL
Null == "null"
Undefined == "undefined" \* a hole of an array, or past its end

VARIABLES
    visit,             \* running matches, nodes of the cluster, what can be typed in a
                       \* form; bound: requests under way
    ready,             \* ngOnInit has run
    url,               \* query parameters: a search
    nodes,             \* names for the node menu
    activeType, activeNode,
    form,              \* form[t]: the text of the form for type t
    type,              \* type of the last search made
    matches,           \* rows
    matchStates,       \* matchStates[i]: whose state is shown below row i
    matchStatesOpen,   \* positions that are unfolded
    reqs,              \* searches and states under way
    shown,             \* history: the search whose answer is listed
    touched            \* history: a form, a menu or the search button was used
                       \* before the listed search was answered

Matches     == visit.matches
Nodes       == visit.nodes
Texts       == visit.texts
MaxRequests == visit.maxRequests

input == <<activeType, activeNode, form>>
list  == <<matches, matchStates, matchStatesOpen>>
vars  == <<visit, ready, url, nodes, input, type, list, reqs, shown, touched>>

Positions == 1 .. Cardinality(Matches)
Search == [type: types \cup {Invalid}, text: Texts, node: Nodes \cup {AllNodes}]
SearchReq == [kind: {"search"}, what: Search, touched: BOOLEAN]
StateReq == [kind: {"state"}, i: Positions, match: Matches]

TypeOK ==
    /\ visit \in Visits /\ ready \in BOOLEAN
    /\ url \in Search
    /\ nodes \subseteq Nodes /\ activeNode \in nodes \cup {AllNodes}
    /\ activeType \in types /\ type \in types \cup {Invalid}
    /\ form \in [types -> Texts]
    /\ matches \in Seq(Matches)
    /\ matchStates \in [Positions -> Matches \cup {Null, Undefined}]
    /\ matchStatesOpen \subseteq Positions
    /\ reqs \in Seq(SearchReq \cup StateReq)
    /\ shown \in Search /\ touched \in BOOLEAN

-----------------------------------------------------------------------------
\* A search as it goes to the server: only the authoritative one names a node.
listMatches(t, f, node) ==
    [type |-> t, text |-> f, node |-> IF t = 1 THEN node ELSE AllNodes]

\* The answer to any search: some of the running matches.
Answers == {SetToSeq(S) : S \in SUBSET Matches}

\* matches is replaced; the two arrays only take on its length, so what stays
\* within it is kept, and what grows is undefined.
SetLength(n) ==
    /\ matchStates' = [i \in Positions |-> IF i <= n THEN matchStates[i] ELSE Undefined]
    /\ matchStatesOpen' = {i \in matchStatesOpen : i <= n}

Replace(s) == matches' = s /\ SetLength(Len(s))

-----------------------------------------------------------------------------
(* ngOnInit and the resolvers.                                             *)

\* NodesResolver: the names of the nodes, none when the status cannot be had.
NodesResolver == nodes' = Nodes \/ nodes' = {}

\* MatchesResolver: the matches of the search in the URL; nothing is listed for an
\* unknown type, or when the request fails.
MatchesResolver ==
    \/ url.type # Invalid /\ (\E s \in Answers : Replace(s)) /\ shown' = url
    \/ UNCHANGED <<list, shown>>

\* An unknown type is an error and leaves the menu as it was.
UrlType == IF url.type \in types THEN url.type ELSE activeType

\* The forms take their text from the URL, whichever type it has; an unknown
\* node is an error, too.
ngOnInit ==
    /\ ~ready /\ ready' = TRUE
    /\ NodesResolver
    /\ MatchesResolver
    /\ form' = [t \in types |-> IF (t = 1) = (url.type = 1) THEN url.text ELSE ""]
    /\ type' = url.type
    /\ activeType' = UrlType
    /\ activeNode' = IF url.node \in nodes' THEN url.node ELSE AllNodes
    /\ UNCHANGED <<visit, url, reqs, touched>>

-----------------------------------------------------------------------------
(* The search.                                                             *)

\* The user does something while searches may be under way.
Touched == [k \in DOMAIN reqs |-> IF reqs[k].kind = "search"
                                   THEN [reqs[k] EXCEPT !.touched = TRUE] ELSE reqs[k]]
Use == ready /\ reqs' = Touched /\ UNCHANGED <<visit, ready, url, nodes, type, list, shown,
                                               touched>>

SetType(t) == Use /\ activeType' = t /\ UNCHANGED <<activeNode, form>>
SetNode(n) ==
    Use /\ n \in nodes \cup {AllNodes} /\ activeNode' = n /\ UNCHANGED <<activeType, form>>
SetText(x) == Use /\ form' = [form EXCEPT ![activeType] = x] /\ UNCHANGED <<activeType, activeNode>>

search ==
    /\ ready /\ Len(reqs) < MaxRequests
    /\ type' = activeType
    /\ reqs' = Append(Touched, [kind |-> "search", touched |-> FALSE,
                                what |-> listMatches(activeType, form[activeType], activeNode)])
    /\ UNCHANGED <<visit, ready, url, nodes, input, list, shown, touched>>

\* Mutated: the node menu is left out of the URL.
UrlWithoutNode == [type |-> type, text |-> form[type], node |-> AllNodes]
\* The URL after a search: the type of the last search made, the form as it is now.
UrlNow == [type |-> type, text |-> form[type], node |-> IF type = 1 THEN activeNode ELSE AllNodes]

postData(k) ==
    /\ k \in DOMAIN reqs /\ reqs[k].kind = "search"
    /\ \E s \in Answers : Replace(s)
    /\ url' = UrlNow
    /\ shown' = reqs[k].what
    /\ touched' = reqs[k].touched
    /\ reqs' = RemoveAt(reqs, k)
    /\ UNCHANGED <<visit, ready, nodes, input, type>>

SearchFailed(k) ==
    /\ k \in DOMAIN reqs /\ reqs[k].kind = "search"
    /\ reqs' = RemoveAt(reqs, k)
    /\ UNCHANGED <<visit, ready, url, nodes, input, type, list, shown, touched>>

-----------------------------------------------------------------------------
(* The state of a match.                                                   *)

\* Nothing for a row that is unfolded already.
getMatchState(i) ==
    IF i \in matchStatesOpen THEN UNCHANGED <<matchStates, reqs>>
    ELSE /\ matchStates' = [matchStates EXCEPT ![i] = Null]
         /\ reqs' = Append(reqs, [kind |-> "state", i |-> i, match |-> matches[i]])

\* The arrow of a row: getMatchState, then the row is toggled.
Arrow(i) ==
    /\ ready /\ i \in DOMAIN matches /\ Len(reqs) < MaxRequests
    /\ getMatchState(i)
    /\ matchStatesOpen' = IF i \in matchStatesOpen THEN matchStatesOpen \ {i}
                          ELSE matchStatesOpen \cup {i}
    /\ UNCHANGED <<visit, ready, url, nodes, input, type, matches, shown, touched>>

StateAnswered(k) ==
    /\ k \in DOMAIN reqs /\ reqs[k].kind = "state"
    /\ matchStatesOpen' = matchStatesOpen \cup {reqs[k].i}
    /\ matchStates' = [matchStates EXCEPT ![reqs[k].i] = reqs[k].match]
    /\ reqs' = RemoveAt(reqs, k)
    /\ UNCHANGED <<visit, ready, url, nodes, input, type, matches, shown, touched>>

\* Mutated: an error leaves the row unfolded.
StateFailedOpen(k) ==
    /\ k \in DOMAIN reqs /\ reqs[k].kind = "state"
    /\ matchStates' = [matchStates EXCEPT ![reqs[k].i] = Null]
    /\ reqs' = RemoveAt(reqs, k)
    /\ UNCHANGED <<visit, ready, url, nodes, input, type, matches, matchStatesOpen, shown, touched>>

StateFailed(k) ==
    /\ k \in DOMAIN reqs /\ reqs[k].kind = "state"
    /\ matchStatesOpen' = matchStatesOpen \ {reqs[k].i}
    /\ matchStates' = [matchStates EXCEPT ![reqs[k].i] = Null]
    /\ reqs' = RemoveAt(reqs, k)
    /\ UNCHANGED <<visit, ready, url, nodes, input, type, matches, shown, touched>>

-----------------------------------------------------------------------------
Init ==
    /\ visit \in Visits /\ ready = FALSE
    /\ url \in {s \in Search : s.type # 1 => s.node = AllNodes}
    /\ nodes = {} /\ activeType = 0 /\ activeNode = AllNodes
    /\ form = [t \in types |-> ""] /\ type = 0
    /\ matches = <<>> /\ matchStatesOpen = {}
    /\ matchStates = [i \in Positions |-> Undefined]
    /\ reqs = <<>> /\ shown = url /\ touched = FALSE

Next ==
    \/ ngOnInit \/ search
    \/ \E t \in types : SetType(t)
    \/ \E n \in Nodes \cup {AllNodes} : SetNode(n)
    \/ \E x \in Texts : SetText(x)
    \/ \E i \in Positions : Arrow(i)
    \/ \E k \in DOMAIN reqs :
          postData(k) \/ SearchFailed(k) \/ StateAnswered(k) \/ StateFailed(k)

Spec == Init /\ [][Next]_vars

-----------------------------------------------------------------------------
(* Properties.                                                             *)

\* An unfolded row either shows a state or waits for one: no sequence of clicks,
\* searches that cut or extend the list, late answers and errors leaves a row
\* unfolded with a spinner that nothing will end, or with no state at all, which
\* the template cannot render.
OpenShowsOrWaits ==
    \A i \in matchStatesOpen :
        /\ matchStates[i] # Undefined
        /\ matchStates[i] = Null =>
              \E k \in DOMAIN reqs : reqs[k].kind = "state" /\ reqs[k].i = i

\* The URL names the search that is listed, so that a reload or a bookmark lists
\* it again, unless the forms were used while the answer was on its way.
UrlNamesList == ~touched => url = shown

=============================================================================
