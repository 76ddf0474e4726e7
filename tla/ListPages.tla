----------------------------- MODULE ListPages ------------------------------
(***************************************************************************)
(* The pages of the console UI that list and search, side by side: the     *)
(* lists of ConsoleLists, the portal's lists and the page of the matches.  *)
(* They share no state; each is a component with variables of its own.     *)
(***************************************************************************)
EXTENDS ConsoleLists

CONSTANTS PortalFilters, Limit, Limits, MaxTotal, PortalVisits,     \* of PortalLists
          MatchesVisits                                             \* of MatchesPage

VARIABLES
    \* PortalLists:
    pVisit, pReady, pTotal, pForm, pPage, pRows, pCount, pQueries, pOngoing, pWanted,
    pShown,
    \* MatchesPage:
    mVisit, mReady, mUrl, mNodes, mActiveType, mActiveNode, mForm, mType, mMatches,
    mMatchStates, mMatchStatesOpen, mReqs, mShown, mTouched

portalVars == <<pVisit, pReady, pTotal, pForm, pPage, pRows, pCount, pQueries, pOngoing,
                pWanted, pShown>>
matchesVars == <<mVisit, mReady, mUrl, mNodes, mActiveType, mActiveNode, mForm, mType,
                 mMatches, mMatchStates, mMatchStatesOpen, mReqs, mShown, mTouched>>

Portal == INSTANCE PortalLists WITH
    Filters <- PortalFilters, Visits <- PortalVisits, visit <- pVisit, ready <- pReady,
    total <- pTotal, form <- pForm, page <- pPage, rows <- pRows, count <- pCount,
    queries <- pQueries, ongoing <- pOngoing, wanted <- pWanted, shown <- pShown

Matches == INSTANCE MatchesPage WITH
    Visits <- MatchesVisits, visit <- mVisit, ready <- mReady, url <- mUrl,
    nodes <- mNodes, activeType <- mActiveType, activeNode <- mActiveNode,
    form <- mForm, type <- mType, matches <- mMatches, matchStates <- mMatchStates,
    matchStatesOpen <- mMatchStatesOpen, reqs <- mReqs, shown <- mShown,
    touched <- mTouched

-----------------------------------------------------------------------------
(* The constants.                                                          *)

\* The component's limit is one the form offers, and a visit has room for a search.
PortalConstants ==
    /\ PortalFilters # {} /\ MaxTotal \in Nat
    /\ Limits \subseteq Nat \ {0} /\ Limit \in Limits
    /\ PortalVisits \subseteq [view: {"collections", "collectibles"}, fromUrl: BOOLEAN,
                               serial: BOOLEAN, maxQueries: Nat \ {0}]

\* Finitely many matches run, none of them is one of the marks for no state, and a form
\* can be empty.
MatchesConstants ==
    \A v \in MatchesVisits :
        /\ IsFiniteSet(v.matches) /\ Matches!Null \notin v.matches /\ Matches!Undefined \notin v.matches
        /\ "" \in v.texts

ASSUME ListPagesAssumption == PortalConstants /\ MatchesConstants

-----------------------------------------------------------------------------
(* Properties.                                                             *)

\* The types of the three modules: rows, flags, cursors, pages and requests under way
\* stay in their domains on every page.
ListTypesOK == TypeOK /\ Portal!TypeOK /\ Matches!TypeOK

\* PortalLists: the bar stands on the page shown, and an empty list means none match.
BarFitsList == Portal!BarFitsList

\* The pages that drop a search under way, accounts and collections, implement
\* LatestSearch: no answer overtakes a later search.
LatestShown == LatestSearchShown /\ Portal!LatestCollections

\* MatchesPage: an unfolded row shows a state or waits for one.
OpenShowsOrWaits == Matches!OpenShowsOrWaits

\* MatchesPage: the URL names the search whose answer is listed.
UrlNamesList == Matches!UrlNamesList
=============================================================================
