------------------------------ MODULE MCLists -------------------------------
(***************************************************************************)
(* The pages of the console UI that list and search, on small instances.    *)
(* One page is open in a behaviour; the others stay as they begin.          *)
(***************************************************************************)
EXTENDS ListPages

VARIABLE which      \* the page that is open

-----------------------------------------------------------------------------
(* Three items on pages of two, of the accounts a fourth that is a tombstone, *)
(* and filters with pages, in one piece, and for tombstones.  Every list for a *)
(* user who waits; of each kind of page one for a user who does not.          *)

MCMatch == [f \in {"all", "some", "whole", "tombs"} |->
               CASE f = "some" -> {1, 3} [] f = "tombs" -> {4} [] OTHER -> {1, 2, 3}]
MCText == [f \in DOMAIN MCMatch |-> IF f = "tombs" THEN "all" ELSE f]
Visit(views, filters, serial, queries_, deletes_) ==
    {[view |-> v, filters |-> filters, serial |-> serial, maxQueries |-> queries_,
      maxDeletes |-> deletes_] : v \in views}
MCVisits == Visit({"accounts"}, {"all", "some", "tombs"}, TRUE, 2, 1)
            \cup Visit({"groups", "storage"}, {"all", "some", "whole"}, TRUE, 2, 1)
            \cup Visit({"chat"}, {"all", "some"}, TRUE, 2, 1)
            \cup Visit(ListViews \ {"accounts", "groups", "storage", "chat"}, {"all"}, TRUE, 2, 1)
            \cup Visit({"records"}, {"all"}, FALSE, 1, 2)
            \cup Visit({"leaderboards"}, {"all"}, FALSE, 1, 1)
            \cup Visit({"accounts"}, {"all"}, FALSE, 2, 1)
            \cup Visit({"accounts"}, {"all", "some"}, FALSE, 2, 0)
Operator == {2}

\* Collections with searches in any order, with a page number in the URL or not;
\* the collectibles for a user who waits.
MCPortalVisits ==
    {[view |-> "collections", fromUrl |-> b, serial |-> FALSE, maxQueries |-> 2] : b \in BOOLEAN}
    \cup {[view |-> "collectibles", fromUrl |-> FALSE, serial |-> TRUE, maxQueries |-> 1]}

\* Rows that are unfolded while searches cut and extend the list; and the forms and
\* menus, with no match and one request at a time.
MCMatchesVisits ==
    {[matches |-> {"m1", "m2"}, nodes |-> {}, texts |-> {""}, maxRequests |-> 2],
     [matches |-> {}, nodes |-> {"n1"}, texts |-> {"", "x"}, maxRequests |-> 1]}

-----------------------------------------------------------------------------
MCInit ==
    /\ which \in {"lists", "portal", "matches"}
    /\ Init /\ (which # "lists" => view = "purchases")
    /\ Portal!Init
    /\ which # "portal" => pVisit.view = "collectibles" /\ \A f \in DOMAIN pTotal : pTotal[f] = 0
    /\ Matches!Init /\ (which # "matches" => mVisit.nodes = {} /\ mUrl.type = 0)

MCNext ==
    /\ UNCHANGED which
    /\ \/ which = "lists" /\ Next /\ UNCHANGED <<portalVars, matchesVars>>
       \/ which = "portal" /\ Portal!Next /\ UNCHANGED <<vars, matchesVars>>
       \/ which = "matches" /\ Matches!Next /\ UNCHANGED <<vars, portalVars>>

MCSpec == MCInit /\ [][MCNext]_<<which, vars, portalVars, matchesVars>>
=============================================================================
