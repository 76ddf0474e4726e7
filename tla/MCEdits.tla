------------------------------ MODULE MCEdits -------------------------------
(***************************************************************************)
(* The pages of the console UI that edit one thing or a list in place, and  *)
(* the portal's forms, on small instances.  One page is open in a behaviour; *)
(* the others stay as they begin.                                           *)
(***************************************************************************)
EXTENDS EditPages

VARIABLE which      \* the page that is open

-----------------------------------------------------------------------------
AllViews == {"account", "group", "leaderboard"}
ThreeValues == {"a", "b", "none"}
OneRole == {2}

\* Two people and every identity provider, two requests under way.
AllProviders == {"custom", "facebook", "facebook_instant_game", "apple", "gamecenter",
                 "google", "steam"}
AllMemberViews == {"members", "friends", "groups", "users", "authentication"}

\* The dialogs and the form of a new collection with requests in any order, all forms
\* for a user who waits.
MCFormVisits ==
    {[view |-> v, serial |-> FALSE, maxReqs |-> 2, maxSent |-> 2] : v \in {"create", "createNft"}}
    \cup {[view |-> "updateNft", serial |-> FALSE, maxReqs |-> 2, maxSent |-> 2]}
    \cup {[view |-> v, serial |-> TRUE, maxReqs |-> 2, maxSent |-> 3] :
             v \in {"create", "createNft", "updateNft"}}
    \cup {[view |-> "detail", serial |-> TRUE, maxReqs |-> 2, maxSent |-> 3]}

-----------------------------------------------------------------------------
\* Tabs, forms and dialogs with two requests, and two unlinks; three where the user only
\* bans, and in the other lists.
SentWithForms == 2
SentUnlinks == 2

MCInit ==
    /\ which \in {"editors", "bans", "members", "forms"}
    /\ Init /\ server.data["readonly"] = "a"
    /\ which # "bans" => ~server.banned
    /\ which \notin {"editors", "bans"} => view = "leaderboard"
    /\ Members!Init /\ (which # "members" => mView = "members" /\ mRows = <<>>)
    /\ Forms!Init /\ (which # "forms" => nVisit.view = "create" /\ nVisit.serial)

MCNext ==
    /\ UNCHANGED which
    /\ \/ which = "editors" /\ Next /\ sent' <= SentWithForms /\ UNCHANGED <<membersVars, formsVars>>
       \/ which = "bans" /\ Next /\ <<tab, form, dialogs>>' = <<tab, form, dialogs>>
          /\ UNCHANGED <<membersVars, formsVars>>
       \/ which = "members" /\ Members!Next /\ (mView = "authentication" => mSent' <= SentUnlinks)
          /\ UNCHANGED <<vars, formsVars>>
       \/ which = "forms" /\ Forms!Next /\ UNCHANGED <<vars, membersVars>>

MCSpec == MCInit /\ [][MCNext]_<<which, vars, membersVars, formsVars>>
=============================================================================
