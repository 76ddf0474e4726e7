--------------------------- MODULE LatestSearch ---------------------------
(***************************************************************************)
(* What a searchable list promises: it shows the answer to the last search *)
(* the user made, or keeps what it showed when that search is given up.    *)
(* An answer to an earlier search is never shown after a later one.        *)
(***************************************************************************)
CONSTANT Searches

VARIABLES wanted,   \* the last search made
          shown,    \* the search whose answer is on the screen
          waiting   \* the answer to wanted is still to come

TypeOK == wanted \in Searches /\ shown \in Searches /\ waiting \in BOOLEAN

Init == wanted \in Searches /\ shown \in Searches /\ waiting \in BOOLEAN

\* A new search replaces the one that was waiting.
Search == wanted' \in Searches /\ waiting' = TRUE /\ UNCHANGED shown

Show == waiting /\ shown' = wanted /\ waiting' = FALSE /\ UNCHANGED wanted

\* The search fails or is cancelled: the list keeps what it shows.
GiveUp == waiting /\ waiting' = FALSE /\ UNCHANGED <<wanted, shown>>

Next == Search \/ Show \/ GiveUp

Spec == Init /\ [][Next]_<<wanted, shown, waiting>>
=============================================================================
