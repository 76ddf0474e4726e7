------------------------------- MODULE MCTracker -------------------------------
\* Small instances of Tracker.
EXTENDS Tracker, TLC

CONSTANTS n1, n2, a, b, r, notifications, status, party1, party2, g1, g2

TwoNodes == {n1, n2}
TwoGoroutines == {g1, g2}
OneGoroutine == {g1}

\* One session on this node and one elsewhere.
Pair == {a, r}
PairHome == a :> n1 @@ r :> n2
FourStreams == {notifications, status, party1, party2}
Parties == {party1, party2}

\* Two sessions on this node, none elsewhere.
Locals == {a, b}
LocalsHome == a :> n1 @@ b :> n1
TwoStreams == {notifications, status}
NoStreams == {}
================================================================================
