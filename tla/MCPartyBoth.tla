----------------------------- MODULE MCPartyBoth ------------------------------
\* One party, closed or open: the closed party of MCParty beside an open one over
\* the same sessions.
EXTENDS MCParty

\* PartyHandler.Open of the party of this behaviour, fixed when it is created.
VARIABLE open

\* An open party needs no Accept: its interesting runs are shorter in requests
\* and longer in queued presence events.
OpenParty == INSTANCE PartyHandler WITH
    Open <- TRUE, MaxRequests <- 3, EventQueueSize <- 3

MCInit == open \in BOOLEAN /\ Init

MCNext ==
    /\ open' = open
    /\ \/ ~open /\ Next
       \/ open /\ OpenParty!Next

MCSpec == MCInit /\ [][MCNext]_<<vars, open>>
===============================================================================
