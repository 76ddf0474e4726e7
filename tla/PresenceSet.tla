----------------------------- MODULE PresenceSet -----------------------------
(***************************************************************************)
(* What the presence tracker promises to those who use it: one set of      *)
(* presences, at most one for a session and a stream, that changes by whole *)
(* operations, and a count that is its size.  A session that was closed is *)
(* gone from the set for good.                                             *)
(***************************************************************************)
EXTENDS FiniteSets

CONSTANTS Nodes, Sessions, Streams

VARIABLES present,   \* the presences, records with a node, a session and a stream
          size,      \* how many there are
          closed     \* sessions that were closed

Init == present = {} /\ size = 0 /\ closed = {}

SameKey(p, q) == p.session = q.session /\ p.stream = q.stream

\* Every operation leaves the count right.
Changed(now) == present' = now /\ size' = Cardinality(now)

\* Sessions of one node, none of them closed, come to streams they were not on.
Arrive ==
    LET new == present' \ present IN
    /\ \A p \in new : p.session \notin closed
    /\ \A p, q \in new : p.node = q.node /\ (SameKey(p, q) => p = q)
    /\ \A p \in new, q \in present : ~SameKey(p, q)
    /\ Changed(present \cup new)
    /\ UNCHANGED closed

\* The meta of one presence changes.
Renew ==
    \E old \in present, new \in present' :
        /\ SameKey(old, new) /\ old.node = new.node
        /\ new.session \notin closed
        /\ Changed((present \ {old}) \cup {new})
        /\ UNCHANGED closed

\* A session leaves some streams, everybody leaves a stream, a node is lost.
Leave(s, sts) ==
    Changed({p \in present : p.session # s \/ p.stream \notin sts}) /\ UNCHANGED closed

Empty(st) == Changed({p \in present : p.stream # st}) /\ UNCHANGED closed

Lose(n) == Changed({p \in present : p.node # n}) /\ UNCHANGED closed

\* A session leaves all streams and never comes back.
Close(s) == Changed({p \in present : p.session # s}) /\ closed' = closed \cup {s}

Next ==
    \/ Arrive
    \/ Renew
    \/ \E st \in Streams : Empty(st)
    \/ \E n \in Nodes : Lose(n)
    \/ \E s \in Sessions : Close(s)
    \/ \E s \in Sessions, sts \in SUBSET Streams : Leave(s, sts)

Spec == Init /\ [][Next]_<<present, size, closed>>
=============================================================================
