-------------------------------- MODULE Tracker --------------------------------
(***************************************************************************)
(* The presence tracker of one node (server/tracker.go), the operations    *)
(* the cluster applies to it (server/peer_tracker.go) and the life of the  *)
(* websocket sessions it is about: connecting (server/socket_ws.go), the   *)
(* single-socket rule (server/session_registry.go) and closing             *)
(* (server/session_ws.go).                                                 *)
(*                                                                         *)
(* The tracker keeps every presence twice, by session and by stream, and   *)
(* counts them.  A bucket of either index is a Go map from the presence's  *)
(* key (node, session, stream, user) to the presence; here it is a set of  *)
(* presences and an absent bucket is the empty set.  The level that groups *)
(* streams by mode is left out: it only mirrors which streams are there.   *)
(*                                                                         *)
(* All sessions belong to one user, so the user part of a key is left out  *)
(* and the user has one notification and one status stream.  An action is  *)
(* the code under the tracker's lock.  An operation that must not overlap  *)
(* with the closing of its session holds that session's close lock until   *)
(* its join event is queued; what it still has to queue is joining[g].     *)
(* Leave events are queued without any lock and change nothing here.       *)
(***************************************************************************)
EXTENDS Integers, FiniteSets, Sequences

CONSTANTS
    Nodes,           \* the nodes of the cluster
    Self,            \* this node, LocalTracker.name
    Sessions,        \* session identifiers, of this and of other nodes
    NodeOf,          \* the node that holds each session
    Streams,         \* presence streams
    Notifications,   \* the user's notification stream
    Status,          \* the user's status stream
    SingleStreams,   \* streams of the modes a session may be in only once
    Goroutines,      \* goroutines that call the tracker for local sessions
    SingleSocket     \* config session.single_socket

ASSUME TrackerConstants ==
    /\ Self \in Nodes
    /\ NodeOf \in [Sessions -> Nodes]
    /\ Notifications \in Streams
    /\ Status \in Streams \ {Notifications}
    /\ SingleStreams \subseteq Streams
    /\ SingleSocket \in BOOLEAN

LocalSessions == {s \in Sessions : NodeOf[s] = Self}
RemoteSessions == Sessions \ LocalSessions

Presence == [node : Nodes, session : Sessions, stream : Streams, hidden : BOOLEAN]
Entry(n, s, st, h) == [node |-> n, session |-> s, stream |-> st, hidden |-> h]

VARIABLES
    bySession,   \* presencesBySession
    byStream,    \* presencesByStream
    count,       \* the tracker's count
    joining,     \* presences whose join event a goroutine has still to queue
    sess,        \* stage of each local session, from connecting to gone
    conn,        \* how far the connect handler of a session has got
    born,        \* local sessions in the order they were registered
    kick,        \* sessions SingleSession of a session has still to close
    merging      \* nodes whose state has been cleared and not yet added again

indexVars == <<bySession, byStream, count>>
sessVars == <<sess, conn, born, kick>>
vars == <<indexVars, joining, sessVars, merging>>

SessStages == {"new", "open", "cancelled", "untracked", "gone"}
ConnStages == {"register", "track", "single", "run"}
--------------------------------------------------------------------------------
\* The two indexes.

\* The presences of a set that belong to a session, to a stream, to a key.
OfSession(ps, s) == {p \in ps : p.session = s}
OfStream(ps, st) == {p \in ps : p.stream = st}
Keyed(ps, n, st) == {p \in ps : p.node = n /\ p.stream = st}

\* A bucket after the presences gone have been deleted from it: a bucket with
\* one presence is discarded whole, whichever presence that is.
Drop(bucket, gone) ==
    IF gone # {} /\ (\E p \in bucket : bucket = {p}) THEN {} ELSE bucket \ gone

\* Add presences that are not tracked yet to both indexes.
Insert(ps) ==
    /\ bySession' = [s \in Sessions |-> bySession[s] \cup OfSession(ps, s)]
    /\ byStream' = [st \in Streams |-> byStream[st] \cup OfStream(ps, st)]
    /\ count' = count + Cardinality(ps)

\* Delete presences from the index by stream.
DropByStream(gone) ==
    byStream' = [st \in Streams |-> Drop(byStream[st], OfStream(gone, st))]

\* Delete presences from both indexes.
Delete(gone) ==
    /\ bySession' = [s \in Sessions |-> Drop(bySession[s], OfSession(gone, s))]
    /\ DropByStream(gone)
    /\ count' = count - Cardinality(gone)

\* Delete the presences gone and discard the whole buckets of the sessions ss.
DiscardSessions(gone, ss) ==
    /\ bySession' = [s \in Sessions |-> IF s \in ss THEN {} ELSE bySession[s]]
    /\ DropByStream(gone)
    /\ count' = count - Cardinality(gone)
--------------------------------------------------------------------------------
\* The close lock of a session, taken by getSession.
CloseLocked(s) == \E g \in Goroutines : \E p \in joining[g] : p.session = s

\* getSession: the session is registered, its context is alive and the
\* goroutine gets its close lock.
GetSession(g, s) ==
    /\ joining[g] = {}
    /\ sess[s] = "open"
    /\ ~CloseLocked(s)

Visible(ps) == {p \in ps : ~p.hidden}

\* A presence that is tracked already is left as it is.
Track(g, s, st, h) ==
    LET p == Entry(Self, s, st, h) IN
    /\ GetSession(g, s)
    /\ Keyed(bySession[s], Self, st) = {}
    /\ Insert({p})
    /\ joining' = [joining EXCEPT ![g] = Visible({p})]
    /\ UNCHANGED <<sessVars, merging>>

\* Mutant: an update that replaces a presence is counted.
Update_Counted(g, s, st, h) ==
    LET p == Entry(Self, s, st, h)
        old == Keyed(bySession[s], Self, st)
    IN  /\ GetSession(g, s)
        /\ bySession' = [bySession EXCEPT ![s] = (@ \ old) \cup {p}]
        /\ byStream' = [byStream EXCEPT ![st] =
                           (@ \ {q \in @ : q.node = Self /\ q.session = s}) \cup {p}]
        /\ count' = count + 1
        /\ joining' = [joining EXCEPT ![g] = Visible({p})]
        /\ UNCHANGED <<sessVars, merging>>

\* Update is an upsert: the presence takes the place of one with its key.
Update(g, s, st, h) ==
    LET p == Entry(Self, s, st, h)
        old == Keyed(bySession[s], Self, st)
    IN  /\ GetSession(g, s)
        /\ bySession' = [bySession EXCEPT ![s] = (@ \ old) \cup {p}]
        /\ byStream' = [byStream EXCEPT ![st] =
                           (@ \ {q \in @ : q.node = Self /\ q.session = s}) \cup {p}]
        /\ count' = IF old = {} THEN count + 1 ELSE count
        /\ joining' = [joining EXCEPT ![g] = Visible({p})]
        /\ UNCHANGED <<sessVars, merging>>

\* The event is queued and the close lock given up.
QueueEvent(g) ==
    /\ joining[g] # {}
    /\ joining' = [joining EXCEPT ![g] = {}]
    /\ UNCHANGED <<indexVars, sessVars, merging>>

\* Untrack takes no close lock: other goroutines remove a session's presence.
Untrack(s, st) ==
    LET gone == Keyed(bySession[s], Self, st) IN
    /\ gone # {}
    /\ Delete(gone)
    /\ UNCHANGED <<joining, sessVars, merging>>

\* UntrackLocalByModes: leave the other streams of the mode, except one.
UntrackLocalByModes(s, skip) ==
    LET gone == {p \in bySession[s] : p.stream \in SingleStreams \ {skip}} IN
    /\ gone # {}
    /\ Delete(gone)
    /\ UNCHANGED <<joining, sessVars, merging>>

\* Mutant: the index by session is left alone.
UntrackByStream_OneIndex(st) ==
    /\ byStream[st] # {}
    /\ byStream' = [byStream EXCEPT ![st] = {}]
    /\ count' = count - Cardinality(byStream[st])
    /\ UNCHANGED <<bySession, joining, sessVars, merging>>

\* UntrackByStream, and UntrackLocalByStream on a peer's behalf.
UntrackByStream(st) ==
    /\ byStream[st] # {}
    /\ bySession' = [s \in Sessions |-> Drop(bySession[s], OfSession(byStream[st], s))]
    /\ byStream' = [byStream EXCEPT ![st] = {}]
    /\ count' = count - Cardinality(byStream[st])
    /\ UNCHANGED <<joining, sessVars, merging>>

\* Mutant: presences nobody is told of are passed over.
UntrackAll_OnlyVisible(s, n) ==
    Delete(Visible({p \in bySession[s] : p.node = n}))

\* UntrackAll: only presences of the node are counted out and taken off their
\* streams, the session's bucket goes whole.
UntrackAll(s, n) ==
    DiscardSessions({p \in bySession[s] : p.node = n}, {s})
--------------------------------------------------------------------------------
\* The life of a local session.

\* The connect handler: the session is registered, gets its first presences
\* and, with single_socket, a goroutine that closes the user's other sessions.
Register(s) ==
    /\ conn[s] = "register"
    /\ conn' = [conn EXCEPT ![s] = "track"]
    /\ sess' = [sess EXCEPT ![s] = "open"]
    /\ born' = Append(born, s)
    /\ UNCHANGED <<indexVars, joining, kick, merging>>

\* TrackMulti of the notification presence and, if the client asked for it,
\* the status presence.
TrackFirst(g, s) ==
    \E ps \in {{Entry(Self, s, Notifications, TRUE)},
               {Entry(Self, s, Notifications, TRUE), Entry(Self, s, Status, FALSE)}} :
        LET added == {p \in ps : Keyed(bySession[s], Self, p.stream) = {}} IN
        /\ conn[s] = "track"
        /\ GetSession(g, s)
        /\ Insert(added)
        /\ joining' = [joining EXCEPT ![g] = Visible(added)]
        /\ conn' = [conn EXCEPT ![s] = "single"]
        /\ UNCHANGED <<sess, born, kick, merging>>

\* The session was closed before its first presences could be tracked.
TrackFirstFails(s) ==
    /\ conn[s] = "track"
    /\ sess[s] # "open"
    /\ conn' = [conn EXCEPT ![s] = "single"]
    /\ UNCHANGED <<indexVars, joining, sess, born, kick, merging>>

\* Mutant: sessions of other nodes are listed too.
SingleSession_AllNodes(s) ==
    /\ conn[s] = "single"
    /\ conn' = [conn EXCEPT ![s] = "run"]
    /\ kick' = [kick EXCEPT ![s] =
                   IF SingleSocket
                   THEN {p.session : p \in byStream[Notifications]} \ {s}
                   ELSE {}]
    /\ UNCHANGED <<indexVars, joining, sess, born, merging>>

\* SingleSession lists the user's local sessions other than its own.
SingleSession(s) ==
    /\ conn[s] = "single"
    /\ conn' = [conn EXCEPT ![s] = "run"]
    /\ kick' = [kick EXCEPT ![s] =
                   IF SingleSocket
                   THEN {p.session : p \in {q \in byStream[Notifications] : q.node = Self}} \ {s}
                   ELSE {}]
    /\ UNCHANGED <<indexVars, joining, sess, born, merging>>

\* Mutant: the context is cancelled without the close lock.
Cancelled_NoLock(t) ==
    sess' = [sess EXCEPT ![t] = IF @ = "open" THEN "cancelled" ELSE @]

\* sessionWS.Close, as far as the close lock: the context is cancelled.
Cancelled(t) ==
    /\ ~CloseLocked(t)
    /\ sess' = [sess EXCEPT ![t] = IF @ = "open" THEN "cancelled" ELSE @]

\* Mutant: a session whose close lock is taken is passed over.
Kick_TryLock(s, t) ==
    /\ t \in kick[s]
    /\ IF CloseLocked(t) THEN UNCHANGED sess ELSE Cancelled(t)
    /\ kick' = [kick EXCEPT ![s] = @ \ {t}]
    /\ UNCHANGED <<indexVars, joining, conn, born, merging>>

\* SingleSession closes one of the sessions it has listed; one that is closed
\* already, or has left the registry, is passed over.
Kick(s, t) ==
    /\ t \in kick[s]
    /\ Cancelled(t)
    /\ kick' = [kick EXCEPT ![s] = @ \ {t}]
    /\ UNCHANGED <<indexVars, joining, conn, born, merging>>

\* The connection ends, or the session is disconnected.
Close(s) ==
    /\ sess[s] = "open"
    /\ Cancelled(s)
    /\ UNCHANGED <<indexVars, joining, conn, born, kick, merging>>

CloseUntrack(s) ==
    /\ sess[s] = "cancelled"
    /\ sess' = [sess EXCEPT ![s] = "untracked"]
    /\ UntrackAll(s, Self)
    /\ UNCHANGED <<joining, conn, born, kick, merging>>

CloseRemove(s) ==
    /\ sess[s] = "untracked"
    /\ sess' = [sess EXCEPT ![s] = "gone"]
    /\ UNCHANGED <<indexVars, joining, conn, born, kick, merging>>
--------------------------------------------------------------------------------
\* What the cluster does to this node's tracker.  The messages of other nodes
\* are arbitrary: they concern sessions of their sender.

\* onTrack: TrackMulti for a session of another node, which has no close lock.
OnTrack(s, st, h) ==
    LET p == Entry(NodeOf[s], s, st, h) IN
    /\ Keyed(bySession[s], NodeOf[s], st) = {}
    /\ Insert({p})
    /\ UNCHANGED <<joining, sessVars, merging>>

\* onUntrack without streams.  With streams it calls Untrack, which looks for a
\* presence of this node and finds none.
OnUntrackAll(s) ==
    /\ bySession[s] # {}
    /\ UntrackAll(s, NodeOf[s])
    /\ UNCHANGED <<joining, sessVars, merging>>

\* ClearTrackByNode walks each session's bucket in some order, stops at the
\* first presence of another node, and discards the bucket if it deleted any.
Clear(n) ==
    \E gone \in SUBSET {p \in UNION {bySession[s] : s \in Sessions} : p.node = n} :
        /\ \A s \in Sessions :
              (\A p \in bySession[s] : p.node = n) => bySession[s] \subseteq gone
        /\ DiscardSessions(gone, {s \in Sessions : OfSession(gone, s) # {}})

ClearTrackByNode(n) ==
    /\ Clear(n)
    /\ UNCHANGED <<joining, sessVars, merging>>

\* MergeRemoteState of a push/pull: the node's presences are cleared under one
\* lock and those it sent are added under the next.
MergeClear(n) ==
    /\ n \notin merging
    /\ Clear(n)
    /\ merging' = merging \cup {n}
    /\ UNCHANGED <<joining, sessVars>>

MergeAdd(n, ps) ==
    /\ n \in merging
    /\ Insert({p \in ps : Keyed(bySession[p.session], n, p.stream) = {}})
    /\ merging' = merging \ {n}
    /\ UNCHANGED <<joining, sessVars>>

\* What a node can send: presences of its sessions, one for each stream.
Sent(n) ==
    {ps \in SUBSET {p \in Presence : p.node = n /\ NodeOf[p.session] = n} :
        /\ IsFiniteSet(ps)
        /\ \A p, q \in ps : p.session = q.session /\ p.stream = q.stream => p = q}
--------------------------------------------------------------------------------
Init ==
    /\ bySession = [s \in Sessions |-> {}]
    /\ byStream = [st \in Streams |-> {}]
    /\ count = 0
    /\ joining = [g \in Goroutines |-> {}]
    /\ sess = [s \in LocalSessions |-> "new"]
    /\ conn = [s \in LocalSessions |-> "register"]
    /\ born = << >>
    /\ kick = [s \in LocalSessions |-> {}]
    /\ merging = {}

LocalStep(s) ==
    \/ Register(s) \/ TrackFirstFails(s) \/ SingleSession(s) \/ Close(s)
    \/ \E t \in LocalSessions : Kick(s, t)
    \/ \E st \in Streams : Untrack(s, st) \/ UntrackLocalByModes(s, st)
    \/ \E g \in Goroutines :
          \/ TrackFirst(g, s)
          \/ \E st \in Streams, h \in BOOLEAN : Track(g, s, st, h) \/ Update(g, s, st, h)

CloseStep(s) == CloseUntrack(s) \/ CloseRemove(s)

RemoteStep(s) ==
    \/ OnUntrackAll(s)
    \/ \E st \in Streams, h \in BOOLEAN : OnTrack(s, st, h)

NodeStep(n) ==
    \/ ClearTrackByNode(n)
    \/ MergeClear(n)
    \/ \E ps \in Sent(n) : MergeAdd(n, ps)

Next ==
    \/ \E s \in LocalSessions : LocalStep(s) \/ CloseStep(s)
    \/ \E s \in RemoteSessions : RemoteStep(s)
    \/ \E n \in Nodes \ {Self} : NodeStep(n)
    \/ \E st \in Streams : UntrackByStream(st)
    \/ \E g \in Goroutines : QueueEvent(g)

\* A goroutine that holds a close lock queues its event and lets go, a Close
\* that has begun runs to its end and SingleSession closes what it has listed:
\* it may find a close lock taken again and again, but a Go mutex lets every
\* waiting goroutine in.
Fairness ==
    /\ \A g \in Goroutines : WF_vars(QueueEvent(g))
    /\ \A s \in LocalSessions : WF_vars(CloseStep(s))
    /\ \A s, t \in LocalSessions : SF_vars(Kick(s, t))

Spec == Init /\ [][Next]_vars /\ Fairness
--------------------------------------------------------------------------------
\* Properties.

Tracked == UNION {bySession[s] : s \in Sessions}
ClosedSessions == {s \in LocalSessions : sess[s] \in {"untracked", "gone"}}

PS == INSTANCE PresenceSet WITH present <- Tracked, size <- count, closed <- ClosedSessions

\* Every variable of the tracker and of the sessions stays in its domain, and
\* a presence is only filed under its own session and stream.
TypeOK ==
    /\ bySession \in [Sessions -> SUBSET Presence]
    /\ byStream \in [Streams -> SUBSET Presence]
    /\ count \in Int
    /\ joining \in [Goroutines -> SUBSET Presence]
    /\ sess \in [LocalSessions -> SessStages]
    /\ conn \in [LocalSessions -> ConnStages]
    /\ born \in Seq(LocalSessions)
    /\ kick \in [LocalSessions -> SUBSET LocalSessions]
    /\ merging \subseteq Nodes
    /\ \A s \in Sessions : \A p \in bySession[s] : p.session = s
    /\ \A st \in Streams : \A p \in byStream[st] : p.stream = st

\* The two indexes hold the same presences with the same meta, one per key:
\* what a delete takes out of one bucket it takes out of the other, although
\* Untrack, UntrackAll, UntrackByStream and ClearTrackByNode discard whole
\* buckets they find to hold a single presence or to belong to one session.
IndexesAgree ==
    /\ \A p \in Presence : p \in bySession[p.session] <=> p \in byStream[p.stream]
    /\ \A s \in Sessions : \A p, q \in bySession[s] :
          p.node = q.node /\ p.stream = q.stream => p = q

\* The tracker's count, reported to the cluster as the node's presence count,
\* is the number of presences tracked.
CountExact == count = Cardinality(Tracked)

\* Once UntrackAll of a closing session has run, the session has no presence
\* and gets none any more: whoever tracks or updates looks at the session's
\* context under its close lock (getSession, sessionWS.Close).
ClosedUntracked == \A s \in ClosedSessions : bySession[s] = {}

\* A join event that has still to be queued is of a session that is not
\* closing, so the leave events of the Close are queued after it.
NoJoinAfterClose ==
    \A g \in Goroutines : \A p \in joining[g] :
        p.session \in LocalSessions /\ sess[p.session] = "open"

\* The tracker implements one set of presences with its size: every operation,
\* although it deletes from one index key by key and from the other by whole
\* buckets, takes exactly the presences it names out of both, and no presence of
\* a closed session is ever added (Track, Update, Untrack, UntrackAll,
\* UntrackByStream, ClearTrackByNode, MergeRemoteState, sessionWS.Close).
OnePresenceSet == PS!Spec

\* Everybody SingleSession has listed is closed in the end, and a session whose
\* closing has begun leaves the tracker and the registry for good.
CloseCompletes ==
    \A s \in LocalSessions :
        /\ sess[s] = "cancelled" ~> sess[s] = "gone" /\ bySession[s] = {}
        /\ \A t \in LocalSessions : t \in kick[s] ~> sess[t] # "open"

\* "Allow the current session, only disconnect any older ones." (SingleSession):
\* a session only closes sessions that were registered before it.
KicksOnlyOlder ==
    \A s \in LocalSessions : \A t \in kick[s] :
        \E i, j \in 1..Len(born) : i < j /\ born[i] = t /\ born[j] = s
================================================================================
