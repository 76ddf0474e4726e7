----------------------------- MODULE TrackerProofs -----------------------------
(***************************************************************************)
(* Proofs about Tracker, for any number of nodes, sessions, streams and    *)
(* goroutines.  The inductive invariant says that one finite set of        *)
(* presences explains both indexes and the count, and that every presence  *)
(* carries the node of its session.  Deleting by discarding whole buckets  *)
(* is only right because of it.                                            *)
(***************************************************************************)
EXTENDS Tracker, TLAPS, FiniteSetTheorems

\* The presences T fill the index bs by session and bst by stream, are counted
\* by c, and are one per key, on the node of their session.
Files(T, bs, bst, c) ==
    /\ T \subseteq Presence
    /\ IsFiniteSet(T)
    /\ \A p, q \in T : p.session = q.session /\ p.stream = q.stream => p = q
    /\ \A p \in T : p.node = NodeOf[p.session]
    /\ bs = [s \in Sessions |-> OfSession(T, s)]
    /\ bst = [st \in Streams |-> OfStream(T, st)]
    /\ c = Cardinality(T)

IndexInv == \E T : Files(T, bySession, byStream, count)

RestType ==
    /\ joining \in [Goroutines -> SUBSET Presence]
    /\ sess \in [LocalSessions -> SessStages]
    /\ conn \in [LocalSessions -> ConnStages]
    /\ born \in Seq(LocalSessions)
    /\ kick \in [LocalSessions -> SUBSET LocalSessions]
    /\ merging \subseteq Nodes

NewAtFirst == \A s \in LocalSessions : conn[s] = "register" => sess[s] = "new"
--------------------------------------------------------------------------------
\* The steps of the indexes.

\* Deleting presences that are all in a bucket leaves the others, although a
\* bucket with one presence is discarded whole (every delete of the tracker).
LEMMA DropIs ==
    ASSUME NEW bucket, NEW gone, gone \subseteq bucket
    PROVE  Drop(bucket, gone) = bucket \ gone
BY DEF Drop

\* Insert files new presences in both indexes and counts them.
LEMMA InsertFiles ==
    ASSUME NEW T, NEW ps,
           Files(T, bySession, byStream, count),
           ps \subseteq Presence, IsFiniteSet(ps),
           \A p \in ps : p.node = NodeOf[p.session],
           \A p, q \in ps : p.session = q.session /\ p.stream = q.stream => p = q,
           \A p \in ps, q \in T : p.session = q.session => p.stream # q.stream,
           Insert(ps)
    PROVE  Files(T \cup ps, bySession', byStream', count')
<1>1. T \cap ps = {}
  OBVIOUS
<1>2. IsFiniteSet(T \cup ps) /\ Cardinality(T \cup ps) = Cardinality(T) + Cardinality(ps)
  <2>1. IsFiniteSet(T)
    BY DEF Files
  <2>2. Cardinality(T \cap ps) = 0
    BY <1>1, FS_EmptySet
  <2>3. Cardinality(T) \in Nat /\ Cardinality(ps) \in Nat
    BY <2>1, FS_CardinalityType
  <2>4. /\ IsFiniteSet(T \cup ps)
        /\ Cardinality(T \cup ps) = Cardinality(T) + Cardinality(ps) - Cardinality(T \cap ps)
    BY <2>1, FS_Union
  <2> QED
    BY <2>2, <2>3, <2>4
<1>3. bySession' = [s \in Sessions |-> OfSession(T \cup ps, s)]
  <2>1. \A s \in Sessions : bySession[s] \cup OfSession(ps, s) = OfSession(T \cup ps, s)
    BY DEF Files, OfSession
  <2> QED
    BY <2>1 DEF Insert
<1>4. byStream' = [st \in Streams |-> OfStream(T \cup ps, st)]
  <2>1. \A st \in Streams : byStream[st] \cup OfStream(ps, st) = OfStream(T \cup ps, st)
    BY DEF Files, OfStream
  <2> QED
    BY <2>1 DEF Insert
<1>5. count' = Cardinality(T \cup ps)
  BY <1>2 DEF Insert, Files
<1>6. T \cup ps \subseteq Presence
  BY DEF Files
<1>7. \A p, q \in T \cup ps : p.session = q.session /\ p.stream = q.stream => p = q
  BY DEF Files
<1>8. \A p \in T \cup ps : p.node = NodeOf[p.session]
  BY DEF Files
<1> QED
  BY <1>2, <1>3, <1>4, <1>5, <1>6, <1>7, <1>8 DEF Files

\* Taking presences away keeps what does not depend on the indexes.
LEMMA LessFiles ==
    ASSUME NEW T, NEW gone, gone \subseteq T,
           Files(T, bySession, byStream, count),
           bySession' = [s \in Sessions |-> OfSession(T \ gone, s)],
           byStream' = [st \in Streams |-> OfStream(T \ gone, st)],
           count' = count - Cardinality(gone)
    PROVE  Files(T \ gone, bySession', byStream', count')
<1>1. IsFiniteSet(T) /\ count = Cardinality(T)
  BY DEF Files
<1>2. IsFiniteSet(gone) /\ T \cap gone = gone
  BY <1>1, FS_Subset
<1>3. IsFiniteSet(T \ gone) /\ Cardinality(T \ gone) = Cardinality(T) - Cardinality(gone)
  BY <1>1, <1>2, FS_Difference
<1> QED
  BY <1>1, <1>3 DEF Files

\* DropByStream takes presences off their streams.
LEMMA DropByStreamIs ==
    ASSUME NEW T, NEW gone, gone \subseteq T,
           Files(T, bySession, byStream, count),
           DropByStream(gone)
    PROVE  byStream' = [st \in Streams |-> OfStream(T \ gone, st)]
<1>1. ASSUME NEW st \in Streams
      PROVE  Drop(byStream[st], OfStream(gone, st)) = OfStream(T \ gone, st)
  <2>1. byStream[st] = OfStream(T, st)
    BY DEF Files
  <2>2. OfStream(gone, st) \subseteq byStream[st]
    BY <2>1 DEF OfStream
  <2> QED
    BY <2>1, <2>2, DropIs DEF OfStream
<1> QED
  BY <1>1 DEF DropByStream

\* Deleting presences from the buckets of their sessions.
LEMMA DropBySessionIs ==
    ASSUME NEW T, NEW gone, gone \subseteq T,
           Files(T, bySession, byStream, count),
           NEW s \in Sessions
    PROVE  Drop(bySession[s], OfSession(gone, s)) = OfSession(T \ gone, s)
<1>1. bySession[s] = OfSession(T, s)
  BY DEF Files
<1>2. OfSession(gone, s) \subseteq bySession[s]
  BY <1>1 DEF OfSession
<1> QED
  BY <1>1, <1>2, DropIs DEF OfSession

\* Deleting presences from both indexes takes them out of the set the indexes are of.
LEMMA DeleteFiles ==
    ASSUME NEW T, NEW gone, gone \subseteq T,
           Files(T, bySession, byStream, count),
           Delete(gone)
    PROVE  Files(T \ gone, bySession', byStream', count')
<1>1. bySession' = [s \in Sessions |-> OfSession(T \ gone, s)]
  BY DropBySessionIs DEF Delete
<1>2. byStream' = [st \in Streams |-> OfStream(T \ gone, st)]
  BY DropByStreamIs DEF Delete
<1> QED
  BY <1>1, <1>2, LessFiles DEF Delete

\* Discarding whole sessions is right when all their presences are deleted.
LEMMA DiscardFiles ==
    ASSUME NEW T, NEW gone, gone \subseteq T, NEW ss,
           Files(T, bySession, byStream, count),
           \A p \in T : p.session \in ss <=> p \in gone,
           DiscardSessions(gone, ss)
    PROVE  Files(T \ gone, bySession', byStream', count')
<1>1. bySession' = [s \in Sessions |-> OfSession(T \ gone, s)]
  <2>1. \A s \in Sessions : (IF s \in ss THEN {} ELSE bySession[s]) = OfSession(T \ gone, s)
    BY DEF Files, OfSession
  <2> QED
    BY <2>1 DEF DiscardSessions
<1>2. byStream' = [st \in Streams |-> OfStream(T \ gone, st)]
  <2>1. DropByStream(gone)
    BY DEF DiscardSessions
  <2>2. gone \subseteq T /\ Files(T, bySession, byStream, count)
    OBVIOUS
  <2> QED
    BY ONLY <2>1, <2>2, DropByStreamIs
<1> QED
  BY <1>1, <1>2, LessFiles DEF DiscardSessions
--------------------------------------------------------------------------------
\* The steps of the tracker keep the indexes filed.

\* What the buckets hold when T is filed, as the actions read them.
LEMMA Buckets ==
    ASSUME NEW T, Files(T, bySession, byStream, count)
    PROVE  /\ \A s \in Sessions : bySession[s] = OfSession(T, s)
           /\ \A st \in Streams : byStream[st] = OfStream(T, st)
           /\ \A s \in Sessions : \A p \in bySession[s] :
                 p \in T /\ p.session = s /\ p.node = NodeOf[s]
           /\ \A p \in T : /\ p.session \in Sessions /\ p.stream \in Streams
                           /\ p \in bySession[p.session] /\ p \in byStream[p.stream]
<1>1. \A s \in Sessions : bySession[s] = OfSession(T, s)
  BY DEF Files
<1>2. \A st \in Streams : byStream[st] = OfStream(T, st)
  BY DEF Files
<1>3. \A p \in T : p.session \in Sessions /\ p.stream \in Streams /\ p.node = NodeOf[p.session]
  BY DEF Files, Presence
<1> QED
  BY <1>1, <1>2, <1>3 DEF OfSession, OfStream

\* The set the indexes are of is Tracked, before and after a step.
LEMMA TrackedIs ==
    ASSUME NEW T
    PROVE  /\ Files(T, bySession, byStream, count) => Tracked = T /\ count = Cardinality(T)
           /\ Files(T, bySession', byStream', count') => Tracked' = T /\ count' = Cardinality(T)
<1>1. \A bs, bst, c : Files(T, bs, bst, c) =>
         UNION {bs[s] : s \in Sessions} = T /\ c = Cardinality(T)
  <2> SUFFICES ASSUME NEW bs, NEW bst, NEW c, Files(T, bs, bst, c)
               PROVE  UNION {bs[s] : s \in Sessions} = T /\ c = Cardinality(T)
    OBVIOUS
  <2>1. \A s \in Sessions : bs[s] = OfSession(T, s)
    BY DEF Files
  <2>2. \A p \in T : p.session \in Sessions
    BY DEF Files, Presence
  <2>3. UNION {bs[s] : s \in Sessions} = T
    BY <2>1, <2>2 DEF OfSession
  <2> QED
    BY <2>3 DEF Files
<1> QED
  BY <1>1 DEF Tracked

\* A step leaves exactly the presences now, and counts them.
Leaves(now) == Tracked' = now /\ count' = Cardinality(now)

\* A step adds presences whose keys are free and different.
Adds(ps) ==
    /\ Leaves(Tracked \cup ps)
    /\ \A p, q \in ps : p.session = q.session /\ p.stream = q.stream => p = q
    /\ \A p \in ps, q \in Tracked : p.session = q.session => p.stream # q.stream

\* Track, TrackMulti, onTrack and the second half of MergeRemoteState add
\* presences of sessions' own nodes whose keys are free.
LEMMA AddFiles ==
    ASSUME IndexInv, NEW ps,
           ps \subseteq Presence, IsFiniteSet(ps),
           \A p \in ps : p.node = NodeOf[p.session],
           \A p, q \in ps : p.session = q.session /\ p.stream = q.stream => p = q,
           \A p \in ps : Keyed(bySession[p.session], p.node, p.stream) = {},
           Insert(ps)
    PROVE  IndexInv' /\ Adds(ps)
<1>1. PICK T : Files(T, bySession, byStream, count)
  BY DEF IndexInv
<1>2. \A p \in ps, q \in T : p.session = q.session => p.stream # q.stream
  <2> SUFFICES ASSUME NEW p \in ps, NEW q \in T, p.session = q.session, p.stream = q.stream
               PROVE  FALSE
    OBVIOUS
  <2>1. q \in bySession[p.session] /\ q.node = p.node
    BY <1>1, Buckets DEF Files
  <2> QED
    BY <2>1 DEF Keyed
<1>3. Files(T \cup ps, bySession', byStream', count')
  BY <1>1, <1>2, InsertFiles
<1>4. Adds(ps)
  BY <1>1, <1>2, <1>3, TrackedIs DEF Adds, Leaves
<1> QED
  BY <1>3, <1>4 DEF IndexInv

\* Untrack and UntrackLocalByModes take presences out of one session.
LEMMA RemoveFiles ==
    ASSUME IndexInv, NEW s \in Sessions, NEW gone, gone \subseteq bySession[s], Delete(gone)
    PROVE  IndexInv' /\ Leaves(Tracked \ gone)
<1>1. PICK T : Files(T, bySession, byStream, count)
  BY DEF IndexInv
<1>2. gone \subseteq T
  BY <1>1, Buckets
<1>3. Files(T \ gone, bySession', byStream', count')
  BY <1>1, <1>2, DeleteFiles
<1> QED
  BY <1>1, <1>3, TrackedIs DEF IndexInv, Leaves

\* UntrackAll asked by the node of the session, which is how a Close and
\* onUntrack call it, deletes all the session's presences.
LEMMA UntrackAllFiles ==
    ASSUME IndexInv, NEW s \in Sessions, UntrackAll(s, NodeOf[s])
    PROVE  /\ IndexInv' /\ bySession'[s] = {}
           /\ Leaves({p \in Tracked : p.session # s})
<1> DEFINE gone == {p \in bySession[s] : p.node = NodeOf[s]}
<1>1. PICK T : Files(T, bySession, byStream, count)
  BY DEF IndexInv
<1>2. gone \subseteq T
  BY <1>1, Buckets
<1>3. \A p \in T : p.session \in {s} <=> p \in gone
  BY <1>1, Buckets
<1>4. DiscardSessions(gone, {s})
  BY DEF UntrackAll
<1>5. Files(T \ gone, bySession', byStream', count')
  <2> HIDE DEF gone
  <2> QED
    BY <1>1, <1>2, <1>3, <1>4, DiscardFiles
<1>6. bySession'[s] = {}
  BY <1>4 DEF DiscardSessions
<1>7. T \ gone = {p \in Tracked : p.session # s}
  BY <1>1, <1>3, TrackedIs
<1> HIDE DEF gone
<1> QED
  BY <1>5, <1>6, <1>7, TrackedIs DEF IndexInv, Leaves

\* ClearTrackByNode stops at a presence of another node and discards buckets
\* whole: sound because all presences of a session carry the same node.
LEMMA ClearFiles ==
    ASSUME IndexInv, NEW n, Clear(n)
    PROVE  IndexInv' /\ Leaves({p \in Tracked : p.node # n})
<1>1. PICK T : Files(T, bySession, byStream, count)
  BY DEF IndexInv
<1>2. PICK gone \in SUBSET {p \in UNION {bySession[s] : s \in Sessions} : p.node = n} :
        /\ \A s \in Sessions :
              (\A p \in bySession[s] : p.node = n) => bySession[s] \subseteq gone
        /\ DiscardSessions(gone, {s \in Sessions : OfSession(gone, s) # {}})
  BY DEF Clear
<1> DEFINE ss == {s \in Sessions : OfSession(gone, s) # {}}
<1>3. gone \subseteq T
  BY <1>1, Buckets
<1>4. \A p \in T : p.session \in ss <=> p \in gone
  <2> SUFFICES ASSUME NEW p \in T PROVE p.session \in ss <=> p \in gone
    OBVIOUS
  <2>1. p.session \in Sessions /\ p \in bySession[p.session]
    BY <1>1, Buckets
  <2>2. ASSUME p \in gone PROVE p.session \in ss
    BY <2>1, <2>2 DEF OfSession
  <2>3. ASSUME p.session \in ss PROVE p \in gone
    <3>1. PICK q \in gone : q.session = p.session
      BY <2>3 DEF OfSession
    <3>2. q.node = n /\ q \in T
      BY <1>3
    <3>3. NodeOf[p.session] = n
      BY <3>1, <3>2, <1>1 DEF Files
    <3>4. \A x \in bySession[p.session] : x.node = n
      BY <2>1, <3>3, <1>1, Buckets
    <3> QED
      BY <1>2, <2>1, <3>4
  <2> QED
    BY <2>2, <2>3
<1>5. Files(T \ gone, bySession', byStream', count')
  <2>1. DiscardSessions(gone, ss)
    BY <1>2
  <2> HIDE DEF ss
  <2> QED
    BY <1>1, <1>3, <1>4, <2>1, DiscardFiles
<1>6. T \ gone = {p \in Tracked : p.node # n}
  <2>1. \A p \in gone : p.node = n
    BY <1>2
  <2>2. ASSUME NEW p \in T, p.node = n PROVE p \in gone
    <3>1. p.session \in Sessions /\ p \in bySession[p.session] /\ NodeOf[p.session] = n
      BY <1>1, <2>2, Buckets DEF Files
    <3>2. \A x \in bySession[p.session] : x.node = n
      BY <1>1, <3>1, Buckets
    <3> QED
      BY <1>2, <3>1, <3>2
  <2> QED
    BY <1>1, <1>3, <2>1, <2>2, TrackedIs
<1> QED
  BY <1>5, <1>6, TrackedIs DEF IndexInv, Leaves

\* UntrackByStream empties a stream and takes its presences out of their
\* sessions.
LEMMA StreamFiles ==
    ASSUME IndexInv, NEW st \in Streams, UntrackByStream(st)
    PROVE  IndexInv' /\ Leaves({p \in Tracked : p.stream # st})
<1>1. PICK T : Files(T, bySession, byStream, count)
  BY DEF IndexInv
<1> DEFINE gone == byStream[st]
<1>2. gone = OfStream(T, st) /\ gone \subseteq T
  BY <1>1, Buckets DEF OfStream
<1>3. bySession' = [s \in Sessions |-> OfSession(T \ gone, s)]
  <2>1. \A s \in Sessions : Drop(bySession[s], OfSession(gone, s)) = OfSession(T \ gone, s)
    <3> HIDE DEF gone
    <3> QED
      BY <1>1, <1>2, DropBySessionIs
  <2> QED
    BY <2>1 DEF UntrackByStream
<1>4. byStream' = [x \in Streams |-> OfStream(T \ gone, x)]
  <2>1. byStream = [x \in Streams |-> OfStream(T, x)]
    BY <1>1 DEF Files
  <2>2. byStream' = [byStream EXCEPT ![st] = {}]
    BY DEF UntrackByStream
  <2>3. \A x \in Streams : OfStream(T \ gone, x) = IF x = st THEN {} ELSE OfStream(T, x)
    BY <1>2 DEF OfStream
  <2> HIDE DEF gone
  <2> QED
    BY <2>1, <2>2, <2>3
<1>5. count' = count - Cardinality(gone)
  BY DEF UntrackByStream
<1>6. Files(T \ gone, bySession', byStream', count')
  <2> HIDE DEF gone
  <2> QED
    BY <1>1, <1>2, <1>3, <1>4, <1>5, LessFiles
<1>7. T \ gone = {p \in Tracked : p.stream # st}
  BY <1>1, <1>2, TrackedIs DEF OfStream
<1> HIDE DEF gone
<1> QED
  BY <1>6, <1>7, TrackedIs DEF IndexInv, Leaves

\* Update puts a presence in the place of one with its key and counts it only
\* when there is none.
LEMMA UpdateFiles ==
    ASSUME IndexInv,
           NEW g \in Goroutines, NEW s \in LocalSessions, NEW st \in Streams, NEW h \in BOOLEAN,
           Update(g, s, st, h)
    PROVE  /\ IndexInv'
           /\ Leaves({q \in Tracked : ~(q.session = s /\ q.stream = st)}
                        \cup {Entry(Self, s, st, h)})
<1>1. PICK T : Files(T, bySession, byStream, count)
  BY DEF IndexInv
<1> DEFINE p == Entry(Self, s, st, h)
           old == Keyed(bySession[s], Self, st)
           U == (T \ old) \cup {p}
<1>2. s \in Sessions /\ NodeOf[s] = Self
  BY DEF LocalSessions
<1>3. p \in Presence /\ p.node = Self /\ p.session = s /\ p.stream = st
  BY <1>2, TrackerConstants DEF Entry, Presence
<1>4. old = {q \in T : q.session = s /\ q.stream = st}
  BY <1>1, <1>2, Buckets DEF Keyed, OfSession
<1>5. old = {q \in byStream[st] : q.node = Self /\ q.session = s}
  BY <1>1, <1>2, <1>4, Buckets DEF OfStream
<1>6. bySession' = [x \in Sessions |-> OfSession(U, x)]
  <2>1. bySession = [x \in Sessions |-> OfSession(T, x)]
    BY <1>1 DEF Files
  <2>2. bySession' = [bySession EXCEPT ![s] = (bySession[s] \ old) \cup {p}]
    BY DEF Update
  <2>3. \A x \in Sessions : OfSession(U, x) =
            IF x = s THEN (OfSession(T, s) \ old) \cup {p} ELSE OfSession(T, x)
    BY <1>3, <1>4 DEF OfSession
  <2> HIDE DEF p, old, U
  <2> QED
    BY <1>2, <2>1, <2>2, <2>3
<1>7. byStream' = [x \in Streams |-> OfStream(U, x)]
  <2>1. byStream = [x \in Streams |-> OfStream(T, x)]
    BY <1>1 DEF Files
  <2>2. byStream' = [byStream EXCEPT ![st] = (byStream[st] \ old) \cup {p}]
    BY <1>5 DEF Update
  <2>3. \A x \in Streams : OfStream(U, x) =
            IF x = st THEN (OfStream(T, st) \ old) \cup {p} ELSE OfStream(T, x)
    BY <1>3, <1>4 DEF OfStream
  <2> HIDE DEF p, old, U
  <2> QED
    BY <2>1, <2>2, <2>3
<1>8. /\ U \subseteq Presence
      /\ \A x, y \in U : x.session = y.session /\ x.stream = y.stream => x = y
      /\ \A x \in U : x.node = NodeOf[x.session]
  <2> HIDE DEF p, old
  <2> QED
    BY <1>1, <1>2, <1>3, <1>4 DEF Files
<1>9. IsFiniteSet(U) /\ count' = Cardinality(U)
  <2>1. IsFiniteSet(T) /\ count = Cardinality(T) /\ Cardinality(T) \in Nat
    BY <1>1, FS_CardinalityType DEF Files
  <2>2. count' = IF old = {} THEN count + 1 ELSE count
    BY DEF Update
  <2>3. p \notin T \ old
    <3> HIDE DEF p, old
    <3> QED
      BY <1>3, <1>4
  <2>4. CASE old = {}
    <3>1. U = T \cup {p} /\ p \notin T
      BY <2>3, <2>4
    <3> HIDE DEF p, old, U
    <3>2. IsFiniteSet(T \cup {p}) /\ Cardinality(T \cup {p}) = Cardinality(T) + 1
      BY <2>1, <3>1, FS_AddElement
    <3> QED
      BY <2>1, <2>2, <2>4, <3>1, <3>2
  <2>5. CASE old # {}
    <3>1. PICK q \in old : old = {q}
      <4> HIDE DEF old
      <4> QED
        BY <2>5, <1>4, <1>1 DEF Files
    <3>2. q \in T
      <4> HIDE DEF old
      <4> QED
        BY <1>4
    <3>3. IsFiniteSet(T \ {q}) /\ Cardinality(T \ {q}) = Cardinality(T) - 1
      BY <2>1, <3>2, FS_RemoveElement
    <3>4. p \notin T \ {q} /\ U = (T \ {q}) \cup {p}
      BY <2>3, <3>1
    <3> HIDE DEF p, old, U
    <3>5. IsFiniteSet(U) /\ Cardinality(U) = Cardinality(T \ {q}) + 1
      BY <3>3, <3>4, FS_AddElement
    <3> QED
      BY <2>1, <2>2, <2>5, <3>3, <3>5
  <2> QED
    BY <2>4, <2>5
<1>10. Files(U, bySession', byStream', count')
  <2> HIDE DEF U
  <2> QED
    BY <1>6, <1>7, <1>8, <1>9 DEF Files
<1>11. U = {q \in Tracked : ~(q.session = s /\ q.stream = st)} \cup {p}
  <2> HIDE DEF p, old
  <2> QED
    BY <1>1, <1>4, TrackedIs
<1>12. Leaves({q \in Tracked : ~(q.session = s /\ q.stream = st)} \cup {p})
  <2> HIDE DEF p, U
  <2> QED
    BY <1>10, <1>11, TrackedIs DEF Leaves
<1> QED
  BY <1>10, <1>12 DEF IndexInv

\* One presence for a session of the right node.
LEMMA EntryIs ==
    ASSUME NEW s \in Sessions, NEW st \in Streams, NEW h \in BOOLEAN, NEW n, n = NodeOf[s]
    PROVE  LET p == Entry(n, s, st, h)
           IN  /\ p \in Presence /\ p.node = NodeOf[p.session]
               /\ p.node = n /\ p.session = s /\ p.stream = st
               /\ IsFiniteSet({p})
BY TrackerConstants, FS_Singleton DEF Entry, Presence

\* Adding one presence (Track, onTrack).
LEMMA AddOneFiles ==
    ASSUME IndexInv, NEW s \in Sessions, NEW st \in Streams, NEW h \in BOOLEAN, NEW n,
           n = NodeOf[s],
           Keyed(bySession[s], n, st) = {},
           Insert({Entry(n, s, st, h)})
    PROVE  IndexInv' /\ Adds({Entry(n, s, st, h)})
<1> DEFINE p == Entry(n, s, st, h)
<1>1. /\ p \in Presence /\ p.node = NodeOf[p.session]
      /\ p.node = n /\ p.session = s /\ p.stream = st
      /\ IsFiniteSet({p})
  BY EntryIs
<1>2. Insert({p})
  OBVIOUS
<1> HIDE DEF p
<1>3. {p} \subseteq Presence /\ \A q \in {p} : q.node = NodeOf[q.session]
  BY <1>1
<1>4. \A q \in {p} : Keyed(bySession[q.session], q.node, q.stream) = {}
  BY <1>1
<1>5. IndexInv' /\ Adds({p})
  BY <1>1, <1>2, <1>3, <1>4, AddFiles
<1> QED
  BY <1>5 DEF p

\* The first presences of a session, one or two (TrackMulti in the connect
\* handler).
LEMMA TrackFirstFiles ==
    ASSUME IndexInv, NEW g \in Goroutines, NEW s \in LocalSessions, TrackFirst(g, s)
    PROVE  /\ IndexInv'
           /\ \E ps : Adds(ps) /\ \A x \in ps : x.session = s /\ x.node = Self
<1> DEFINE p == Entry(Self, s, Notifications, TRUE)
           q == Entry(Self, s, Status, FALSE)
<1>1. s \in Sessions /\ NodeOf[s] = Self
  BY DEF LocalSessions
<1>2. /\ p \in Presence /\ p.node = Self /\ p.session = s /\ p.stream = Notifications
      /\ q \in Presence /\ q.node = Self /\ q.session = s /\ q.stream = Status
  BY <1>1, TrackerConstants DEF Entry, Presence
<1>3. PICK ps \in {{p}, {p, q}} :
         Insert({x \in ps : Keyed(bySession[s], Self, x.stream) = {}})
  BY DEF TrackFirst
<1> HIDE DEF p, q
<1> DEFINE added == {x \in ps : Keyed(bySession[s], Self, x.stream) = {}}
<1>4. IsFiniteSet(added)
  <2>1. IsFiniteSet({p}) /\ IsFiniteSet({p} \cup {q})
    BY FS_Singleton, FS_AddElement
  <2>2. {p, q} = {p} \cup {q}
    OBVIOUS
  <2>3. IsFiniteSet(ps)
    BY <2>1, <2>2
  <2> QED
    BY <2>3, FS_Subset
<1>5. /\ added \subseteq Presence
      /\ \A x \in added : x.node = NodeOf[x.session] /\ x.session = s /\ x.node = Self
      /\ \A x \in added : Keyed(bySession[x.session], x.node, x.stream) = {}
  BY <1>1, <1>2
<1>6. \A x, y \in added : x.session = y.session /\ x.stream = y.stream => x = y
  BY <1>2, TrackerConstants
<1>7. Insert(added)
  BY <1>3
<1> HIDE DEF added
<1> QED
  BY <1>4, <1>5, <1>6, <1>7, AddFiles

\* A merge adds what another node sent and this node does not know.
LEMMA MergeFiles ==
    ASSUME IndexInv, NEW n \in Nodes, NEW ps \in Sent(n), MergeAdd(n, ps)
    PROVE  /\ IndexInv'
           /\ \E new : Adds(new) /\ \A p \in new : p.node = n /\ NodeOf[p.session] = n
<1> DEFINE added == {p \in ps : Keyed(bySession[p.session], n, p.stream) = {}}
<1>1. /\ ps \subseteq Presence /\ IsFiniteSet(ps)
      /\ \A p \in ps : p.node = n /\ NodeOf[p.session] = n
      /\ \A p, q \in ps : p.session = q.session /\ p.stream = q.stream => p = q
  BY DEF Sent
<1>2. IsFiniteSet(added)
  BY <1>1, FS_Subset
<1>3. /\ added \subseteq Presence
      /\ \A p \in added : p.node = NodeOf[p.session] /\ p.node = n
      /\ \A p, q \in added : p.session = q.session /\ p.stream = q.stream => p = q
      /\ \A p \in added : Keyed(bySession[p.session], p.node, p.stream) = {}
  BY <1>1
<1>4. Insert(added)
  BY DEF MergeAdd
<1> HIDE DEF added
<1> QED
  BY <1>2, <1>3, <1>4, AddFiles

\* Every step of the node keeps the indexes filed.
LEMMA IndexStep ==
    ASSUME IndexInv, [Next]_vars
    PROVE  IndexInv'
<1>1. ASSUME UNCHANGED indexVars PROVE IndexInv'
  BY <1>1 DEF indexVars, IndexInv
<1>2. ASSUME NEW s \in LocalSessions, LocalStep(s) PROVE IndexInv'
  <2>1. s \in Sessions /\ NodeOf[s] = Self
    BY DEF LocalSessions
  <2>2. CASE Register(s) \/ TrackFirstFails(s) \/ SingleSession(s) \/ Close(s)
    BY <1>1, <2>2 DEF Register, TrackFirstFails, SingleSession, Close
  <2>3. CASE \E t \in LocalSessions : Kick(s, t)
    BY <1>1, <2>3 DEF Kick
  <2>4. ASSUME NEW st \in Streams, Untrack(s, st) PROVE IndexInv'
    <3>1. Keyed(bySession[s], Self, st) \subseteq bySession[s]
      BY DEF Keyed
    <3> QED
      BY <2>1, <2>4, <3>1, RemoveFiles DEF Untrack
  <2>5. ASSUME NEW st \in Streams, UntrackLocalByModes(s, st) PROVE IndexInv'
    BY <2>1, <2>5, RemoveFiles DEF UntrackLocalByModes
  <2>6. ASSUME NEW g \in Goroutines, NEW st \in Streams, NEW h \in BOOLEAN, Track(g, s, st, h)
        PROVE  IndexInv'
    BY <2>1, <2>6, AddOneFiles DEF Track
  <2> QED
    BY <1>2, <2>2, <2>3, <2>4, <2>5, <2>6, TrackFirstFiles, UpdateFiles DEF LocalStep
<1>3. ASSUME NEW s \in LocalSessions, CloseStep(s) PROVE IndexInv'
  <2>1. s \in Sessions /\ NodeOf[s] = Self
    BY DEF LocalSessions
  <2>2. CASE CloseUntrack(s)
    BY <2>1, <2>2, UntrackAllFiles DEF CloseUntrack
  <2>3. CASE CloseRemove(s)
    BY <1>1, <2>3 DEF CloseRemove
  <2> QED
    BY <1>3, <2>2, <2>3 DEF CloseStep
<1>4. ASSUME NEW s \in RemoteSessions, RemoteStep(s) PROVE IndexInv'
  <2>1. s \in Sessions
    BY DEF RemoteSessions
  <2>2. CASE OnUntrackAll(s)
    BY <2>1, <2>2, UntrackAllFiles DEF OnUntrackAll
  <2>3. ASSUME NEW st \in Streams, NEW h \in BOOLEAN, OnTrack(s, st, h) PROVE IndexInv'
    BY <2>1, <2>3, AddOneFiles DEF OnTrack
  <2> QED
    BY <1>4, <2>2, <2>3 DEF RemoteStep
<1>5. ASSUME NEW n \in Nodes \ {Self}, NodeStep(n) PROVE IndexInv'
  <2>1. CASE ClearTrackByNode(n) \/ MergeClear(n)
    BY <2>1, ClearFiles DEF ClearTrackByNode, MergeClear
  <2> QED
    BY <1>5, <2>1, MergeFiles DEF NodeStep
<1>6. ASSUME NEW g \in Goroutines, QueueEvent(g) PROVE IndexInv'
  BY <1>1, <1>6 DEF QueueEvent
<1>7. CASE UNCHANGED vars
  BY <1>1, <1>7 DEF vars
<1> QED
  BY <1>2, <1>3, <1>4, <1>5, <1>6, <1>7, StreamFiles DEF Next
--------------------------------------------------------------------------------
\* The sessions and the goroutines that work for them.

\* SingleSession lists local sessions only, since a presence that carries this
\* node's name is of a session of this node.
LEMMA RestStep ==
    ASSUME RestType, IndexInv, [Next]_vars
    PROVE  RestType'
<1> USE DEF RestType, SessStages, ConnStages
<1>1. ASSUME NEW s \in LocalSessions, LocalStep(s) PROVE RestType'
  <2>1. s \in Sessions /\ NodeOf[s] = Self
    BY DEF LocalSessions
  <2>2. CASE Register(s)
    BY <2>2 DEF Register
  <2>3. CASE TrackFirstFails(s)
    BY <2>3 DEF TrackFirstFails
  <2>4. CASE SingleSession(s)
    <3>1. PICK T : Files(T, bySession, byStream, count)
      BY DEF IndexInv
    <3>2. \A p \in byStream[Notifications] : p.node = Self => p.session \in LocalSessions
      BY <3>1, Buckets, TrackerConstants DEF Files, OfStream, LocalSessions
    <3> DEFINE listed == IF SingleSocket
                 THEN {p.session : p \in {q \in byStream[Notifications] : q.node = Self}} \ {s}
                 ELSE {}
    <3>3. listed \subseteq LocalSessions
      BY <3>2
    <3>4. kick' = [kick EXCEPT ![s] = listed]
      BY <2>4 DEF SingleSession
    <3> HIDE DEF listed
    <3> QED
      BY <2>4, <3>3, <3>4 DEF SingleSession
  <2>5. CASE Close(s)
    BY <2>5 DEF Close, Cancelled
  <2>6. ASSUME NEW t \in LocalSessions, Kick(s, t) PROVE RestType'
    BY <2>6 DEF Kick, Cancelled
  <2>7. ASSUME NEW st \in Streams, Untrack(s, st) \/ UntrackLocalByModes(s, st)
        PROVE  RestType'
    BY <2>7 DEF Untrack, UntrackLocalByModes, sessVars
  <2>8. ASSUME NEW g \in Goroutines, TrackFirst(g, s) PROVE RestType'
    <3>1. \A st \in {Notifications, Status}, h \in BOOLEAN : Entry(Self, s, st, h) \in Presence
      BY <2>1, TrackerConstants DEF Entry, Presence
    <3>2. PICK ps \in SUBSET Presence : joining' = [joining EXCEPT ![g] = ps]
      BY <2>8, <3>1 DEF TrackFirst, Visible
    <3> QED
      BY <2>8, <3>2 DEF TrackFirst
  <2>9. ASSUME NEW g \in Goroutines, NEW st \in Streams, NEW h \in BOOLEAN,
               Track(g, s, st, h) \/ Update(g, s, st, h)
        PROVE  RestType'
    <3>1. Visible({Entry(Self, s, st, h)}) \subseteq Presence
      BY <2>1, TrackerConstants DEF Entry, Presence, Visible
    <3>2. joining' = [joining EXCEPT ![g] = Visible({Entry(Self, s, st, h)})]
      BY <2>9 DEF Track, Update
    <3>3. UNCHANGED <<sessVars, merging>>
      BY <2>9 DEF Track, Update
    <3> QED
      BY <3>1, <3>2, <3>3 DEF sessVars
  <2> QED
    BY <1>1, <2>2, <2>3, <2>4, <2>5, <2>6, <2>7, <2>8, <2>9 DEF LocalStep
<1>2. ASSUME NEW s \in LocalSessions, CloseStep(s) PROVE RestType'
  BY <1>2 DEF CloseStep, CloseUntrack, CloseRemove
<1>3. ASSUME NEW s \in RemoteSessions, RemoteStep(s) PROVE RestType'
  BY <1>3 DEF RemoteStep, OnUntrackAll, OnTrack, sessVars
<1>4. ASSUME NEW n \in Nodes \ {Self}, NodeStep(n) PROVE RestType'
  BY <1>4 DEF NodeStep, ClearTrackByNode, MergeClear, MergeAdd, sessVars
<1>5. ASSUME NEW st \in Streams, UntrackByStream(st) PROVE RestType'
  BY <1>5 DEF UntrackByStream, sessVars
<1>6. ASSUME NEW g \in Goroutines, QueueEvent(g) PROVE RestType'
  BY <1>6 DEF QueueEvent, sessVars
<1>7. CASE UNCHANGED vars
  BY <1>7 DEF vars, sessVars
<1> QED
  BY <1>1, <1>2, <1>3, <1>4, <1>5, <1>6, <1>7 DEF Next
--------------------------------------------------------------------------------
\* Closing a session.

\* A delete adds nothing to a session's bucket.
LEMMA DeletesShrink ==
    ASSUME NEW gone, NEW ss, NEW st, NEW s \in Sessions,
           Delete(gone) \/ DiscardSessions(gone, ss) \/ UntrackByStream(st),
           bySession[s] = {}
    PROVE  bySession'[s] = {}
BY DEF Delete, DiscardSessions, UntrackByStream, Drop

\* An insert leaves the buckets of other sessions alone.
LEMMA InsertElsewhere ==
    ASSUME NEW ps, NEW s \in Sessions, \A p \in ps : p.session # s, Insert(ps)
    PROVE  bySession'[s] = bySession[s]
BY DEF Insert, OfSession

\* Presences are only added to sessions that are open (getSession) or of
\* another node; the bucket of a closed session is empty and stays so.
LEMMA ClosedStep ==
    ASSUME RestType, IndexInv, ClosedUntracked, [Next]_vars
    PROVE  ClosedUntracked'
<1> DEFINE Closed(s) == sess[s] \in {"untracked", "gone"}
<1>1. ASSUME \A s \in LocalSessions : Closed(s)' => Closed(s),
             \A s \in LocalSessions : Closed(s) /\ bySession[s] = {} => bySession'[s] = {}
      PROVE  ClosedUntracked'
  BY <1>1 DEF ClosedUntracked, ClosedSessions
<1>2. LocalSessions \subseteq Sessions
  BY DEF LocalSessions
<1>3. ASSUME NEW s \in LocalSessions, LocalStep(s) PROVE ClosedUntracked'
  <2>1. CASE Register(s) \/ TrackFirstFails(s) \/ SingleSession(s) \/ Close(s)
    BY <1>1, <2>1 DEF Register, TrackFirstFails, SingleSession, Close, Cancelled, indexVars, RestType
  <2>2. ASSUME NEW t \in LocalSessions, Kick(s, t) PROVE ClosedUntracked'
    BY <1>1, <2>2 DEF Kick, Cancelled, indexVars, RestType
  <2>3. ASSUME NEW st \in Streams, Untrack(s, st) \/ UntrackLocalByModes(s, st)
        PROVE  ClosedUntracked'
    <3>1. PICK gone : Delete(gone)
      BY <2>3 DEF Untrack, UntrackLocalByModes
    <3>2. sess' = sess
      BY <2>3 DEF Untrack, UntrackLocalByModes, sessVars
    <3> QED
      BY <1>1, <1>2, <3>1, <3>2, DeletesShrink
  <2>4. ASSUME NEW g \in Goroutines, TrackFirst(g, s) PROVE ClosedUntracked'
    <3>1. PICK added : Insert(added) /\ \A p \in added : p.session = s
      BY <2>4 DEF TrackFirst, Entry
    <3>2. sess' = sess /\ sess[s] = "open"
      BY <2>4 DEF TrackFirst, GetSession
    <3>3. \A x \in LocalSessions : Closed(x) => \A p \in added : p.session # x
      BY <3>1, <3>2
    <3>4. \A x \in LocalSessions : Closed(x) => bySession'[x] = bySession[x]
      BY <1>2, <3>1, <3>3, InsertElsewhere
    <3> QED
      BY <1>1, <3>2, <3>4
  <2>5. ASSUME NEW g \in Goroutines, NEW st \in Streams, NEW h \in BOOLEAN, Track(g, s, st, h)
        PROVE  ClosedUntracked'
    <3>1. PICK added : Insert(added) /\ \A p \in added : p.session = s
      BY <2>5 DEF Track, Entry
    <3>2. sess' = sess /\ sess[s] = "open"
      BY <2>5 DEF Track, GetSession, sessVars
    <3>3. \A x \in LocalSessions : Closed(x) => \A p \in added : p.session # x
      BY <3>1, <3>2
    <3>4. \A x \in LocalSessions : Closed(x) => bySession'[x] = bySession[x]
      BY <1>2, <3>1, <3>3, InsertElsewhere
    <3> QED
      BY <1>1, <3>2, <3>4
  <2>6. ASSUME NEW g \in Goroutines, NEW st \in Streams, NEW h \in BOOLEAN, Update(g, s, st, h)
        PROVE  ClosedUntracked'
    <3>1. PICK bucket : bySession' = [bySession EXCEPT ![s] = bucket]
      BY <2>6 DEF Update
    <3>2. sess' = sess /\ sess[s] = "open"
      BY <2>6 DEF Update, GetSession, sessVars
    <3>3. bySession = [x \in Sessions |-> bySession[x]]
      BY DEF IndexInv, Files
    <3> QED
      BY <1>1, <1>2, <3>1, <3>2, <3>3
  <2> QED
    BY <1>3, <2>1, <2>2, <2>3, <2>4, <2>5, <2>6 DEF LocalStep
<1>4. ASSUME NEW s \in LocalSessions, CloseStep(s) PROVE ClosedUntracked'
  <2>1. s \in Sessions /\ NodeOf[s] = Self
    BY DEF LocalSessions
  <2>2. CASE CloseUntrack(s)
    <3>1. bySession'[s] = {}
      BY <2>1, <2>2, UntrackAllFiles DEF CloseUntrack
    <3>2. \A x \in LocalSessions : bySession[x] = {} => bySession'[x] = {}
      BY <1>2, <2>2, DeletesShrink DEF CloseUntrack, UntrackAll
    <3>3. \A x \in LocalSessions : x # s => sess'[x] = sess[x]
      BY <2>2 DEF CloseUntrack, RestType
    <3> QED
      BY <3>1, <3>2, <3>3 DEF ClosedUntracked, ClosedSessions
  <2>3. CASE CloseRemove(s)
    BY <1>1, <2>3 DEF CloseRemove, indexVars, RestType
  <2> QED
    BY <1>4, <2>2, <2>3 DEF CloseStep
<1>5. ASSUME NEW s \in RemoteSessions, RemoteStep(s) PROVE ClosedUntracked'
  <2>1. CASE OnUntrackAll(s)
    <3>1. PICK gone, ss : DiscardSessions(gone, ss)
      BY <2>1 DEF OnUntrackAll, UntrackAll
    <3>2. sess' = sess
      BY <2>1 DEF OnUntrackAll, sessVars
    <3> QED
      BY <1>1, <1>2, <3>1, <3>2, DeletesShrink
  <2>2. ASSUME NEW st \in Streams, NEW h \in BOOLEAN, OnTrack(s, st, h) PROVE ClosedUntracked'
    <3>1. PICK added : Insert(added) /\ \A p \in added : p.session = s
      BY <2>2 DEF OnTrack, Entry
    <3>2. sess' = sess
      BY <2>2 DEF OnTrack, sessVars
    <3>3. \A x \in LocalSessions : bySession'[x] = bySession[x]
      BY <1>2, <3>1, InsertElsewhere DEF RemoteSessions
    <3> QED
      BY <1>1, <3>2, <3>3
  <2> QED
    BY <1>5, <2>1, <2>2 DEF RemoteStep
<1>6. ASSUME NEW n \in Nodes \ {Self}, NodeStep(n) PROVE ClosedUntracked'
  <2>1. CASE ClearTrackByNode(n) \/ MergeClear(n)
    <3>1. PICK gone, ss : DiscardSessions(gone, ss)
      BY <2>1 DEF ClearTrackByNode, MergeClear, Clear
    <3>2. sess' = sess
      BY <2>1 DEF ClearTrackByNode, MergeClear, sessVars
    <3> QED
      BY <1>1, <1>2, <3>1, <3>2, DeletesShrink
  <2>2. ASSUME NEW ps \in Sent(n), MergeAdd(n, ps) PROVE ClosedUntracked'
    <3>1. PICK added : Insert(added) /\ \A p \in added : p.session \notin LocalSessions
      BY <2>2 DEF MergeAdd, Sent, LocalSessions
    <3>2. sess' = sess
      BY <2>2 DEF MergeAdd, sessVars
    <3>3. \A x \in LocalSessions : bySession'[x] = bySession[x]
      BY <1>2, <3>1, InsertElsewhere
    <3> QED
      BY <1>1, <3>2, <3>3
  <2> QED
    BY <1>6, <2>1, <2>2 DEF NodeStep
<1>7. ASSUME NEW st \in Streams, UntrackByStream(st) PROVE ClosedUntracked'
  <2>1. sess' = sess
    BY <1>7 DEF UntrackByStream, sessVars
  <2> QED
    BY <1>1, <1>2, <1>7, <2>1, DeletesShrink
<1>8. ASSUME NEW g \in Goroutines, QueueEvent(g) PROVE ClosedUntracked'
  BY <1>1, <1>8 DEF QueueEvent, indexVars, sessVars
<1>9. CASE UNCHANGED vars
  BY <1>1, <1>9 DEF vars, indexVars, sessVars
<1> QED
  BY <1>3, <1>4, <1>5, <1>6, <1>7, <1>8, <1>9 DEF Next

\* A context is only cancelled under the close lock, and a goroutine that has a
\* join event to queue holds that lock.
LEMMA JoinStep ==
    ASSUME RestType, NoJoinAfterClose, [Next]_vars
    PROVE  NoJoinAfterClose'
<1>1. ASSUME NEW s \in LocalSessions, LocalStep(s) PROVE NoJoinAfterClose'
  <2>1. CASE Register(s)
    BY <2>1 DEF Register, NoJoinAfterClose, RestType
  <2>2. CASE TrackFirstFails(s) \/ SingleSession(s)
    BY <2>2 DEF TrackFirstFails, SingleSession, NoJoinAfterClose
  <2>3. ASSUME NEW t \in LocalSessions, Kick(s, t) PROVE NoJoinAfterClose'
    BY <2>3 DEF Kick, Cancelled, CloseLocked, NoJoinAfterClose, RestType
  <2>4. CASE Close(s)
    BY <2>4 DEF Close, Cancelled, CloseLocked, NoJoinAfterClose, RestType
  <2>5. ASSUME NEW st \in Streams, Untrack(s, st) \/ UntrackLocalByModes(s, st)
        PROVE  NoJoinAfterClose'
    BY <2>5 DEF Untrack, UntrackLocalByModes, sessVars, NoJoinAfterClose
  <2>6. ASSUME NEW g \in Goroutines, TrackFirst(g, s) PROVE NoJoinAfterClose'
    <3>1. PICK first \in {{Entry(Self, s, Notifications, TRUE)},
                         {Entry(Self, s, Notifications, TRUE), Entry(Self, s, Status, FALSE)}} :
             joining' = [joining EXCEPT ![g] =
                Visible({p \in first : Keyed(bySession[s], Self, p.stream) = {}})]
      BY <2>6 DEF TrackFirst
    <3> DEFINE ps == Visible({p \in first : Keyed(bySession[s], Self, p.stream) = {}})
    <3>2. \A p \in ps : p.session = s
      BY DEF Visible, Entry
    <3>3. joining' = [joining EXCEPT ![g] = ps]
      BY <3>1
    <3> HIDE DEF ps
    <3>4. sess' = sess /\ sess[s] = "open"
      BY <2>6 DEF TrackFirst, GetSession
    <3> QED
      BY <3>2, <3>3, <3>4 DEF NoJoinAfterClose, RestType
  <2>7. ASSUME NEW g \in Goroutines, NEW st \in Streams, NEW h \in BOOLEAN,
               Track(g, s, st, h) \/ Update(g, s, st, h)
        PROVE  NoJoinAfterClose'
    <3>1. PICK ps : joining' = [joining EXCEPT ![g] = ps] /\ \A p \in ps : p.session = s
      BY <2>7 DEF Track, Update, Visible, Entry
    <3>2. sess' = sess /\ sess[s] = "open"
      BY <2>7 DEF Track, Update, GetSession, sessVars
    <3> QED
      BY <3>1, <3>2 DEF NoJoinAfterClose, RestType
  <2> QED
    BY <1>1, <2>1, <2>2, <2>3, <2>4, <2>5, <2>6, <2>7 DEF LocalStep
<1>2. ASSUME NEW s \in LocalSessions, CloseStep(s) PROVE NoJoinAfterClose'
  BY <1>2 DEF CloseStep, CloseUntrack, CloseRemove, NoJoinAfterClose, RestType
<1>3. ASSUME NEW s \in RemoteSessions, RemoteStep(s) PROVE NoJoinAfterClose'
  BY <1>3 DEF RemoteStep, OnUntrackAll, OnTrack, sessVars, NoJoinAfterClose
<1>4. ASSUME NEW n \in Nodes \ {Self}, NodeStep(n) PROVE NoJoinAfterClose'
  BY <1>4 DEF NodeStep, ClearTrackByNode, MergeClear, MergeAdd, sessVars, NoJoinAfterClose
<1>5. ASSUME NEW st \in Streams, UntrackByStream(st) PROVE NoJoinAfterClose'
  BY <1>5 DEF UntrackByStream, sessVars, NoJoinAfterClose
<1>6. ASSUME NEW g \in Goroutines, QueueEvent(g) PROVE NoJoinAfterClose'
  BY <1>6 DEF QueueEvent, sessVars, NoJoinAfterClose, RestType
<1>7. CASE UNCHANGED vars
  BY <1>7 DEF vars, sessVars, NoJoinAfterClose
<1> QED
  BY <1>1, <1>2, <1>3, <1>4, <1>5, <1>6, <1>7 DEF Next
\* A session is registered once: before that it is new.
LEMMA NewStep ==
    ASSUME RestType, NewAtFirst, [Next]_vars
    PROVE  NewAtFirst'
<1> USE DEF RestType, NewAtFirst
<1>1. ASSUME NEW s \in LocalSessions, LocalStep(s) PROVE NewAtFirst'
  <2>1. CASE Register(s) \/ TrackFirstFails(s) \/ SingleSession(s)
    BY <2>1 DEF Register, TrackFirstFails, SingleSession
  <2>2. CASE Close(s)
    BY <2>2 DEF Close, Cancelled
  <2>3. ASSUME NEW t \in LocalSessions, Kick(s, t) PROVE NewAtFirst'
    BY <2>3 DEF Kick, Cancelled
  <2>4. ASSUME NEW st \in Streams, Untrack(s, st) \/ UntrackLocalByModes(s, st)
        PROVE  NewAtFirst'
    BY <2>4 DEF Untrack, UntrackLocalByModes, sessVars
  <2>5. ASSUME NEW g \in Goroutines, TrackFirst(g, s) PROVE NewAtFirst'
    BY <2>5 DEF TrackFirst
  <2>6. ASSUME NEW g \in Goroutines, NEW st \in Streams, NEW h \in BOOLEAN,
               Track(g, s, st, h) \/ Update(g, s, st, h)
        PROVE  NewAtFirst'
    BY <2>6 DEF Track, Update, sessVars
  <2> QED
    BY <1>1, <2>1, <2>2, <2>3, <2>4, <2>5, <2>6 DEF LocalStep
<1>2. ASSUME NEW s \in LocalSessions, CloseStep(s) PROVE NewAtFirst'
  BY <1>2 DEF CloseStep, CloseUntrack, CloseRemove
<1>3. CASE UNCHANGED <<sess, conn>>
  BY <1>3
<1> QED
  BY <1>1, <1>2, <1>3
     DEF Next, RemoteStep, NodeStep, OnUntrackAll, OnTrack, ClearTrackByNode, MergeClear,
         MergeAdd, UntrackByStream, QueueEvent, sessVars, vars

TrackerInv == RestType /\ IndexInv /\ ClosedUntracked /\ NoJoinAfterClose /\ NewAtFirst
--------------------------------------------------------------------------------
\* The tracker is a set of presences: each operation, seen from outside.

\* What stays the same for PresenceSet when nothing is filed and nobody closed.
LEMMA Stutters ==
    ASSUME UNCHANGED indexVars, UNCHANGED ClosedSessions
    PROVE  UNCHANGED <<Tracked, count, ClosedSessions>>
BY DEF indexVars, Tracked

\* Sessions whose stage does not change, or not to closed, stay closed or not.
LEMMA ClosedSame ==
    ASSUME \A s \in LocalSessions :
              sess'[s] \in {"untracked", "gone"} <=> sess[s] \in {"untracked", "gone"}
    PROVE  UNCHANGED ClosedSessions
BY DEF ClosedSessions

\* A step that leaves certain presences changes PresenceSet to them.
LEMMA LeavesChanges ==
    ASSUME NEW now, Leaves(now)
    PROVE  PS!Changed(now)
<1>1. PS!Cardinality(now) = Cardinality(now)
  BY DEF PS!Cardinality, Cardinality
<1> QED
  BY <1>1 DEF Leaves, PS!Changed

\* Presences that a step adds for sessions of one node arrive.
LEMMA AddsArrive ==
    ASSUME NEW ps, Adds(ps), UNCHANGED ClosedSessions,
           \A p \in ps : p.session \notin ClosedSessions,
           \A p, q \in ps : p.node = q.node
    PROVE  PS!Arrive
<1>1. Tracked' = Tracked \cup ps /\ PS!Changed(Tracked \cup ps)
  BY LeavesChanges DEF Adds, Leaves
<1> DEFINE new == Tracked' \ Tracked
<1>2. new \subseteq ps /\ Tracked' = Tracked \cup new
  BY <1>1
<1>3. /\ \A p \in new : p.session \notin ClosedSessions
      /\ \A p, q \in new : p.node = q.node /\ (PS!SameKey(p, q) => p = q)
      /\ \A p \in new, q \in Tracked : ~PS!SameKey(p, q)
  BY <1>2 DEF Adds, PS!SameKey
<1>4. PS!Changed(Tracked \cup new)
  BY <1>1, <1>2
<1> QED
  BY <1>3, <1>4 DEF PS!Arrive

\* A presence that is updated arrives or takes the place of one with its key.
LEMMA UpdateRenews ==
    ASSUME IndexInv, RestType,
           NEW g \in Goroutines, NEW s \in LocalSessions, NEW st \in Streams, NEW h \in BOOLEAN,
           Update(g, s, st, h)
    PROVE  PS!Arrive \/ PS!Renew
<1> DEFINE p == Entry(Self, s, st, h)
           rest == {q \in Tracked : ~(q.session = s /\ q.stream = st)}
<1>1. s \in Sessions /\ NodeOf[s] = Self
  BY DEF LocalSessions
<1>2. p.node = Self /\ p.session = s /\ p.stream = st
  BY DEF Entry
<1>3. Leaves(rest \cup {p}) /\ Tracked' = rest \cup {p}
  BY UpdateFiles DEF Leaves
<1>4. UNCHANGED ClosedSessions /\ s \notin ClosedSessions
  BY ClosedSame DEF Update, GetSession, sessVars, ClosedSessions
<1> HIDE DEF p
<1>5. CASE rest = Tracked
  <2>1. Adds({p})
    BY <1>2, <1>3, <1>5 DEF Adds
  <2> QED
    BY <1>2, <1>4, <2>1, AddsArrive
<1>6. CASE rest # Tracked
  <2>1. PICK T : Files(T, bySession, byStream, count)
    BY DEF IndexInv
  <2>2. Tracked = T
    BY <2>1, TrackedIs
  <2>3. PICK old \in Tracked : old.session = s /\ old.stream = st
    BY <1>6
  <2>4. rest = Tracked \ {old} /\ old.node = Self
    BY <1>1, <2>1, <2>2, <2>3 DEF Files
  <2>5. PS!Changed((Tracked \ {old}) \cup {p}) /\ p \in Tracked'
    BY <1>3, <2>4, LeavesChanges
  <2>6. PS!SameKey(old, p) /\ old.node = p.node /\ p.session \notin ClosedSessions
    BY <1>2, <1>4, <2>3, <2>4 DEF PS!SameKey
  <2> QED
    BY <1>4, <2>5, <2>6 DEF PS!Renew
<1> QED
  BY <1>5, <1>6

\* Every step of the node is a step of PresenceSet, or changes nothing there.
LEMMA PresenceStep ==
    ASSUME TrackerInv, [Next]_vars
    PROVE  [PS!Next]_<<Tracked, count, ClosedSessions>>
<1>1. RestType /\ IndexInv /\ NewAtFirst
  BY DEF TrackerInv
<1>2. ASSUME UNCHANGED indexVars, UNCHANGED ClosedSessions
      PROVE  [PS!Next]_<<Tracked, count, ClosedSessions>>
  BY <1>2, Stutters
<1>3. ASSUME sess' = sess PROVE UNCHANGED ClosedSessions
  BY <1>3 DEF ClosedSessions
<1>4. PICK T : Files(T, bySession, byStream, count) /\ Tracked = T
  BY <1>1, TrackedIs DEF IndexInv
<1>5. /\ \A s \in Sessions : bySession[s] = {p \in Tracked : p.session = s}
      /\ \A p \in Tracked : p.stream \in Streams /\ p.node = NodeOf[p.session]
  BY <1>4, Buckets DEF OfSession, Files
<1>6. ASSUME NEW s \in LocalSessions, LocalStep(s)
      PROVE  [PS!Next]_<<Tracked, count, ClosedSessions>>
  <2>1. s \in Sessions /\ NodeOf[s] = Self
    BY DEF LocalSessions
  <2>2. CASE Register(s)
    <3>1. UNCHANGED ClosedSessions
      BY <1>1, <2>2, ClosedSame DEF Register, RestType, NewAtFirst
    <3> QED
      BY <1>2, <2>2, <3>1 DEF Register
  <2>3. CASE TrackFirstFails(s) \/ SingleSession(s)
    BY <1>2, <1>3, <2>3 DEF TrackFirstFails, SingleSession
  <2>4. CASE Close(s)
    <3>1. UNCHANGED ClosedSessions
      BY <1>1, <2>4, ClosedSame DEF Close, Cancelled, RestType
    <3> QED
      BY <1>2, <2>4, <3>1 DEF Close
  <2>5. ASSUME NEW t \in LocalSessions, Kick(s, t)
        PROVE  [PS!Next]_<<Tracked, count, ClosedSessions>>
    <3>1. UNCHANGED ClosedSessions
      BY <1>1, <2>5, ClosedSame DEF Kick, Cancelled, RestType
    <3> QED
      BY <1>2, <2>5, <3>1 DEF Kick
  <2>6. ASSUME NEW st \in Streams, Untrack(s, st)
        PROVE  PS!Leave(s, {st})
    <3> DEFINE gone == Keyed(bySession[s], Self, st)
    <3>1. gone \subseteq bySession[s] /\ Delete(gone)
      BY <2>6 DEF Keyed, Untrack
    <3>2. Tracked \ gone = {p \in Tracked : p.session # s \/ p.stream \notin {st}}
      BY <1>5, <2>1 DEF Keyed
    <3> HIDE DEF gone
    <3>3. Leaves(Tracked \ gone)
      BY <1>1, <2>1, <3>1, RemoveFiles
    <3>4. UNCHANGED ClosedSessions
      BY <1>3, <2>6 DEF Untrack, sessVars
    <3> QED
      BY <3>2, <3>3, <3>4, LeavesChanges DEF PS!Leave
  <2>7. ASSUME NEW st \in Streams, UntrackLocalByModes(s, st)
        PROVE  PS!Leave(s, SingleStreams \ {st})
    <3> DEFINE gone == {p \in bySession[s] : p.stream \in SingleStreams \ {st}}
    <3>1. gone \subseteq bySession[s] /\ Delete(gone)
      BY <2>7 DEF UntrackLocalByModes
    <3>2. Tracked \ gone = {p \in Tracked : p.session # s \/ p.stream \notin SingleStreams \ {st}}
      BY <1>5, <2>1
    <3> HIDE DEF gone
    <3>3. Leaves(Tracked \ gone)
      BY <1>1, <2>1, <3>1, RemoveFiles
    <3>4. UNCHANGED ClosedSessions
      BY <1>3, <2>7 DEF UntrackLocalByModes, sessVars
    <3> QED
      BY <3>2, <3>3, <3>4, LeavesChanges DEF PS!Leave
  <2>8. ASSUME NEW g \in Goroutines, TrackFirst(g, s)
        PROVE  PS!Arrive
    <3>1. PICK ps : Adds(ps) /\ \A p \in ps : p.session = s /\ p.node = Self
      BY <1>1, <2>8, TrackFirstFiles
    <3>2. UNCHANGED ClosedSessions /\ s \notin ClosedSessions
      BY <1>3, <2>8 DEF TrackFirst, GetSession, ClosedSessions
    <3> QED
      BY <3>1, <3>2, AddsArrive
  <2>9. ASSUME NEW g \in Goroutines, NEW st \in Streams, NEW h \in BOOLEAN, Track(g, s, st, h)
        PROVE  PS!Arrive
    <3>1. Adds({Entry(Self, s, st, h)})
      BY <1>1, <2>1, <2>9, AddOneFiles DEF Track
    <3>2. UNCHANGED ClosedSessions /\ s \notin ClosedSessions
      BY <1>3, <2>9 DEF Track, GetSession, sessVars, ClosedSessions
    <3>3. Entry(Self, s, st, h).session = s
      BY DEF Entry
    <3> QED
      BY <3>1, <3>2, <3>3, AddsArrive
  <2>10. ASSUME NEW g \in Goroutines, NEW st \in Streams, NEW h \in BOOLEAN, Update(g, s, st, h)
         PROVE  PS!Arrive \/ PS!Renew
    BY <1>1, <2>10, UpdateRenews
  <2>11. \A st \in Streams : {st} \in SUBSET Streams /\ SingleStreams \ {st} \in SUBSET Streams
    BY TrackerConstants
  <2> QED
    BY <1>6, <2>1, <2>2, <2>3, <2>4, <2>5, <2>6, <2>7, <2>8, <2>9, <2>10, <2>11
       DEF LocalStep, PS!Next
<1>7. ASSUME NEW s \in LocalSessions, CloseStep(s)
      PROVE  [PS!Next]_<<Tracked, count, ClosedSessions>>
  <2>1. s \in Sessions /\ NodeOf[s] = Self
    BY DEF LocalSessions
  <2>2. CASE CloseUntrack(s)
    <3>1. Leaves({p \in Tracked : p.session # s})
      BY <1>1, <2>1, <2>2, UntrackAllFiles DEF CloseUntrack
    <3>2. ClosedSessions' = ClosedSessions \cup {s}
      BY <1>1, <2>2 DEF CloseUntrack, RestType, ClosedSessions
    <3>3. PS!Close(s)
      BY <3>1, <3>2, LeavesChanges DEF PS!Close
    <3> QED
      BY <2>1, <3>3 DEF PS!Next
  <2>3. CASE CloseRemove(s)
    <3>1. UNCHANGED ClosedSessions
      BY <1>1, <2>3, ClosedSame DEF CloseRemove, RestType
    <3> QED
      BY <1>2, <2>3, <3>1 DEF CloseRemove
  <2> QED
    BY <1>7, <2>2, <2>3 DEF CloseStep
<1>8. ASSUME NEW s \in RemoteSessions, RemoteStep(s)
      PROVE  [PS!Next]_<<Tracked, count, ClosedSessions>>
  <2>1. s \in Sessions /\ s \notin ClosedSessions
    BY DEF RemoteSessions, ClosedSessions
  <2>2. UNCHANGED ClosedSessions
    BY <1>3, <1>8 DEF RemoteStep, OnUntrackAll, OnTrack, sessVars
  <2>3. CASE OnUntrackAll(s)
    <3>1. Leaves({p \in Tracked : p.session # s})
      BY <1>1, <2>1, <2>3, UntrackAllFiles DEF OnUntrackAll
    <3>2. {p \in Tracked : p.session # s} = {p \in Tracked : p.session # s \/ p.stream \notin Streams}
      BY <1>5
    <3>3. PS!Leave(s, Streams)
      BY <2>2, <3>1, <3>2, LeavesChanges DEF PS!Leave
    <3> QED
      BY <2>1, <3>3 DEF PS!Next
  <2>4. ASSUME NEW st \in Streams, NEW h \in BOOLEAN, OnTrack(s, st, h)
        PROVE  PS!Arrive
    <3>1. Adds({Entry(NodeOf[s], s, st, h)})
      BY <1>1, <2>1, <2>4, AddOneFiles DEF OnTrack
    <3>2. Entry(NodeOf[s], s, st, h).session = s
      BY DEF Entry
    <3> QED
      BY <2>1, <2>2, <3>1, <3>2, AddsArrive
  <2> QED
    BY <1>8, <2>3, <2>4 DEF RemoteStep, PS!Next
<1>9. ASSUME NEW n \in Nodes \ {Self}, NodeStep(n)
      PROVE  [PS!Next]_<<Tracked, count, ClosedSessions>>
  <2>1. UNCHANGED ClosedSessions
    BY <1>3, <1>9 DEF NodeStep, ClearTrackByNode, MergeClear, MergeAdd, sessVars
  <2>2. CASE ClearTrackByNode(n) \/ MergeClear(n)
    <3>1. Leaves({p \in Tracked : p.node # n})
      BY <1>1, <2>2, ClearFiles DEF ClearTrackByNode, MergeClear
    <3>2. PS!Lose(n)
      BY <2>1, <3>1, LeavesChanges DEF PS!Lose
    <3> QED
      BY <3>2 DEF PS!Next
  <2>3. ASSUME NEW ps \in Sent(n), MergeAdd(n, ps)
        PROVE  PS!Arrive
    <3>1. PICK new : Adds(new) /\ \A p \in new : p.node = n /\ NodeOf[p.session] = n
      BY <1>1, <2>3, MergeFiles
    <3>2. \A p \in new : p.session \notin ClosedSessions
      BY <3>1 DEF ClosedSessions, LocalSessions
    <3> QED
      BY <2>1, <3>1, <3>2, AddsArrive
  <2> QED
    BY <1>9, <2>2, <2>3 DEF NodeStep, PS!Next
<1>10. ASSUME NEW st \in Streams, UntrackByStream(st)
       PROVE  [PS!Next]_<<Tracked, count, ClosedSessions>>
  <2>1. Leaves({p \in Tracked : p.stream # st})
    BY <1>1, <1>10, StreamFiles
  <2>2. UNCHANGED ClosedSessions
    BY <1>3, <1>10 DEF UntrackByStream, sessVars
  <2>3. PS!Empty(st)
    BY <2>1, <2>2, LeavesChanges DEF PS!Empty
  <2> QED
    BY <2>3 DEF PS!Next
<1>11. ASSUME NEW g \in Goroutines, QueueEvent(g)
       PROVE  [PS!Next]_<<Tracked, count, ClosedSessions>>
  BY <1>2, <1>3, <1>11 DEF QueueEvent, sessVars
<1>12. CASE UNCHANGED vars
  BY <1>2, <1>3, <1>12 DEF vars, sessVars
<1> QED
  BY <1>6, <1>7, <1>8, <1>9, <1>10, <1>11, <1>12 DEF Next
--------------------------------------------------------------------------------
\* The theorems.

\* TrackerInv is inductive, so every reachable state of the node satisfies it.
THEOREM TrackerInvariant == Spec => []TrackerInv
<1>1. Init => TrackerInv
  <2> SUFFICES ASSUME Init PROVE TrackerInv
    OBVIOUS
  <2>1. RestType
    <3>1. born \in Seq(LocalSessions)
      BY DEF Init
    <3>2. conn \in [LocalSessions -> ConnStages] /\ sess \in [LocalSessions -> SessStages]
      BY DEF Init, SessStages, ConnStages
    <3> QED
      BY <3>1, <3>2 DEF Init, RestType
  <2>2. Files({}, bySession, byStream, count)
    BY FS_EmptySet DEF Init, Files, OfSession, OfStream
  <2>3. ClosedUntracked /\ NoJoinAfterClose /\ NewAtFirst
    BY DEF Init, ClosedUntracked, ClosedSessions, NoJoinAfterClose, NewAtFirst
  <2> QED
    BY <2>1, <2>2, <2>3 DEF TrackerInv, IndexInv
<1>2. TrackerInv /\ [Next]_vars => TrackerInv'
  BY RestStep, IndexStep, ClosedStep, JoinStep, NewStep DEF TrackerInv
<1> QED
  BY <1>1, <1>2, PTL DEF Spec

\* Types: presences are filed under their own session and stream, and
\* SingleSession only lists sessions of this node.
THEOREM TypeCorrect == Spec => []TypeOK
<1>1. TrackerInv => TypeOK
  <2> SUFFICES ASSUME TrackerInv PROVE TypeOK
    OBVIOUS
  <2>1. PICK T : Files(T, bySession, byStream, count)
    BY DEF TrackerInv, IndexInv
  <2>2. /\ bySession = [s \in Sessions |-> OfSession(T, s)]
        /\ byStream = [st \in Streams |-> OfStream(T, st)]
        /\ T \subseteq Presence
    BY <2>1 DEF Files
  <2>3. count \in Int
    BY <2>1, FS_CardinalityType DEF Files
  <2> QED
    BY <2>2, <2>3 DEF TrackerInv, RestType, TypeOK, OfSession, OfStream
<1> QED
  BY <1>1, TrackerInvariant, PTL

\* The two indexes of the tracker hold the same presences, one per key.
THEOREM IndexesAlwaysAgree == Spec => []IndexesAgree
<1>1. TrackerInv => IndexesAgree
  <2> SUFFICES ASSUME TrackerInv PROVE IndexesAgree
    OBVIOUS
  <2>1. PICK T : Files(T, bySession, byStream, count)
    BY DEF TrackerInv, IndexInv
  <2>2. \A p \in Presence : p \in bySession[p.session] <=> p \in byStream[p.stream]
    BY <2>1, Buckets DEF Presence, OfSession, OfStream
  <2>3. \A s \in Sessions : \A p, q \in bySession[s] : p.stream = q.stream => p = q
    BY <2>1, Buckets DEF Files
  <2> QED
    BY <2>2, <2>3 DEF IndexesAgree
<1> QED
  BY <1>1, TrackerInvariant, PTL

\* The count the tracker reports is the number of presences it holds.
THEOREM CountAlwaysExact == Spec => []CountExact
<1>1. TrackerInv => CountExact
  <2> SUFFICES ASSUME TrackerInv PROVE CountExact
    OBVIOUS
  <2>1. PICK T : Files(T, bySession, byStream, count)
    BY DEF TrackerInv, IndexInv
  <2>2. Tracked = T
    BY <2>1, Buckets DEF Tracked
  <2> QED
    BY <2>1, <2>2 DEF CountExact, Files
<1> QED
  BY <1>1, TrackerInvariant, PTL

\* A session whose Close has untracked it never has a presence again.
THEOREM ClosedAlwaysUntracked == Spec => []ClosedUntracked
<1>1. TrackerInv => ClosedUntracked
  BY DEF TrackerInv
<1> QED
  BY <1>1, TrackerInvariant, PTL

\* No join event is queued for a session whose Close has begun.
THEOREM NeverJoinAfterClose == Spec => []NoJoinAfterClose
<1>1. TrackerInv => NoJoinAfterClose
  BY DEF TrackerInv
<1> QED
  BY <1>1, TrackerInvariant, PTL

\* The tracker implements PresenceSet: whatever connects, requests, closes, peer
\* logs and merges interleave, it behaves as one set of presences with its size.
THEOREM TrackerIsPresenceSet == Spec => OnePresenceSet
<1>1. Init => PS!Init
  BY DEF Init, PS!Init, Tracked, ClosedSessions
<1>2. TrackerInv /\ [Next]_vars => [PS!Next]_<<Tracked, count, ClosedSessions>>
  BY PresenceStep
<1> QED
  BY <1>1, <1>2, TrackerInvariant, PTL DEF Spec, OnePresenceSet, PS!Spec
================================================================================
