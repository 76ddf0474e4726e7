----------------------------- MODULE PartyProofs ------------------------------
(***************************************************************************)
(* Proofs about PartyHandler, for every number of sessions and every size  *)
(* of the party.                                                           *)
(***************************************************************************)
EXTENDS PartyHandler, FiniteSetTheorems, SequenceLemmas

\* Taking an element out of a sequence leaves a sequence over the same set (the
\* copy-and-truncate idiom of joinRequests and presences).
LEMMA WithoutType ==
    ASSUME NEW S, NEW q \in Seq(S), NEW x
    PROVE  Without(q, x) \in Seq(S)
<1>1. CASE x \in ToSet(q)
  <2> DEFINE k == CHOOSE i \in DOMAIN q : q[i] = x
  <2>1. k \in 1..Len(q)
    BY <1>1 DEF ToSet
  <2> HIDE DEF k
  <2>2. RemoveAt(q, k) \in Seq(S)
    BY <2>1, RemoveAtPlaces
  <2> QED
    BY <1>1, <2>2 DEF Without, k
<1>2. CASE x \notin ToSet(q)
  BY <1>2 DEF Without
<1> QED
  BY <1>1, <1>2

-------------------------------------------------------------------------------
\* The inductive invariant.

\* Control points at which a goroutine's call names a session.
ArgPCs == TrackPCs \cup QueueJoinPCs \cup QueueLeavePCs
          \cup {"join_tickets", "remove_tickets", "accept_release", "accept_join",
                "remove_leave", "remove_untrack"}

ArgNamed == \A th \in Threads : pc[th] \in ArgPCs => arg[th] \in Sessions

\* Types, with the sessions the running calls are about.
TypeInv == TypeOK /\ ArgNamed
-------------------------------------------------------------------------------
\* What the operators of the member list, the event queue and the goroutines'
\* control return.

\* Where a call goes on after its track, its join event or its tickets.
LEMMA Tables ==
    /\ \A p \in TrackPCs : AfterTracked[p] \in QueueJoinPCs
    /\ \A p \in TrackPCs \cup QueueJoinPCs : AfterTrack[p] \in {"idle", "accept_join"}
    /\ \A p \in TrackPCs : AfterTrackFailed[p] \in {"idle", "accept_release"}
    /\ \A p \in TicketPCs : AfterTickets[p] \in {"idle", "join_track", "remove_leave"}
    /\ \A p \in StopPCs : AfterStop[p] \in StopPCs \cup {"idle"}
  BY DEF TrackPCs, QueueJoinPCs, TicketPCs, StopPCs, AfterTracked, AfterTrack,
         AfterTrackFailed, AfterTickets, AfterStop

\* A goroutine moves on; the others stay where they are.
LEMMA GotoType ==
    ASSUME TypeOK, NEW th \in Threads, NEW l \in PCs, Goto(th, l)
    PROVE  /\ pc' \in [Threads -> PCs]
           /\ pc'[th] = l
           /\ \A u \in Threads \ {th} : pc'[u] = pc[u]
  BY DEF TypeOK, Goto

\* PartyPresenceList.Join keeps the types.
LEMMA ListJoinType ==
    ASSUME TypeOK, NEW s \in Sessions, ListJoin(s)
    PROVE  /\ presences' \in Seq(Sessions)
           /\ presenceMap' \in SUBSET Sessions
           /\ reserved' \in SUBSET Sessions
  BY DEF TypeOK, ListJoin

\* PartyPresenceList.Leave keeps the types.
LEMMA ListLeaveType ==
    ASSUME TypeOK, NEW s \in Sessions, ListLeave(s)
    PROVE  /\ presences' \in Seq(Sessions)
           /\ presenceMap' \in SUBSET Sessions
           /\ reserved' \in SUBSET Sessions
<1>1. Without(presences, s) \in Seq(Sessions)
  BY WithoutType DEF TypeOK
<1> QED
  BY <1>1 DEF TypeOK, ListLeave

\* Queueing an event, or draining the queue, leaves a queue of events.
LEMMA QueuedType ==
    ASSUME TypeOK, NEW e \in Event
    PROVE  Queued(e) \in Seq(Event)
  BY DEF TypeOK, Queued

\* The oldest other member, if there is one, is a session.
LEMMA OldestType ==
    ASSUME TypeOK, NEW s \in Sessions
    PROVE  OldestWithout(s) \in Sessions \cup {NoSession}
<1> DEFINE rest == Without(presences, s)
<1>1. rest \in Seq(Sessions)
  BY WithoutType DEF TypeOK
<1> HIDE DEF rest
<1>2. rest # << >> => Head(rest) \in Sessions
  BY <1>1
<1> QED
  BY <1>2 DEF OldestWithout, rest
-------------------------------------------------------------------------------
\* Types.

\* The types hold at the start.
LEMMA InitType == Init => TypeInv
<1> SUFFICES ASSUME Init PROVE TypeInv
  OBVIOUS
<1> USE PartyConstants DEF Init
<1>1. pc \in [Threads -> PCs]
  BY DEF Threads, PCs, TrackPCs
<1>2. arg \in [Threads -> Sessions \cup {NoSession}]
  BY DEF Threads
<1>3. joinRequests \in Seq(Sessions) /\ presences \in Seq(Sessions) /\ events \in Seq(Event)
  OBVIOUS
<1>4. snap \in [Threads -> SUBSET Sessions]
  OBVIOUS
<1>5. ArgNamed
  BY DEF ArgNamed, ArgPCs, TrackPCs, QueueJoinPCs, QueueLeavePCs, Threads
<1> QED
  BY <1>1, <1>2, <1>3, <1>4, <1>5 DEF TypeOK, TypeInv

\* Client requests keep the types.
LEMMA RequestType ==
    ASSUME TypeInv, NEW s \in Sessions, SessionRequest(s)
    PROVE  TypeInv'
<1> USE PartyConstants DEF TypeInv, ArgNamed, partyVars, listVars, mmVars, trackVars, threadVars
<1> s \in Threads
  BY DEF Threads
<1> USE DEF Request, PCs, ArgPCs, TrackPCs, QueueJoinPCs, QueueLeavePCs, TicketPCs, StopPCs
<1>1. CASE JoinRequestOpen(s)
  BY <1>1, ListJoinType DEF JoinRequestOpen, Goto, TypeOK
<1>2. CASE JoinRequestClosed(s)
  BY <1>2 DEF JoinRequestClosed, Goto, TypeOK
<1>3. CASE PartyLeave(s)
  BY <1>3 DEF PartyLeave, Goto, TypeOK
<1>4. CASE Close(s)
  BY <1>4 DEF Close, Goto, TypeOK
<1>5. CASE MatchmakerAdd(s)
  <2>1. ToSet(presences) \in SUBSET Sessions
    BY DEF TypeOK, ToSet
  <2> QED
    BY <1>5, <2>1 DEF MatchmakerAdd, Goto, TypeOK
<1>6. CASE MatchmakerRemove(s)
  BY <1>6 DEF MatchmakerRemove, Goto, TypeOK
<1>7. ASSUME NEW t \in Sessions, Promote(s, t) PROVE TypeInv'
  BY <1>7 DEF Promote, Goto, TypeOK
<1>8. ASSUME NEW t \in Sessions, Accept(s, t) PROVE TypeInv'
  BY <1>8, WithoutType DEF Accept, Goto, TypeOK, Reserve
<1>9. ASSUME NEW t \in Sessions, RemoveMember(s, t) PROVE TypeInv'
  BY <1>9 DEF RemoveMember, Goto, TypeOK
<1>10. ASSUME NEW t \in Sessions, RejectRequest(s, t) PROVE TypeInv'
  BY <1>10, WithoutType DEF RejectRequest, Goto, TypeOK
<1> QED
  BY <1>1, <1>2, <1>3, <1>4, <1>5, <1>6, <1>7, <1>8, <1>9, <1>10 DEF SessionRequest

\* The steps of a call keep the types.
LEMMA ThreadType ==
    ASSUME TypeInv, NEW th \in Threads, ThreadStep(th)
    PROVE  TypeInv'
<1> USE PartyConstants DEF TypeInv, ArgNamed, partyVars, listVars, mmVars, trackVars, threadVars
<1> USE DEF PCs, ArgPCs, TrackPCs, QueueJoinPCs, QueueLeavePCs, TicketPCs, StopPCs
<1>1. CASE TrackSucceeds(th)
  BY <1>1, Tables DEF TrackSucceeds, Goto, TypeOK
<1>2. CASE TrackFails(th)
  BY <1>2, Tables DEF TrackFails, Goto, TypeOK
<1>3. CASE QueueJoin(th)
  <2>1. Joined(arg[th]) \in Event
    BY <1>3 DEF QueueJoin, Joined, Event
  <2>2. events' \in Seq(Event)
    BY <1>3, <2>1, QueuedType DEF QueueJoin
  <2> QED
    BY <1>3, <2>2, Tables DEF QueueJoin, Goto, TypeOK
<1>4. CASE QueueLeave(th)
  <2>1. Left(arg[th]) \in Event
    BY <1>4 DEF QueueLeave, Left, Event
  <2>2. events' \in Seq(Event)
    BY <1>4, <2>1, QueuedType DEF QueueLeave
  <2> QED
    BY <1>4, <2>2 DEF QueueLeave, Goto, TypeOK
<1>5. CASE RemoveTickets(th)
  <2>1. pc[th] = "accept_tickets" \/ pc[th] = "hook_tickets" => AfterTickets[pc[th]] = "idle"
    BY DEF AfterTickets
  <2> QED
    BY <1>5, <2>1, Tables DEF RemoveTickets, RemovePartyAll, Goto, TypeOK
<1>6. CASE AcceptRelease(th)
  BY <1>6 DEF AcceptRelease, Release, Goto, TypeOK
<1>7. CASE AcceptJoin(th)
  <2>1. presences' \in Seq(Sessions) /\ presenceMap' \in SUBSET Sessions
        /\ reserved' \in SUBSET Sessions
    BY <1>7, ListJoinType DEF AcceptJoin, TypeOK
  <2> QED
    BY <1>7, <2>1 DEF AcceptJoin, Goto, TypeOK
<1>8. CASE RemoveLeave(th)
  <2>1. presences' \in Seq(Sessions) /\ presenceMap' \in SUBSET Sessions
        /\ reserved' \in SUBSET Sessions
    BY <1>8, ListLeaveType DEF RemoveLeave
  <2> QED
    BY <1>8, <2>1 DEF RemoveLeave, Goto, TypeOK
<1>9. CASE RemoveUntrack(th)
  BY <1>9 DEF RemoveUntrack, Goto, TypeOK
<1>10. CASE MatchmakerTicket(th)
  BY <1>10 DEF MatchmakerTicket, Goto, TypeOK
<1>11. CASE MatchmakerRemoveTicket(th)
  BY <1>11 DEF MatchmakerRemoveTicket, Goto, TypeOK
<1>12. CASE StopStep(th)
  BY <1>12, Tables DEF StopStep, Goto, TypeOK
<1> QED
  BY <1>1, <1>2, <1>3, <1>4, <1>5, <1>6, <1>7, <1>8, <1>9, <1>10, <1>11, <1>12
  DEF ThreadStep

\* The hooks keep the types.
LEMMA EventType ==
    ASSUME TypeInv, ProcessEvent
    PROVE  TypeInv'
<1> USE PartyConstants DEF TypeInv, ArgNamed, partyVars, listVars, mmVars, trackVars, threadVars
<1> DEFINE s == Head(events).session
<1>1. /\ Head(events) \in Event
      /\ events' \in Seq(Event)
  BY DEF ProcessEvent, TypeOK
<1>2. s \in Sessions
  BY <1>1 DEF Event
<1>5. EventLoop \in Threads
  BY DEF Threads
<1> HIDE DEF s
<1>3. CASE JoinHook(s)
  <2>1. presences' \in Seq(Sessions) /\ presenceMap' \in SUBSET Sessions
        /\ reserved' \in SUBSET Sessions
    BY <1>2, <1>3, ListJoinType DEF JoinHook, TypeOK
  <2> QED
    BY <1>1, <1>2, <1>3, <2>1 DEF ProcessEvent, JoinHook, TypeOK
<1>4. CASE LeaveHook(s)
  <2>1. presences' \in Seq(Sessions) /\ presenceMap' \in SUBSET Sessions
        /\ reserved' \in SUBSET Sessions
    BY <1>2, <1>4, ListLeaveType DEF LeaveHook, TypeOK
  <2>2. leader' \in Sessions \cup {NoSession}
    BY <1>2, <1>4, OldestType DEF LeaveHook, TypeOK
  <2>3. stopped' \in BOOLEAN
    BY <1>4 DEF LeaveHook, TypeOK
  <2>4. \/ pc' = pc
        \/ pc' = [pc EXCEPT ![EventLoop] = "stop_cancel"]
        \/ pc' = [pc EXCEPT ![EventLoop] = "hook_tickets"]
    BY <1>4 DEF LeaveHook, Goto
  <2>5. pc' \in [Threads -> PCs]
    BY <1>5, <2>4 DEF TypeOK, PCs, TicketPCs, StopPCs
  <2>6. ArgNamed'
    BY <1>5, <2>4 DEF ProcessEvent, TypeOK, ArgPCs, TrackPCs, QueueJoinPCs, QueueLeavePCs
  <2> QED
    BY <1>1, <1>4, <2>1, <2>2, <2>3, <2>5, <2>6 DEF ProcessEvent, LeaveHook, TypeOK
<1> QED
  BY <1>3, <1>4 DEF ProcessEvent, s

\* Closing a session keeps the types.
LEMMA CloseType ==
    ASSUME TypeInv, NEW s \in Sessions, CloseSession(s) \/ CloseStep(s)
    PROVE  TypeInv'
<1> USE PartyConstants DEF TypeInv, ArgNamed, partyVars, listVars, mmVars, trackVars, threadVars
<1>1. CASE CloseSession(s)
  BY <1>1 DEF CloseSession, TypeOK
<1>2. CASE CloseTickets(s)
  BY <1>2 DEF CloseTickets, TypeOK
<1>3. CASE CloseUntrack(s)
  BY <1>3 DEF CloseUntrack, TypeOK
<1>4. CASE CloseQueue(s)
  <2>1. Left(s) \in Event
    BY DEF Left, Event
  <2>2. events' \in Seq(Event)
    BY <1>4, <2>1, QueuedType DEF CloseQueue
  <2> QED
    BY <1>4, <2>2 DEF CloseQueue, TypeOK
<1> QED
  BY <1>1, <1>2, <1>3, <1>4 DEF CloseStep

\* Every step keeps the types.
LEMMA TypeStep == TypeInv /\ [Next]_vars => TypeInv'
<1> SUFFICES ASSUME TypeInv, [Next]_vars PROVE TypeInv'
  OBVIOUS
<1> USE DEF TypeInv, ArgNamed, partyVars, listVars, mmVars, trackVars, threadVars
<1>1. CASE UNCHANGED vars
  BY <1>1 DEF vars, TypeOK
<1>2. CASE TicketMatched
  BY <1>2 DEF TicketMatched, TypeOK
<1> QED
  BY <1>1, <1>2, RequestType, ThreadType, EventType, CloseType DEF Next, Done

\* Every variable of the party model stays in its domain, and a goroutine inside
\* a call about a session has that session at hand, in every behaviour.
THEOREM TypeCorrect == Spec => []TypeOK
<1>1. Spec => []TypeInv
  BY InitType, TypeStep, PTL DEF Spec
<1>2. TypeInv => TypeOK
  BY DEF TypeInv
<1> QED
  BY <1>1, <1>2, PTL

-------------------------------------------------------------------------------
\* The size of the party.

SizeInv ==
    /\ IsFiniteSet(presenceMap)
    /\ IsFiniteSet(reserved)
    /\ SizeBound

\* A reservation is made only if it fits.
LEMMA ReserveSize ==
    ASSUME SizeInv, NEW s, Reserve(s)
    PROVE  SizeInv'
<1>1. /\ IsFiniteSet(reserved \cup {s})
      /\ Cardinality(reserved \cup {s}) =
           IF s \in reserved THEN Cardinality(reserved) ELSE Cardinality(reserved) + 1
  BY FS_AddElement DEF SizeInv
<1>2. Cardinality(presenceMap) \in Nat /\ Cardinality(reserved) \in Nat
  BY FS_CardinalityType DEF SizeInv
<1> QED
  BY <1>1, <1>2, PartyConstants DEF SizeInv, SizeBound, Size, Reserve

\* Releasing a reservation makes room.
LEMMA ReleaseSize ==
    ASSUME SizeInv, NEW s, Release(s)
    PROVE  SizeInv'
<1>1. /\ IsFiniteSet(reserved \ {s})
      /\ Cardinality(reserved \ {s}) =
           IF s \in reserved THEN Cardinality(reserved) - 1 ELSE Cardinality(reserved)
  BY FS_RemoveElement DEF SizeInv
<1>2. Cardinality(presenceMap) \in Nat /\ Cardinality(reserved) \in Nat
  BY FS_CardinalityType DEF SizeInv
<1> QED
  BY <1>1, <1>2, PartyConstants DEF SizeInv, SizeBound, Release

\* A join that fits keeps the bound: a reservation pays for its own membership.
LEMMA ListJoinSize ==
    ASSUME SizeInv, NEW s, JoinFits(s), ListJoin(s)
    PROVE  SizeInv'
<1>1. /\ IsFiniteSet(reserved \ {s})
      /\ Cardinality(reserved \ {s}) =
           IF s \in reserved THEN Cardinality(reserved) - 1 ELSE Cardinality(reserved)
  BY FS_RemoveElement DEF SizeInv
<1>2. /\ IsFiniteSet(presenceMap \cup {s})
      /\ Cardinality(presenceMap \cup {s}) =
           IF s \in presenceMap THEN Cardinality(presenceMap) ELSE Cardinality(presenceMap) + 1
  BY FS_AddElement DEF SizeInv
<1>3. Cardinality(presenceMap) \in Nat /\ Cardinality(reserved) \in Nat
  BY FS_CardinalityType DEF SizeInv
<1> QED
  BY <1>1, <1>2, <1>3, PartyConstants DEF SizeInv, SizeBound, Size, JoinFits, ListJoin

\* Leaving makes room.
LEMMA ListLeaveSize ==
    ASSUME SizeInv, NEW s, ListLeave(s)
    PROVE  SizeInv'
<1>1. /\ IsFiniteSet(reserved \ {s})
      /\ Cardinality(reserved \ {s}) =
           IF s \in reserved THEN Cardinality(reserved) - 1 ELSE Cardinality(reserved)
  BY FS_RemoveElement DEF SizeInv
<1>2. /\ IsFiniteSet(presenceMap \ {s})
      /\ Cardinality(presenceMap \ {s}) =
           IF s \in presenceMap THEN Cardinality(presenceMap) - 1 ELSE Cardinality(presenceMap)
  BY FS_RemoveElement DEF SizeInv
<1>3. Cardinality(presenceMap) \in Nat /\ Cardinality(reserved) \in Nat
  BY FS_CardinalityType DEF SizeInv
<1> QED
  BY <1>1, <1>2, <1>3, PartyConstants DEF SizeInv, SizeBound, ListLeave

\* Without a change of the list nothing changes about its size.
LEMMA ListSame ==
    ASSUME SizeInv, UNCHANGED listVars
    PROVE  SizeInv'
  BY DEF SizeInv, SizeBound, listVars

\* Every step keeps the size within MaxSize.
LEMMA SizeStep == TypeInv /\ SizeInv /\ [Next]_vars => SizeInv'
<1> SUFFICES ASSUME TypeInv, SizeInv, [Next]_vars PROVE SizeInv'
  OBVIOUS
<1>1. ASSUME NEW s \in Sessions, SessionRequest(s) PROVE SizeInv'
  <2>1. CASE JoinRequestOpen(s)
    BY <2>1, ListJoinSize DEF JoinRequestOpen
  <2>2. ASSUME NEW t \in Sessions, Accept(s, t) PROVE SizeInv'
    BY <2>2, ReserveSize DEF Accept
  <2>3. CASE \/ JoinRequestClosed(s) \/ PartyLeave(s) \/ Close(s) \/ MatchmakerAdd(s)
             \/ MatchmakerRemove(s)
    BY <2>3, ListSame DEF JoinRequestClosed, PartyLeave, Close, MatchmakerAdd, MatchmakerRemove
  <2>4. ASSUME NEW t \in Sessions, Promote(s, t) \/ RemoveMember(s, t) \/ RejectRequest(s, t)
        PROVE SizeInv'
    BY <2>4, ListSame DEF Promote, RemoveMember, RejectRequest
  <2> QED
    BY <1>1, <2>1, <2>2, <2>3, <2>4 DEF SessionRequest
<1>2. ASSUME NEW th \in Threads, ThreadStep(th) PROVE SizeInv'
  <2>1. CASE AcceptRelease(th)
    BY <2>1, ReleaseSize DEF AcceptRelease
  <2>2. CASE AcceptJoin(th)
    BY <2>2, ListJoinSize, ListSame DEF AcceptJoin
  <2>3. CASE RemoveLeave(th)
    BY <2>3, ListLeaveSize DEF RemoveLeave
  <2>4. CASE \/ TrackSucceeds(th) \/ TrackFails(th) \/ QueueJoin(th) \/ QueueLeave(th)
             \/ RemoveTickets(th) \/ RemoveUntrack(th)
    BY <2>4, ListSame DEF TrackSucceeds, TrackFails, QueueJoin, QueueLeave, RemoveTickets,
       RemoveUntrack
  <2>5. CASE MatchmakerTicket(th) \/ MatchmakerRemoveTicket(th) \/ StopStep(th)
    BY <2>5, ListSame DEF MatchmakerTicket, MatchmakerRemoveTicket, StopStep
  <2> QED
    BY <1>2, <2>1, <2>2, <2>3, <2>4, <2>5 DEF ThreadStep
<1>3. CASE ProcessEvent
  <2>1. ASSUME NEW s, JoinHook(s) PROVE SizeInv'
    BY <2>1, ListJoinSize, ListSame DEF JoinHook, listVars
  <2>2. ASSUME NEW s, LeaveHook(s) PROVE SizeInv'
    BY <2>2, ListLeaveSize, ListSame DEF LeaveHook
  <2> QED
    BY <1>3, <2>1, <2>2 DEF ProcessEvent
<1>4. ASSUME NEW s \in Sessions, CloseSession(s) \/ CloseStep(s) PROVE SizeInv'
  BY <1>4, ListSame DEF CloseSession, CloseStep, CloseTickets, CloseUntrack, CloseQueue
<1>5. CASE TicketMatched \/ UNCHANGED vars
  BY <1>5, ListSame DEF TicketMatched, vars
<1> QED
  BY <1>1, <1>2, <1>3, <1>4, <1>5 DEF Next, Done

\* Members and reserved slots never exceed the maximum size, for any number of
\* sessions, any maximum size and any interleaving of requests, hooks and
\* closing sessions.
THEOREM SizeBounded == Spec => []SizeBound
<1>1. Init => SizeInv
  BY FS_EmptySet, PartyConstants DEF Init, SizeInv, SizeBound
<1>2. Spec => [](TypeInv /\ SizeInv)
  BY <1>1, InitType, TypeStep, SizeStep, PTL DEF Spec
<1>3. SizeInv => SizeBound
  BY DEF SizeInv
<1> QED
  BY <1>2, <1>3, PTL

-------------------------------------------------------------------------------
\* Reservations.

\* What one goroutine's step must respect for its reservation to stay owned:
\* only the owner leaves the control points of Accept, and when it does the
\* reservation is gone.
LEMMA OwnerKept ==
    ASSUME TypeInv, NoLeakedReservation, NEW th \in Threads,
           \A u \in Threads \ {th} : pc'[u] = pc[u] /\ arg'[u] = arg[u],
           reserved' \subseteq reserved,
           pc[th] \in AcceptPCs =>
             \/ pc'[th] \in AcceptPCs /\ arg'[th] = arg[th]
             \/ arg[th] \notin reserved'
    PROVE  NoLeakedReservation'
<1> SUFFICES ASSUME NEW s \in reserved'
             PROVE  \E u \in Threads : pc'[u] \in AcceptPCs /\ arg'[u] = s
  BY DEF NoLeakedReservation
<1>1. PICK u \in Threads : pc[u] \in AcceptPCs /\ arg[u] = s
  BY DEF NoLeakedReservation
<1>2. CASE u = th
  BY <1>1, <1>2
<1>3. CASE u # th
  BY <1>1, <1>3
<1> QED
  BY <1>2, <1>3

\* Every step keeps each reservation with a call that will settle it.
LEMMA ReservationStep == TypeInv /\ NoLeakedReservation /\ [Next]_vars => NoLeakedReservation'
<1> SUFFICES ASSUME TypeInv, NoLeakedReservation, [Next]_vars PROVE NoLeakedReservation'
  OBVIOUS
<1> USE DEF partyVars, listVars, mmVars, trackVars, threadVars
<1>0. TypeOK /\ ArgNamed
  BY DEF TypeInv
<1>1. ASSUME NEW s \in Sessions, SessionRequest(s) PROVE NoLeakedReservation'
  <2>0. s \in Threads /\ pc[s] = "idle" /\ "idle" \notin AcceptPCs
    BY <1>1 DEF Threads, AcceptPCs, SessionRequest, Request, JoinRequestOpen, JoinRequestClosed,
       PartyLeave, Close, MatchmakerAdd, MatchmakerRemove, Promote, Accept, RemoveMember,
       RejectRequest
  <2>1. CASE JoinRequestOpen(s)
    BY <1>0, <2>0, <2>1, OwnerKept DEF JoinRequestOpen, ListJoin, Goto, TypeOK
  <2>2. ASSUME NEW t \in Sessions, Accept(s, t) PROVE NoLeakedReservation'
    <3>1. /\ pc'[s] \in AcceptPCs /\ arg'[s] = t
          /\ \A u \in Threads \ {s} : pc'[u] = pc[u] /\ arg'[u] = arg[u]
          /\ reserved' = reserved \cup {t}
      BY <1>0, <2>0, <2>2 DEF Accept, Reserve, Goto, TypeOK, AcceptPCs
    <3> QED
      BY <2>0, <3>1 DEF NoLeakedReservation
  <2>3. CASE \/ JoinRequestClosed(s) \/ PartyLeave(s) \/ Close(s) \/ MatchmakerAdd(s)
             \/ MatchmakerRemove(s)
    <3>1. /\ \A u \in Threads \ {s} : pc'[u] = pc[u] /\ arg'[u] = arg[u]
          /\ reserved' = reserved
      BY <1>0, <2>0, <2>3 DEF JoinRequestClosed, PartyLeave, Close, MatchmakerAdd,
         MatchmakerRemove, Goto, TypeOK
    <3> QED
      BY <2>0, <3>1, OwnerKept
  <2>4. ASSUME NEW t \in Sessions, Promote(s, t) \/ RemoveMember(s, t) \/ RejectRequest(s, t)
        PROVE NoLeakedReservation'
    <3>1. /\ \A u \in Threads \ {s} : pc'[u] = pc[u] /\ arg'[u] = arg[u]
          /\ reserved' = reserved
      BY <1>0, <2>0, <2>4 DEF Promote, RemoveMember, RejectRequest, Goto, TypeOK
    <3> QED
      BY <2>0, <3>1, OwnerKept
  <2> QED
    BY <1>1, <2>1, <2>2, <2>3, <2>4 DEF SessionRequest
<1>2. ASSUME NEW th \in Threads, ThreadStep(th) PROVE NoLeakedReservation'
  <2>0. /\ \A u \in Threads \ {th} : pc'[u] = pc[u] /\ arg'[u] = arg[u]
        /\ arg'[th] = arg[th]
    BY <1>0, <1>2 DEF ThreadStep, TrackSucceeds, TrackFails, QueueJoin, QueueLeave, RemoveTickets,
       AcceptRelease, AcceptJoin, RemoveLeave, RemoveUntrack, MatchmakerTicket,
       MatchmakerRemoveTicket, StopStep, Goto, TypeOK
  <2>1. CASE AcceptRelease(th)
    BY <1>0, <2>0, <2>1, OwnerKept DEF AcceptRelease, Release
  <2>2. CASE AcceptJoin(th)
    <3>1. reserved' \subseteq reserved /\ arg[th] \notin reserved'
      BY <2>2 DEF AcceptJoin, ListJoin, JoinFits
    <3> QED
      BY <2>0, <3>1, OwnerKept
  <2>3. CASE RemoveLeave(th)
    BY <2>0, <2>3, OwnerKept DEF RemoveLeave, ListLeave, AcceptPCs
  <2>4. CASE \/ TrackSucceeds(th) \/ TrackFails(th) \/ QueueJoin(th)
    <3>1. reserved' = reserved
      BY <2>4 DEF TrackSucceeds, TrackFails, QueueJoin
    <3>2. pc[th] \in AcceptPCs => pc'[th] \in AcceptPCs
      BY <1>0, <2>4 DEF TrackSucceeds, TrackFails, QueueJoin, Goto, TypeOK, AcceptPCs, TrackPCs,
         QueueJoinPCs, AfterTracked, AfterTrack, AfterTrackFailed
    <3> QED
      BY <2>0, <3>1, <3>2, OwnerKept
  <2>5. CASE \/ QueueLeave(th) \/ RemoveTickets(th) \/ RemoveUntrack(th)
             \/ MatchmakerTicket(th) \/ MatchmakerRemoveTicket(th) \/ StopStep(th)
    <3>1. reserved' = reserved /\ pc[th] \notin AcceptPCs
      BY <2>5 DEF QueueLeave, RemoveTickets, RemoveUntrack, MatchmakerTicket,
         MatchmakerRemoveTicket, StopStep, AcceptPCs, QueueLeavePCs, TicketPCs, StopPCs
    <3> QED
      BY <2>0, <3>1, OwnerKept
  <2> QED
    BY <1>2, <2>1, <2>2, <2>3, <2>4, <2>5 DEF ThreadStep
<1>3. CASE ProcessEvent
  <2>1. EventLoop \in Threads /\ pc[EventLoop] \notin AcceptPCs
    BY <1>3 DEF Threads, ProcessEvent, AcceptPCs
  <2>2. /\ reserved' \subseteq reserved
        /\ \A u \in Threads \ {EventLoop} : pc'[u] = pc[u] /\ arg'[u] = arg[u]
    BY <1>0, <1>3, <2>1 DEF ProcessEvent, JoinHook, LeaveHook, ListJoin, ListLeave, Goto, TypeOK
  <2> QED
    BY <2>1, <2>2, OwnerKept
<1>4. ASSUME NEW s \in Sessions, CloseSession(s) \/ CloseStep(s) PROVE NoLeakedReservation'
  BY <1>4 DEF CloseSession, CloseStep, CloseTickets, CloseUntrack, CloseQueue, NoLeakedReservation
<1>5. CASE TicketMatched \/ UNCHANGED vars
  BY <1>5 DEF TicketMatched, vars, NoLeakedReservation
<1> QED
  BY <1>1, <1>2, <1>3, <1>4, <1>5 DEF Next, Done

\* No reserved slot is ever orphaned, for any number of sessions and overlapping
\* Accepts.
THEOREM ReservationsOwned == Spec => []NoLeakedReservation
<1>1. Init => NoLeakedReservation
  BY DEF Init, NoLeakedReservation
<1>2. Spec => [](TypeInv /\ NoLeakedReservation)
  BY <1>1, InitType, TypeStep, ReservationStep, PTL DEF Spec
<1> QED
  BY <1>2, PTL

-------------------------------------------------------------------------------
\* Stopping.

\* One goroutine at most runs stop(); from its second step on the context is
\* cancelled; when it is through, the context is cancelled and no ticket is left.
StopInv ==
    /\ \A th \in Threads : pc[th] \in StopPCs => stopped
    /\ \A a, b \in Threads : pc[a] \in StopPCs /\ pc[b] \in StopPCs => a = b
    /\ \A th \in Threads : pc[th] \in StopPCs \ {"stop_cancel"} => cancelled
    /\ stopped /\ (\A th \in Threads : pc[th] \notin StopPCs) => cancelled /\ tickets = {}

\* A step outside stop() that adds no ticket once the context is cancelled.
LEMMA QuietStep ==
    ASSUME StopInv,
           stopped' = stopped, cancelled' = cancelled,
           cancelled => tickets' \subseteq tickets,
           \A u \in Threads : pc[u] \in StopPCs \/ pc'[u] \in StopPCs => pc'[u] = pc[u]
    PROVE  StopInv'
<1>1. \A u \in Threads : pc'[u] \in StopPCs <=> pc[u] \in StopPCs
  OBVIOUS
<1> QED
  BY <1>1 DEF StopInv

\* The step that stops a running party.
LEMMA StoppingStep ==
    ASSUME StopInv, ~stopped, stopped', NEW th \in Threads, pc'[th] = "stop_cancel",
           \A u \in Threads \ {th} : pc'[u] = pc[u]
    PROVE  StopInv'
<1>1. "stop_cancel" \in StopPCs
  BY DEF StopPCs
<1>2. \A u \in Threads : pc[u] \notin StopPCs
  BY DEF StopInv
<1> QED
  BY <1>1, <1>2 DEF StopInv

\* The order of the steps of stop.
LEMMA StopTable ==
    /\ AfterStop["stop_cancel"] = "stop_delete"
    /\ AfterStop["stop_delete"] = "stop_untrack"
    /\ AfterStop["stop_untrack"] = "stop_tickets"
    /\ AfterStop["stop_tickets"] = "idle"
  BY DEF AfterStop

\* Every step keeps StopInv.
LEMMA StopInvStep == TypeInv /\ StopInv /\ [Next]_vars => StopInv'
<1> SUFFICES ASSUME TypeInv, StopInv, [Next]_vars PROVE StopInv'
  OBVIOUS
<1> USE DEF partyVars, listVars, mmVars, trackVars, threadVars
<1>0. TypeOK
  BY DEF TypeInv
<1>1. ASSUME NEW s \in Sessions, SessionRequest(s) PROVE StopInv'
  <2>0. s \in Threads /\ pc[s] = "idle" /\ "idle" \notin StopPCs
    BY <1>1 DEF Threads, StopPCs, SessionRequest, Request, JoinRequestOpen, JoinRequestClosed,
       PartyLeave, Close, MatchmakerAdd, MatchmakerRemove, Promote, Accept, RemoveMember,
       RejectRequest
  <2>1. CASE Close(s)
    BY <1>0, <2>0, <2>1, StoppingStep DEF Close, Running, Goto, TypeOK
  <2>2. CASE \/ JoinRequestOpen(s) \/ JoinRequestClosed(s) \/ PartyLeave(s) \/ MatchmakerAdd(s)
             \/ MatchmakerRemove(s)
    <3>1. /\ stopped' = stopped /\ cancelled' = cancelled /\ tickets' = tickets
          /\ \A u \in Threads \ {s} : pc'[u] = pc[u]
          /\ pc'[s] \notin StopPCs
      BY <1>0, <2>0, <2>2 DEF JoinRequestOpen, JoinRequestClosed, PartyLeave, MatchmakerAdd,
         MatchmakerRemove, Goto, TypeOK, StopPCs
    <3> QED
      BY <2>0, <3>1, QuietStep
  <2>3. ASSUME NEW t \in Sessions,
               Promote(s, t) \/ Accept(s, t) \/ RemoveMember(s, t) \/ RejectRequest(s, t)
        PROVE StopInv'
    <3>1. /\ stopped' = stopped /\ cancelled' = cancelled /\ tickets' = tickets
          /\ \A u \in Threads \ {s} : pc'[u] = pc[u]
          /\ pc'[s] \notin StopPCs
      BY <1>0, <2>0, <2>3 DEF Promote, Accept, RemoveMember, RejectRequest, Goto, TypeOK, StopPCs
    <3> QED
      BY <2>0, <3>1, QuietStep
  <2> QED
    BY <1>1, <2>1, <2>2, <2>3 DEF SessionRequest
<1>2. ASSUME NEW th \in Threads, ThreadStep(th) PROVE StopInv'
  <2>0. \A u \in Threads \ {th} : pc'[u] = pc[u]
    BY <1>0, <1>2 DEF ThreadStep, TrackSucceeds, TrackFails, QueueJoin, QueueLeave, RemoveTickets,
       AcceptRelease, AcceptJoin, RemoveLeave, RemoveUntrack, MatchmakerTicket,
       MatchmakerRemoveTicket, StopStep, Goto, TypeOK
  <2>1. CASE \/ TrackSucceeds(th) \/ TrackFails(th) \/ QueueJoin(th) \/ QueueLeave(th)
             \/ RemoveTickets(th)
    <3>1. pc[th] \notin StopPCs /\ pc'[th] \notin StopPCs
      BY <1>0, <2>1, Tables DEF TrackSucceeds, TrackFails, QueueJoin, QueueLeave, RemoveTickets,
         Goto, TypeOK, StopPCs, TrackPCs, QueueJoinPCs, QueueLeavePCs, TicketPCs
    <3>2. stopped' = stopped /\ cancelled' = cancelled /\ tickets' \subseteq tickets
      BY <2>1 DEF TrackSucceeds, TrackFails, QueueJoin, QueueLeave, RemoveTickets, RemovePartyAll
    <3> QED
      BY <2>0, <3>1, <3>2, QuietStep
  <2>2. CASE \/ AcceptRelease(th) \/ AcceptJoin(th) \/ RemoveLeave(th) \/ RemoveUntrack(th)
             \/ MatchmakerTicket(th) \/ MatchmakerRemoveTicket(th)
    <3>1. pc[th] \notin StopPCs /\ pc'[th] \notin StopPCs
      BY <1>0, <2>2 DEF AcceptRelease, AcceptJoin, RemoveLeave, RemoveUntrack,
         MatchmakerTicket, MatchmakerRemoveTicket, Goto, TypeOK, StopPCs
    <3>2. /\ stopped' = stopped /\ cancelled' = cancelled
          /\ cancelled => tickets' \subseteq tickets
      BY <2>2 DEF AcceptRelease, AcceptJoin, RemoveLeave, RemoveUntrack, MatchmakerTicket,
         MatchmakerRemoveTicket, TicketAllowed
    <3> QED
      BY <2>0, <3>1, <3>2, QuietStep
  <2>3. CASE StopStep(th)
    <3>1. /\ pc[th] \in StopPCs /\ stopped' = stopped /\ stopped
          /\ pc'[th] = AfterStop[pc[th]]
          /\ \A u \in Threads \ {th} : pc'[u] = pc[u] /\ pc[u] \notin StopPCs
      BY <1>0, <2>0, <2>3 DEF StopStep, StopInv, Goto, TypeOK
    <3>2. CASE pc[th] = "stop_cancel"
      <4>1. cancelled' /\ pc'[th] \in StopPCs
        BY <2>3, <3>1, <3>2, StopTable DEF StopStep, StopPCs
      <4> QED
        BY <3>1, <4>1 DEF StopInv
    <3>3. CASE pc[th] = "stop_tickets"
      <4>1. cancelled' /\ tickets' = {} /\ pc'[th] = "idle"
        BY <2>3, <3>1, <3>3, StopTable DEF StopStep, StopInv, StopPCs
      <4> QED
        BY <3>1, <4>1 DEF StopInv, StopPCs
    <3>4. CASE pc[th] \in {"stop_delete", "stop_untrack"}
      <4>1. cancelled' /\ pc'[th] \in StopPCs
        BY <2>3, <3>1, <3>4, StopTable DEF StopStep, StopInv, StopPCs
      <4> QED
        BY <3>1, <4>1 DEF StopInv
    <3> QED
      BY <3>1, <3>2, <3>3, <3>4 DEF StopPCs
  <2> QED
    BY <1>2, <2>1, <2>2, <2>3 DEF ThreadStep
<1>3. CASE ProcessEvent
  <2>0. /\ EventLoop \in Threads /\ pc[EventLoop] = "idle" /\ "idle" \notin StopPCs
        /\ cancelled' = cancelled /\ tickets' = tickets
    BY <1>3 DEF Threads, ProcessEvent, StopPCs
  <2>1. \/ stopped' = stopped /\ pc' = pc
        \/ /\ ~stopped /\ ~stopped' /\ pc' = [pc EXCEPT ![EventLoop] = "hook_tickets"]
        \/ /\ ~stopped /\ stopped' /\ pc' = [pc EXCEPT ![EventLoop] = "stop_cancel"]
    BY <1>3 DEF ProcessEvent, JoinHook, LeaveHook, Running, Goto
  <2>2. CASE stopped' = stopped /\ pc' = pc
    BY <2>0, <2>2, QuietStep
  <2>3. CASE ~stopped /\ ~stopped' /\ pc' = [pc EXCEPT ![EventLoop] = "hook_tickets"]
    BY <1>0, <2>0, <2>3 DEF StopInv, StopPCs, TypeOK
  <2>4. CASE ~stopped /\ stopped' /\ pc' = [pc EXCEPT ![EventLoop] = "stop_cancel"]
    BY <1>0, <2>0, <2>4, StoppingStep DEF TypeOK
  <2> QED
    BY <2>1, <2>2, <2>3, <2>4
<1>4. ASSUME NEW s \in Sessions, CloseSession(s) \/ CloseStep(s) PROVE StopInv'
  BY <1>4, QuietStep DEF CloseSession, CloseStep, CloseTickets, CloseUntrack, CloseQueue
<1>5. CASE TicketMatched \/ UNCHANGED vars
  BY <1>5, QuietStep DEF TicketMatched, vars
<1> QED
  BY <1>1, <1>2, <1>3, <1>4, <1>5 DEF Next, Done

\* A party whose stop() is through has no ticket in the matchmaker, however
\* MatchmakerAdd and stop() overlapped.
THEOREM TicketsGone == Spec => []TicketsDieWithParty
<1>1. Init => StopInv
  BY DEF Init, StopInv, StopPCs
<1>2. Spec => [](TypeInv /\ StopInv)
  BY <1>1, InitType, TypeStep, StopInvStep, PTL DEF Spec
<1>3. StopInv => TicketsDieWithParty
  BY DEF StopInv, TicketsDieWithParty
<1> QED
  BY <1>2, <1>3, PTL
-------------------------------------------------------------------------------
\* The member list.

\* Each element of the sequence is there once.
Once(q) == \A i, j \in 1..Len(q) : q[i] = q[j] => i = j

\* Where the elements of a sequence are after one has been taken out.
LEMMA WithoutPlaces ==
    ASSUME NEW S, NEW q \in Seq(S), NEW x \in ToSet(q)
    PROVE  \E k \in 1..Len(q) :
             /\ q[k] = x
             /\ Len(Without(q, x)) = Len(q) - 1
             /\ \A i \in 1..Len(q) - 1 :
                   Without(q, x)[i] = IF i < k THEN q[i] ELSE q[i + 1]
<1> DEFINE k == CHOOSE i \in DOMAIN q : q[i] = x
<1>1. k \in 1..Len(q) /\ q[k] = x
  BY DEF ToSet
<1>2. Without(q, x) = RemoveAt(q, k)
  BY DEF Without
<1> HIDE DEF k
<1> QED
  BY <1>1, <1>2, RemoveAtPlaces

\* Taking out an element that is there once takes it out of the set.
LEMMA WithoutSet ==
    ASSUME NEW S, NEW q \in Seq(S), NEW x \in ToSet(q), Once(q)
    PROVE  /\ ToSet(Without(q, x)) = ToSet(q) \ {x}
           /\ Once(Without(q, x))
           /\ Len(Without(q, x)) = Len(q) - 1
<1> DEFINE w == Without(q, x)
<1>1. PICK k \in 1..Len(q) :
         /\ q[k] = x
         /\ Len(w) = Len(q) - 1
         /\ \A i \in 1..Len(q) - 1 : w[i] = IF i < k THEN q[i] ELSE q[i + 1]
  BY WithoutPlaces
<1>2. w \in Seq(S)
  BY WithoutType
<1> HIDE DEF w
<1>3. Len(q) \in Nat /\ k \in Nat
  OBVIOUS
<1>4. \A y : y \in ToSet(q) <=> \E i \in 1..Len(q) : q[i] = y
  BY DEF ToSet
<1>5. \A y : y \in ToSet(w) <=> \E i \in 1..Len(q) - 1 : w[i] = y
  BY <1>1, <1>2 DEF ToSet
<1>6. ASSUME NEW y \in ToSet(w) PROVE y \in ToSet(q) \ {x}
  <2>1. PICK i \in 1..Len(q) - 1 : w[i] = y
    BY <1>5, <1>6
  <2>2. PICK j \in 1..Len(q) : j # k /\ q[j] = y
    <3>1. CASE i < k
      BY <1>1, <1>3, <2>1, <3>1
    <3>2. CASE ~(i < k)
      <4>1. i + 1 \in 1..Len(q) /\ i + 1 # k
        BY <1>3, <3>2
      <4> QED
        BY <1>1, <2>1, <3>2, <4>1
    <3> QED
      BY <3>1, <3>2
  <2> QED
    BY <1>1, <1>4, <2>2 DEF Once
<1>7. ASSUME NEW y \in ToSet(q) \ {x} PROVE y \in ToSet(w)
  <2>1. PICK j \in 1..Len(q) : q[j] = y
    BY <1>4
  <2>2. j # k
    BY <1>1, <2>1
  <2>3. CASE j < k
    BY <1>1, <1>3, <1>5, <2>1, <2>3
  <2>4. CASE j > k
    <3>1. j - 1 \in 1..Len(q) - 1 /\ ~(j - 1 < k) /\ (j - 1) + 1 = j
      BY <1>3, <2>4
    <3>2. w[j - 1] = y
      BY <1>1, <2>1, <3>1
    <3> QED
      BY <1>5, <3>1, <3>2
  <2> QED
    BY <1>3, <2>2, <2>3, <2>4
<1>8. Once(w)
  <2> SUFFICES ASSUME NEW i \in 1..Len(q) - 1, NEW j \in 1..Len(q) - 1, w[i] = w[j]
               PROVE  i = j
    BY <1>1 DEF Once
  <2> DEFINE at(n) == IF n < k THEN n ELSE n + 1
  <2>1. /\ at(i) \in 1..Len(q) /\ at(j) \in 1..Len(q)
        /\ w[i] = q[at(i)] /\ w[j] = q[at(j)]
    BY <1>1, <1>3
  <2>2. at(i) = at(j)
    BY <2>1 DEF Once
  <2> QED
    BY <1>3, <2>2
<1> QED
  BY <1>1, <1>6, <1>7, <1>8 DEF w
\* Appending a new element to a sequence without repetitions.
LEMMA AppendSet ==
    ASSUME NEW S, NEW q \in Seq(S), NEW x \in S, x \notin ToSet(q), Once(q)
    PROVE  /\ ToSet(Append(q, x)) = ToSet(q) \cup {x}
           /\ Once(Append(q, x))
           /\ Len(Append(q, x)) = Len(q) + 1
<1> DEFINE a == Append(q, x)
<1>1. /\ a \in Seq(S) /\ Len(a) = Len(q) + 1 /\ Len(q) \in Nat
      /\ \A i \in 1..Len(q) : a[i] = q[i]
      /\ a[Len(q) + 1] = x
  BY AppendProperties
<1> HIDE DEF a
<1>2. \A y : y \in ToSet(q) <=> \E i \in 1..Len(q) : q[i] = y
  BY DEF ToSet
<1>3. \A y : y \in ToSet(a) <=> \E i \in 1..Len(q) + 1 : a[i] = y
  BY <1>1 DEF ToSet
<1>4. ASSUME NEW y \in ToSet(a) PROVE y \in ToSet(q) \cup {x}
  <2>1. PICK i \in 1..Len(q) + 1 : a[i] = y
    BY <1>3
  <2>2. i \in 1..Len(q) \/ i = Len(q) + 1
    BY <1>1
  <2> QED
    BY <1>1, <1>2, <2>1, <2>2
<1>5. ASSUME NEW y \in ToSet(q) \cup {x} PROVE y \in ToSet(a)
  <2>1. CASE y = x
    <3>1. Len(q) + 1 \in 1..Len(q) + 1
      BY <1>1
    <3> QED
      BY <1>1, <1>3, <2>1, <3>1
  <2>2. CASE y \in ToSet(q)
    <3>1. PICK i \in 1..Len(q) : q[i] = y
      BY <1>2, <2>2
    <3>2. i \in 1..Len(q) + 1
      BY <1>1
    <3> QED
      BY <1>1, <1>3, <3>1, <3>2
  <2> QED
    BY <2>1, <2>2
<1>6. Once(a)
  <2> SUFFICES ASSUME NEW i \in 1..Len(q) + 1, NEW j \in 1..Len(q) + 1, a[i] = a[j]
               PROVE  i = j
    BY <1>1 DEF Once
  <2>1. \A n \in 1..Len(q) : a[n] # x
    BY <1>1, <1>2
  <2>2. \A n \in 1..Len(q) + 1 : n \in 1..Len(q) \/ n = Len(q) + 1
    BY <1>1
  <2> QED
    BY <1>1, <2>1, <2>2 DEF Once
<1> QED
  BY <1>1, <1>4, <1>5, <1>6 DEF a

\* No user is twice in the sequence.
UserOnce(q) == \A i, j \in 1..Len(q) : UserOf[q[i]] = UserOf[q[j]] => i = j

\* Removing a join request leaves no user twice.
LEMMA WithoutUsers ==
    ASSUME NEW q \in Seq(Sessions), NEW x \in ToSet(q), UserOnce(q)
    PROVE  UserOnce(Without(q, x))
<1> DEFINE w == Without(q, x)
<1>1. PICK k \in 1..Len(q) :
         /\ Len(w) = Len(q) - 1
         /\ \A i \in 1..Len(q) - 1 : w[i] = IF i < k THEN q[i] ELSE q[i + 1]
  BY WithoutPlaces
<1> HIDE DEF w
<1>2. Len(q) \in Nat /\ k \in Nat
  OBVIOUS
<1> SUFFICES ASSUME NEW i \in 1..Len(q) - 1, NEW j \in 1..Len(q) - 1,
                    UserOf[w[i]] = UserOf[w[j]]
             PROVE  i = j
  BY <1>1 DEF UserOnce, w
<1> DEFINE at(n) == IF n < k THEN n ELSE n + 1
<1>3. /\ at(i) \in 1..Len(q) /\ at(j) \in 1..Len(q)
      /\ w[i] = q[at(i)] /\ w[j] = q[at(j)]
  BY <1>1, <1>2
<1>4. at(i) = at(j)
  BY <1>3 DEF UserOnce
<1> QED
  BY <1>2, <1>4

\* Appending a request of a new user leaves no user twice.
LEMMA AppendUsers ==
    ASSUME NEW q \in Seq(Sessions), NEW x \in Sessions, UserOnce(q),
           \A r \in ToSet(q) : UserOf[r] # UserOf[x]
    PROVE  UserOnce(Append(q, x))
<1> DEFINE a == Append(q, x)
<1>1. /\ Len(a) = Len(q) + 1 /\ Len(q) \in Nat
      /\ \A i \in 1..Len(q) : a[i] = q[i]
      /\ a[Len(q) + 1] = x
  BY AppendProperties
<1> HIDE DEF a
<1>2. \A i \in 1..Len(q) : UserOf[q[i]] # UserOf[x]
  BY DEF ToSet
<1> SUFFICES ASSUME NEW i \in 1..Len(q) + 1, NEW j \in 1..Len(q) + 1,
                    UserOf[a[i]] = UserOf[a[j]]
             PROVE  i = j
  BY <1>1 DEF UserOnce, a
<1>3. \A n \in 1..Len(q) + 1 : n \in 1..Len(q) \/ n = Len(q) + 1
  BY <1>1
<1> QED
  BY <1>1, <1>2, <1>3 DEF UserOnce

\* The list names the members of the map, each once, and they are as many; a finite
\* map is what makes the two counts comparable.
ListInv ==
    /\ IsFiniteSet(presenceMap)
    /\ ToSet(presences) = presenceMap
    /\ Once(presences)
    /\ Len(presences) = Cardinality(presenceMap)
RequestsInv == UserOnce(joinRequests)

\* Join changes list and map alike.
LEMMA ListJoinAgrees ==
    ASSUME TypeOK, ListInv, NEW s \in Sessions, ListJoin(s)
    PROVE  ListInv'
<1>1. CASE s \in presenceMap
  <2>1. presenceMap' = presenceMap /\ presences' = presences
    BY <1>1 DEF ListJoin
  <2> QED
    BY <2>1 DEF ListInv, Once
<1>2. CASE s \notin presenceMap
  <2>1. presenceMap' = presenceMap \cup {s} /\ presences' = Append(presences, s)
    BY <1>2 DEF ListJoin
  <2>2. /\ IsFiniteSet(presenceMap \cup {s})
        /\ Cardinality(presenceMap \cup {s}) = Cardinality(presenceMap) + 1
    BY <1>2, FS_AddElement DEF ListInv
  <2>3. /\ ToSet(Append(presences, s)) = ToSet(presences) \cup {s}
        /\ Once(Append(presences, s))
        /\ Len(Append(presences, s)) = Len(presences) + 1
    BY <1>2, AppendSet DEF ListInv, TypeOK
  <2> QED
    BY <2>1, <2>2, <2>3 DEF ListInv, Once
<1> QED
  BY <1>1, <1>2

\* Leave changes list and map alike.
LEMMA ListLeaveAgrees ==
    ASSUME TypeOK, ListInv, NEW s \in Sessions, ListLeave(s)
    PROVE  ListInv'
<1>1. CASE s \notin presenceMap
  <2>1. presenceMap' = presenceMap /\ presences' = presences
    BY <1>1 DEF ListLeave
  <2> QED
    BY <2>1 DEF ListInv, Once
<1>2. CASE s \in presenceMap
  <2>1. presenceMap' = presenceMap \ {s} /\ presences' = Without(presences, s)
    BY <1>2 DEF ListLeave
  <2>2. /\ IsFiniteSet(presenceMap \ {s})
        /\ Cardinality(presenceMap \ {s}) = Cardinality(presenceMap) - 1
    BY <1>2, FS_RemoveElement DEF ListInv
  <2>3. /\ ToSet(Without(presences, s)) = ToSet(presences) \ {s}
        /\ Once(Without(presences, s))
        /\ Len(Without(presences, s)) = Len(presences) - 1
    BY <1>2, WithoutSet DEF ListInv, TypeOK
  <2> QED
    BY <2>1, <2>2, <2>3 DEF ListInv, Once
<1> QED
  BY <1>1, <1>2

\* Without a change of the list it goes on agreeing with the map.
LEMMA AgreesSame ==
    ASSUME ListInv, UNCHANGED listVars
    PROVE  ListInv'
  BY DEF ListInv, listVars, Once

\* Every step keeps list and map in agreement.
LEMMA ListStep == TypeInv /\ ListInv /\ [Next]_vars => ListInv'
<1> SUFFICES ASSUME TypeInv, ListInv, [Next]_vars PROVE ListInv'
  OBVIOUS
<1>0. TypeOK /\ ArgNamed
  BY DEF TypeInv
<1>1. ASSUME NEW s \in Sessions, SessionRequest(s) PROVE ListInv'
  <2>1. CASE JoinRequestOpen(s)
    BY <1>0, <2>1, ListJoinAgrees DEF JoinRequestOpen
  <2>2. ASSUME NEW t \in Sessions, Accept(s, t) PROVE ListInv'
    <3>1. UNCHANGED <<presences, presenceMap>>
      BY <2>2 DEF Accept, Reserve
    <3> QED
      BY <3>1 DEF ListInv, Once
  <2>3. CASE \/ JoinRequestClosed(s) \/ PartyLeave(s) \/ Close(s) \/ MatchmakerAdd(s)
             \/ MatchmakerRemove(s)
    BY <2>3, AgreesSame DEF JoinRequestClosed, PartyLeave, Close, MatchmakerAdd, MatchmakerRemove
  <2>4. ASSUME NEW t \in Sessions, Promote(s, t) \/ RemoveMember(s, t) \/ RejectRequest(s, t)
        PROVE ListInv'
    BY <2>4, AgreesSame DEF Promote, RemoveMember, RejectRequest
  <2> QED
    BY <1>1, <2>1, <2>2, <2>3, <2>4 DEF SessionRequest
<1>2. ASSUME NEW th \in Threads, ThreadStep(th) PROVE ListInv'
  <2>1. CASE AcceptRelease(th)
    <3>1. UNCHANGED <<presences, presenceMap>>
      BY <2>1 DEF AcceptRelease, Release
    <3> QED
      BY <3>1 DEF ListInv, Once
  <2>2. CASE AcceptJoin(th)
    <3>1. arg[th] \in Sessions
      BY <1>0, <2>2 DEF AcceptJoin, ArgNamed, ArgPCs
    <3> QED
      BY <1>0, <2>2, <3>1, ListJoinAgrees, AgreesSame DEF AcceptJoin
  <2>3. CASE RemoveLeave(th)
    <3>1. arg[th] \in Sessions
      BY <1>0, <2>3 DEF RemoveLeave, ArgNamed, ArgPCs
    <3> QED
      BY <1>0, <2>3, <3>1, ListLeaveAgrees DEF RemoveLeave
  <2>4. CASE \/ TrackSucceeds(th) \/ TrackFails(th) \/ QueueJoin(th) \/ QueueLeave(th)
             \/ RemoveTickets(th) \/ RemoveUntrack(th)
    BY <2>4, AgreesSame DEF TrackSucceeds, TrackFails, QueueJoin, QueueLeave, RemoveTickets,
       RemoveUntrack
  <2>5. CASE MatchmakerTicket(th) \/ MatchmakerRemoveTicket(th) \/ StopStep(th)
    BY <2>5, AgreesSame DEF MatchmakerTicket, MatchmakerRemoveTicket, StopStep
  <2> QED
    BY <1>2, <2>1, <2>2, <2>3, <2>4, <2>5 DEF ThreadStep
<1>3. CASE ProcessEvent
  <2> DEFINE s == Head(events).session
  <2>0. Head(events) \in Event
    BY <1>0, <1>3 DEF ProcessEvent, TypeOK
  <2>1. s \in Sessions
    BY <2>0 DEF Event
  <2>2. JoinHook(s) \/ LeaveHook(s)
    BY <1>3 DEF ProcessEvent
  <2> HIDE DEF s
  <2>3. CASE JoinHook(s)
    BY <1>0, <2>1, <2>3, ListJoinAgrees, AgreesSame DEF JoinHook, listVars
  <2>4. CASE LeaveHook(s)
    BY <1>0, <2>1, <2>4, ListLeaveAgrees, AgreesSame DEF LeaveHook
  <2> QED
    BY <2>2, <2>3, <2>4
<1>4. ASSUME NEW s \in Sessions, CloseSession(s) \/ CloseStep(s) PROVE ListInv'
  BY <1>4, AgreesSame DEF CloseSession, CloseStep, CloseTickets, CloseUntrack, CloseQueue
<1>5. CASE TicketMatched \/ UNCHANGED vars
  BY <1>5, AgreesSame DEF TicketMatched, vars
<1> QED
  BY <1>1, <1>2, <1>3, <1>4, <1>5 DEF Next, Done

\* Every step keeps the join requests of different users.
LEMMA RequestsStep == TypeInv /\ RequestsInv /\ [Next]_vars => RequestsInv'
<1> SUFFICES ASSUME TypeInv, RequestsInv, [Next]_vars PROVE RequestsInv'
  OBVIOUS
<1> USE DEF partyVars
<1>0. joinRequests \in Seq(Sessions)
  BY DEF TypeInv, TypeOK
<1>same. joinRequests' = joinRequests => RequestsInv'
  BY DEF RequestsInv, UserOnce
<1>1. ASSUME NEW s \in Sessions, SessionRequest(s) PROVE RequestsInv'
  <2>1. CASE JoinRequestClosed(s)
    <3>1. UserOnce(Append(joinRequests, s))
      BY <1>0, <2>1, AppendUsers DEF JoinRequestClosed, RequestsInv
    <3>2. joinRequests' = Append(joinRequests, s)
      BY <2>1 DEF JoinRequestClosed
    <3> QED
      BY <3>1, <3>2 DEF RequestsInv, UserOnce
  <2>2. ASSUME NEW t \in Sessions, Accept(s, t) \/ RejectRequest(s, t) PROVE RequestsInv'
    <3>1. t \in ToSet(joinRequests) /\ joinRequests' = Without(joinRequests, t)
      BY <2>2 DEF Accept, RejectRequest
    <3>2. UserOnce(Without(joinRequests, t))
      BY <1>0, <3>1, WithoutUsers DEF RequestsInv
    <3> QED
      BY <3>1, <3>2 DEF RequestsInv, UserOnce
  <2>3. CASE \/ JoinRequestOpen(s) \/ PartyLeave(s) \/ Close(s) \/ MatchmakerAdd(s)
             \/ MatchmakerRemove(s)
    BY <1>same, <2>3 DEF JoinRequestOpen, PartyLeave, Close, MatchmakerAdd, MatchmakerRemove
  <2>4. ASSUME NEW t \in Sessions, Promote(s, t) \/ RemoveMember(s, t) PROVE RequestsInv'
    BY <1>same, <2>4 DEF Promote, RemoveMember
  <2> QED
    BY <1>1, <2>1, <2>2, <2>3, <2>4 DEF SessionRequest
<1>2. ASSUME NEW th \in Threads, ThreadStep(th) PROVE RequestsInv'
  BY <1>same, <1>2 DEF ThreadStep, TrackSucceeds, TrackFails, QueueJoin, QueueLeave,
     RemoveTickets, AcceptRelease, AcceptJoin, RemoveLeave, RemoveUntrack, MatchmakerTicket,
     MatchmakerRemoveTicket, StopStep
<1>3. CASE ProcessEvent \/ TicketMatched \/ UNCHANGED vars
  BY <1>same, <1>3 DEF ProcessEvent, TicketMatched, vars
<1>4. ASSUME NEW s \in Sessions, CloseSession(s) \/ CloseStep(s) PROVE RequestsInv'
  BY <1>same, <1>4 DEF CloseSession, CloseStep, CloseTickets, CloseUntrack, CloseQueue
<1> QED
  BY <1>1, <1>2, <1>3, <1>4 DEF Next, Done

\* Whatever joins, accepts, removals and hooks overlap, the ordered member list and
\* the map of PartyPresenceList name the same sessions, each once, and no user waits
\* twice for the leader's answer.
THEOREM ListsAgree == Spec => []MemberListAgrees
<1>1. Init => ListInv /\ RequestsInv
  <2> SUFFICES ASSUME Init PROVE ListInv /\ RequestsInv
    OBVIOUS
  <2>1. presences = << >> /\ presenceMap = {} /\ joinRequests = << >>
    BY DEF Init
  <2>2. ToSet(presences) = {} /\ Len(presences) = 0 /\ Len(joinRequests) = 0
    BY <2>1 DEF ToSet
  <2> QED
    BY <2>1, <2>2, FS_EmptySet DEF ListInv, RequestsInv, Once, UserOnce
<1>2. Spec => [](TypeInv /\ ListInv /\ RequestsInv)
  BY <1>1, InitType, TypeStep, ListStep, RequestsStep, PTL DEF Spec
<1>3. ListInv /\ RequestsInv => MemberListAgrees
  BY DEF ListInv, RequestsInv, UserOnce, MemberListAgrees
<1> QED
  BY <1>2, <1>3, PTL

-------------------------------------------------------------------------------
\* Leadership.

\* A party that has a leader has one after every step that does not stop it: Promote
\* names a member, and the Leave hook stops the party when it finds no successor.
THEOREM LeaderKept == Spec => RunningPartyKeepsLeader
<1>1. ASSUME TypeInv, [Next]_vars, leader # NoSession, ~stopped'
      PROVE  leader' # NoSession
  <2> USE DEF partyVars
  <2>0. /\ TypeOK /\ NoSession \notin Sessions
    BY <1>1, PartyConstants DEF TypeInv
  <2>1. ASSUME NEW s \in Sessions, SessionRequest(s) PROVE leader' # NoSession
    <3>1. leader' = leader \/ leader' \in Sessions
      BY <2>1 DEF SessionRequest, JoinRequestOpen, JoinRequestClosed, PartyLeave, Close,
         MatchmakerAdd, MatchmakerRemove, Promote, Accept, RemoveMember, RejectRequest
    <3> QED
      BY <1>1, <2>0, <3>1
  <2>2. ASSUME NEW th \in Threads, ThreadStep(th) PROVE leader' # NoSession
    BY <1>1, <2>2 DEF ThreadStep, TrackSucceeds, TrackFails, QueueJoin, QueueLeave,
       RemoveTickets, AcceptRelease, AcceptJoin, RemoveLeave, RemoveUntrack, MatchmakerTicket,
       MatchmakerRemoveTicket, StopStep
  <2>3. CASE ProcessEvent
    BY <1>1, <2>3 DEF ProcessEvent, JoinHook, LeaveHook
  <2>4. ASSUME NEW s \in Sessions, CloseSession(s) \/ CloseStep(s) PROVE leader' # NoSession
    BY <1>1, <2>4 DEF CloseSession, CloseStep, CloseTickets, CloseUntrack, CloseQueue
  <2>5. CASE TicketMatched \/ UNCHANGED vars
    BY <1>1, <2>5 DEF TicketMatched, vars
  <2> QED
    BY <1>1, <2>1, <2>2, <2>3, <2>4, <2>5 DEF Next, Done
<1>2. TypeInv /\ [Next]_vars => [leader # NoSession /\ ~stopped' => leader' # NoSession]_vars
  BY <1>1
<1>3. Spec => []TypeInv
  BY InitType, TypeStep, PTL DEF Spec
<1> QED
  BY <1>2, <1>3, PTL DEF Spec, RunningPartyKeepsLeader

-------------------------------------------------------------------------------
\* The party is a PartyGroup.

groupVars == <<presences, reserved, leader, stopped>>

\* PartyGroup and the handler mean the same by the operators they both extend.
LEMMA SameOperators ==
    /\ \A S : PG!Cardinality(S) = Cardinality(S)
    /\ \A q, i : PG!RemoveAt(q, i) = RemoveAt(q, i)
  BY DEF PG!Cardinality, Cardinality, PG!RemoveAt, RemoveAt

\* A session is a member of the group when the membership map names it.
LEMMA MemberInMap ==
    ASSUME TypeOK, ListInv, NEW s
    PROVE  PG!Member(s) <=> s \in presenceMap
  BY DEF PG!Member, ListInv, ToSet, TypeOK

\* The room PartyPresenceList counts in its maps is the room in the group.
LEMMA RoomInGroup ==
    ASSUME TypeOK, ListInv, NEW s, s \in reserved \/ Size < MaxSize
    PROVE  PG!Fits(s)
  BY SameOperators DEF PG!Fits, ListInv, Size

\* PartyPresenceList.Join, where it succeeds, lets a session into the group, and for
\* a member it only gives back a slot.
LEMMA JoinEnters ==
    ASSUME TypeOK, ListInv, SizeInv, NEW s \in Sessions, JoinFits(s), ListJoin(s)
    PROVE  \/ ~PG!Member(s) /\ PG!Fits(s) /\ presences' = Append(presences, s) /\ reserved' = reserved \ {s}
           \/ UNCHANGED presences /\ reserved' = reserved \ {s}
<1>1. CASE s \in presenceMap
  BY <1>1 DEF ListJoin
<1>2. CASE s \notin presenceMap
  <2>1. Size \in Nat
    BY FS_CardinalityType DEF Size, SizeInv
  <2>2. s \in reserved \/ Size < MaxSize
    BY <1>2, <2>1, PartyConstants DEF JoinFits
  <2> QED
    BY <1>2, <2>2, RoomInGroup, MemberInMap DEF ListJoin
<1> QED
  BY <1>1, <1>2

\* PartyPresenceList.Leave of a member takes it out of its place in the group.
LEMMA LeaveTakesOut ==
    ASSUME TypeOK, ListInv, NEW s \in presenceMap, ListLeave(s)
    PROVE  /\ \E i \in DOMAIN presences :
                 presences[i] = s /\ presences' = PG!RemoveAt(presences, i)
           /\ reserved' = reserved \ {s}
           /\ presences' \in Seq(Sessions)
           /\ OldestWithout(s) = IF presences' = << >> THEN NoSession ELSE Head(presences')
<1> DEFINE k == CHOOSE i \in DOMAIN presences : presences[i] = s
<1>1. s \in ToSet(presences)
  BY DEF ListInv
<1>2. k \in DOMAIN presences /\ presences[k] = s
  BY <1>1 DEF ToSet, TypeOK
<1>3. Without(presences, s) = RemoveAt(presences, k)
  BY <1>1 DEF Without
<1> HIDE DEF k
<1>4. presences' = Without(presences, s) /\ reserved' = reserved \ {s}
  BY DEF ListLeave
<1>5. presences' = PG!RemoveAt(presences, k)
  BY <1>3, <1>4, SameOperators
<1>6. presences' \in Seq(Sessions)
  BY <1>4, WithoutType DEF TypeOK
<1> QED
  BY <1>2, <1>4, <1>5, <1>6 DEF OldestWithout

\* PartyPresenceList.Leave of a session that is no member only gives back its slot.
LEMMA LeaveOfOther ==
    ASSUME NEW s, s \notin presenceMap, ListLeave(s)
    PROVE  UNCHANGED presences /\ reserved' = reserved \ {s}
  BY DEF ListLeave

\* A request of a client is a step of the group, or does not concern it.
LEMMA RequestGroup ==
    ASSUME TypeInv, ListInv, SizeInv, NEW s \in Sessions, SessionRequest(s)
    PROVE  PG!Next \/ UNCHANGED groupVars
<1>0. TypeOK /\ NoSession # s /\ NoSession \notin Sessions
  BY PartyConstants DEF TypeInv
<1> USE DEF partyVars, listVars, groupVars
<1>1. CASE JoinRequestOpen(s)
  <2>1. JoinFits(s) /\ ListJoin(s) /\ UNCHANGED <<leader, stopped>>
    BY <1>1 DEF JoinRequestOpen
  <2>2. PG!Enter(s)
    BY <1>0, <2>1, JoinEnters DEF PG!Enter
  <2> QED
    BY <2>2 DEF PG!Next
<1>2. ASSUME NEW t \in Sessions, Accept(s, t) PROVE PG!Next
  <2>1. /\ ~stopped /\ leader = s
        /\ t \in reserved \/ Size < MaxSize
        /\ reserved' = reserved \cup {t}
        /\ UNCHANGED <<presences, leader, stopped>>
    BY <1>2 DEF Accept, Running, Reserve
  <2>2. PG!Accept(t)
    BY <1>0, <2>1, RoomInGroup DEF PG!Accept
  <2> QED
    BY <2>2 DEF PG!Next
<1>3. ASSUME NEW t \in Sessions, Promote(s, t) PROVE PG!Next
  <2>1. PG!Promote(t)
    BY <1>0, <1>3, MemberInMap DEF Promote, Running, PG!Promote
  <2> QED
    BY <2>1 DEF PG!Next
<1>4. CASE Close(s)
  <2>1. PG!End
    BY <1>0, <1>4 DEF Close, Running, PG!End
  <2> QED
    BY <2>1 DEF PG!Next
<1>5. CASE JoinRequestClosed(s) \/ PartyLeave(s) \/ MatchmakerAdd(s) \/ MatchmakerRemove(s)
  BY <1>5 DEF JoinRequestClosed, PartyLeave, MatchmakerAdd, MatchmakerRemove
<1>6. ASSUME NEW t \in Sessions, RemoveMember(s, t) \/ RejectRequest(s, t)
      PROVE  UNCHANGED groupVars
  BY <1>6 DEF RemoveMember, RejectRequest
<1> QED
  BY <1>1, <1>2, <1>3, <1>4, <1>5, <1>6 DEF SessionRequest

\* A step of a call is a step of the group, or does not concern it.
LEMMA ThreadGroup ==
    ASSUME TypeInv, ListInv, SizeInv, NEW th \in Threads, ThreadStep(th)
    PROVE  PG!Next \/ UNCHANGED groupVars
<1>0. TypeOK /\ ArgNamed
  BY DEF TypeInv
<1> USE DEF partyVars, listVars, groupVars
<1>1. CASE AcceptRelease(th)
  <2>1. arg[th] \in Sessions
    BY <1>0, <1>1 DEF AcceptRelease, ArgNamed, ArgPCs
  <2>2. PG!Enter(arg[th])
    BY <1>1 DEF AcceptRelease, Release, PG!Enter
  <2> QED
    BY <2>1, <2>2 DEF PG!Next
<1>2. CASE AcceptJoin(th)
  <2>1. arg[th] \in Sessions
    BY <1>0, <1>2 DEF AcceptJoin, ArgNamed, ArgPCs
  <2>2. CASE JoinFits(arg[th])
    <3>1. ListJoin(arg[th]) /\ UNCHANGED <<leader, stopped>>
      BY <1>2, <2>2 DEF AcceptJoin
    <3>2. PG!Enter(arg[th])
      BY <1>0, <2>1, <2>2, <3>1, JoinEnters DEF PG!Enter
    <3> QED
      BY <2>1, <3>2 DEF PG!Next
  <2>3. CASE ~JoinFits(arg[th])
    BY <1>2, <2>3 DEF AcceptJoin
  <2> QED
    BY <2>2, <2>3
<1>3. CASE RemoveLeave(th)
  <2>1. arg[th] \in Sessions
    BY <1>0, <1>3 DEF RemoveLeave, ArgNamed, ArgPCs
  <2>2. ListLeave(arg[th]) /\ UNCHANGED <<leader, stopped>>
    BY <1>3 DEF RemoveLeave
  <2>3. CASE arg[th] \in presenceMap
    <3>1. PG!Leave(arg[th])
      BY <1>0, <2>2, <2>3, LeaveTakesOut DEF PG!Leave
    <3> QED
      BY <2>1, <3>1 DEF PG!Next
  <2>4. CASE arg[th] \notin presenceMap
    <3>1. PG!Enter(arg[th])
      BY <2>2, <2>4, LeaveOfOther DEF PG!Enter
    <3> QED
      BY <2>1, <3>1 DEF PG!Next
  <2> QED
    BY <2>3, <2>4
<1>4. CASE \/ TrackSucceeds(th) \/ TrackFails(th) \/ QueueJoin(th) \/ QueueLeave(th)
           \/ RemoveTickets(th) \/ RemoveUntrack(th)
  BY <1>4 DEF TrackSucceeds, TrackFails, QueueJoin, QueueLeave, RemoveTickets, RemoveUntrack
<1>5. CASE MatchmakerTicket(th) \/ MatchmakerRemoveTicket(th) \/ StopStep(th)
  BY <1>5 DEF MatchmakerTicket, MatchmakerRemoveTicket, StopStep
<1> QED
  BY <1>1, <1>2, <1>3, <1>4, <1>5 DEF ThreadStep

\* What the Join hook does, the group may do: it elects the first to come in, even
\* where the member list has no place for it.
LEMMA JoinHookGroup ==
    ASSUME TypeOK, ListInv, SizeInv, NEW s \in Sessions, JoinHook(s)
    PROVE  PG!Next \/ UNCHANGED groupVars
<1> USE DEF listVars, groupVars
<1>1. CASE ~Running
  BY <1>1 DEF JoinHook
<1>2. CASE Running
  <2>1. leader' = leader \/ (leader = NoSession /\ ~stopped /\ leader' = s)
    BY <1>2 DEF JoinHook, Running
  <2>2. UNCHANGED stopped
    BY DEF JoinHook
  <2>3. CASE JoinFits(s)
    <3>1. ListJoin(s)
      BY <1>2, <2>3 DEF JoinHook
    <3> QED
      BY <2>1, <2>2, <2>3, <3>1, JoinEnters DEF PG!Enter, PG!Next
  <2>4. CASE ~JoinFits(s)
    <3>1. UNCHANGED <<presences, reserved>>
      BY <1>2, <2>4 DEF JoinHook
    <3> QED
      BY <2>1, <2>2, <3>1 DEF PG!Enter, PG!Next
  <2> QED
    BY <2>3, <2>4
<1> QED
  BY <1>1, <1>2

\* What the Leave hook does, the group may do: the oldest member that is left follows
\* a leader, and the party ends where there is none.
LEMMA LeaveHookGroup ==
    ASSUME TypeOK, ListInv, NEW s \in Sessions, LeaveHook(s)
    PROVE  PG!Next \/ UNCHANGED groupVars
<1> USE DEF listVars, groupVars
<1>1. CASE ~Running
  BY <1>1 DEF LeaveHook
<1>2. CASE Running /\ s \notin presenceMap
  <2>1. ListLeave(s) /\ UNCHANGED <<leader, stopped>>
    BY <1>2 DEF LeaveHook
  <2>2. PG!Enter(s)
    BY <1>2, <2>1, LeaveOfOther DEF PG!Enter
  <2> QED
    BY <2>2 DEF PG!Next
<1>3. CASE Running /\ s \in presenceMap
  <2> DEFINE next == IF presences' = << >> THEN NoSession ELSE Head(presences')
  <2>1. /\ ListLeave(s) /\ ~stopped
        /\ leader' = IF leader = s THEN OldestWithout(s) ELSE leader
        /\ stopped' = (leader = s /\ OldestWithout(s) = NoSession)
    BY <1>3 DEF LeaveHook, Running
  <2>2. /\ \E i \in DOMAIN presences :
              presences[i] = s /\ presences' = PG!RemoveAt(presences, i)
        /\ reserved' = reserved \ {s}
        /\ presences' \in Seq(Sessions)
        /\ OldestWithout(s) = next
    BY <1>3, <2>1, LeaveTakesOut
  <2>3. next = NoSession <=> presences' = << >>
    BY <2>2, PartyConstants
  <2>4. stopped \in BOOLEAN
    BY DEF TypeOK
  <2> HIDE DEF next
  <2>5. CASE leader = s
    <3>1. leader' = next /\ stopped' = (presences' = << >>)
      BY <2>1, <2>2, <2>3, <2>5
    <3>2. PG!Leave(s)
      BY <2>1, <2>2, <2>5, <3>1 DEF PG!Leave, next
    <3> QED
      BY <3>2 DEF PG!Next
  <2>6. CASE leader # s
    <3>1. UNCHANGED <<leader, stopped>>
      BY <2>1, <2>4, <2>6
    <3>2. PG!Leave(s)
      BY <2>2, <3>1 DEF PG!Leave
    <3> QED
      BY <3>2 DEF PG!Next
  <2> QED
    BY <2>5, <2>6
<1> QED
  BY <1>1, <1>2, <1>3

\* Every step of the handler is a step of the group, or does not concern it.
LEMMA GroupStep ==
    TypeInv /\ ListInv /\ SizeInv /\ [Next]_vars => [PG!Next]_groupVars
<1> SUFFICES ASSUME TypeInv, ListInv, SizeInv, [Next]_vars
             PROVE  PG!Next \/ UNCHANGED groupVars
  OBVIOUS
<1>1. CASE ProcessEvent
  <2> DEFINE s == Head(events).session
  <2>0. TypeOK /\ Head(events) \in Event
    BY <1>1 DEF ProcessEvent, TypeInv, TypeOK
  <2>1. s \in Sessions
    BY <2>0 DEF Event
  <2>2. JoinHook(s) \/ LeaveHook(s)
    BY <1>1 DEF ProcessEvent
  <2> HIDE DEF s
  <2> QED
    BY <2>0, <2>1, <2>2, JoinHookGroup, LeaveHookGroup
<1>2. ASSUME NEW s \in Sessions, CloseSession(s) \/ CloseStep(s) PROVE UNCHANGED groupVars
  BY <1>2 DEF CloseSession, CloseStep, CloseTickets, CloseUntrack, CloseQueue, partyVars,
     listVars, groupVars
<1>3. CASE TicketMatched \/ UNCHANGED vars
  BY <1>3 DEF TicketMatched, vars, partyVars, listVars, groupVars
<1> QED
  BY <1>1, <1>2, <1>3, RequestGroup, ThreadGroup DEF Next, Done

\* The handler implements PartyGroup for every number of sessions and every size:
\* members in order of arrival, slots only where there is a place, and leadership
\* only to the first to come in, by the leader's word or to the oldest member.
THEOREM PartyImplementsGroup == Spec => PartyIsGroup
<1>1. Init => ListInv /\ SizeInv /\ PG!Init
  <2> SUFFICES ASSUME Init PROVE ListInv /\ SizeInv /\ PG!Init
    OBVIOUS
  <2>1. presences = << >> /\ presenceMap = {} /\ reserved = {}
    BY DEF Init
  <2>2. ToSet(presences) = {} /\ Len(presences) = 0
    BY <2>1 DEF ToSet
  <2>3. ListInv
    BY <2>1, <2>2, FS_EmptySet DEF ListInv, Once
  <2>4. SizeInv
    BY <2>1, FS_EmptySet, PartyConstants DEF SizeInv, SizeBound
  <2> QED
    BY <2>3, <2>4 DEF Init, PG!Init
<1>2. Spec => [](TypeInv /\ ListInv /\ SizeInv)
  BY <1>1, InitType, TypeStep, ListStep, SizeStep, PTL DEF Spec
<1>3. Spec => PG!Init /\ [][PG!Next]_groupVars
  BY <1>1, <1>2, GroupStep, PTL DEF Spec
<1> QED
  BY <1>3 DEF PartyIsGroup, PG!Spec, groupVars
===============================================================================
