----------------------------- MODULE PartyHandler -----------------------------
(***************************************************************************)
(* One party of the realtime server: server/party_handler.go with its      *)
(* member list (server/party_presence.go), the registry entry that makes   *)
(* it reachable (server/party_registry.go), the part of the tracker that   *)
(* carries the party stream (server/tracker.go), the party's matchmaker    *)
(* tickets (server/matchmaker.go) and the closing of the sessions that     *)
(* take part (server/session_ws.go).                                       *)
(*                                                                         *)
(* Goroutines.  Every session has one Consume goroutine, which runs its    *)
(* requests one after another; the tracker has one goroutine that          *)
(* dispatches presence events to the Join and Leave hooks; the closing of  *)
(* a session may be started by any goroutine at any time.  A step of the   *)
(* model is a stretch of code one goroutine runs under one lock (p.Lock,   *)
(* the member list's lock, the tracker's lock, the matchmaker's lock);     *)
(* between two such stretches every other goroutine may run.               *)
(*                                                                         *)
(* One node: the node part of a presence identifier is left out.           *)
(***************************************************************************)
EXTENDS Naturals, FiniteSets, SequencesExt

CONSTANTS
    Sessions,        \* session identifiers
    Users,           \* user identifiers
    UserOf,          \* the user each session belongs to
    Creator,         \* the session that creates the party
    EventLoop,       \* the tracker's event goroutine
    NoSession,       \* "nil" where a session is expected
    Open,            \* PartyHandler.Open: join requests are accepted at once
    MaxSize,         \* PartyHandler.MaxSize
    MaxTickets,      \* matchmaker.max_tickets
    EventQueueSize,  \* tracker.event_queue_size
    MaxRequests      \* bound on the number of requests clients send

ASSUME PartyConstants ==
    /\ UserOf \in [Sessions -> Users]
    /\ Creator \in Sessions
    /\ EventLoop \notin Sessions
    /\ NoSession \notin Sessions
    /\ Users \cap Sessions = {}
    /\ Open \in BOOLEAN
    /\ MaxSize \in Nat
    /\ MaxTickets \in Nat
    /\ EventQueueSize \in Nat
    /\ MaxRequests \in Nat

VARIABLES
    \* PartyHandler
    stopped,        \* set once, under the party lock
    cancelled,      \* the party's context is done
    expectedLeader, \* expectedInitialLeader, NoSession for nil
    leader,         \* session of the leader, NoSession for nil
    joinRequests,   \* sequence of sessions waiting for the leader
    \* PartyPresenceList
    presences,      \* members, oldest first
    presenceMap,    \* the sessions of the members
    reserved,       \* reservedMap: slots held for accepted requests
    \* LocalPartyRegistry, LocalMatchmaker, LocalTracker
    registered,     \* the registry still maps the party's identifier
    tickets,        \* the party's tickets: [id, members]
    nextTicket,     \* identifier of the next ticket
    tracked,        \* sessions tracked on the party stream
    events,         \* eventsCh: joins and leaves not yet dispatched
    \* Sessions and goroutines
    sess,           \* how far the closing of each session has got
    pc,             \* what each goroutine does next
    arg,            \* the session a goroutine's call is about
    snap,           \* the members MatchmakerAdd has read
    announced,      \* the party identifier has been sent to the creator
    reqs            \* requests sent so far

partyVars == <<stopped, cancelled, expectedLeader, leader, joinRequests>>
listVars == <<presences, presenceMap, reserved>>
mmVars == <<tickets, nextTicket>>
trackVars == <<tracked, events>>
threadVars == <<pc, arg, snap, announced, reqs>>
vars == <<partyVars, listVars, registered, mmVars, trackVars, sess, threadVars>>

Threads == Sessions \cup {EventLoop}
-------------------------------------------------------------------------------
\* Goroutine control points.

TrackPCs == {"create_track", "join_track", "accept_track"}
QueueJoinPCs == {"create_queue", "join_queue", "accept_queue"}
QueueLeavePCs == {"leave_queue", "remove_queue"}
TicketPCs == {"join_tickets", "accept_tickets", "remove_tickets", "hook_tickets"}
StopPCs == {"stop_cancel", "stop_delete", "stop_untrack", "stop_tickets"}
PCs == {"idle", "accept_release", "accept_join", "remove_leave", "remove_untrack",
        "mm_add", "mm_remove", "panic"}
       \cup TrackPCs \cup QueueJoinPCs \cup QueueLeavePCs \cup TicketPCs \cup StopPCs

\* The goroutine inside an Accept that has reserved a slot and not settled it.
AcceptPCs == {"accept_track", "accept_queue", "accept_release", "accept_join"}

\* Where a goroutine goes once Track has put the session on the stream, once
\* Track is over, and once the party's tickets have been removed.
AfterTracked == [create_track |-> "create_queue", join_track |-> "join_queue",
                 accept_track |-> "accept_queue"]
AfterTrack == [create_track |-> "idle", join_track |-> "idle",
               accept_track |-> "accept_join", create_queue |-> "idle",
               join_queue |-> "idle", accept_queue |-> "accept_join"]
AfterTrackFailed == [create_track |-> "idle", join_track |-> "idle",
                     accept_track |-> "accept_release"]
AfterTickets == [join_tickets |-> "join_track", accept_tickets |-> "idle",
                 remove_tickets |-> "remove_leave", hook_tickets |-> "idle"]
AfterStop == [stop_cancel |-> "stop_delete", stop_delete |-> "stop_untrack",
              stop_untrack |-> "stop_tickets", stop_tickets |-> "idle"]

Goto(th, label) == pc' = [pc EXCEPT ![th] = label]
-------------------------------------------------------------------------------
\* PartyPresenceList.

\* The sequence q without x, the copy-and-truncate of a Go slice.
Without(q, x) ==
    IF x \in ToSet(q)
    THEN RemoveAt(q, CHOOSE i \in DOMAIN q : q[i] = x)
    ELSE q

Size == Cardinality(presenceMap) + Cardinality(reserved)

\* Mutant: reservations keyed by user instead of session.
Reserve_ByUser(s) ==
    /\ s \in reserved \/ Size < MaxSize
    /\ reserved' = reserved \cup {UserOf[s]}
    /\ UNCHANGED <<presences, presenceMap>>

Reserve(s) ==
    /\ s \in reserved \/ Size < MaxSize
    /\ reserved' = reserved \cup {s}
    /\ UNCHANGED <<presences, presenceMap>>

Release(s) ==
    /\ reserved' = reserved \ {s}
    /\ UNCHANGED <<presences, presenceMap>>

\* Mutant: the size check is off by one.
JoinFits_OffByOne(s) ==
    s \in reserved \cup presenceMap \/ Size <= MaxSize

\* Join succeeds when the joiner already holds a slot or there is one left.
JoinFits(s) ==
    s \in reserved \cup presenceMap \/ Size + 1 <= MaxSize

\* Mutant: a confirmation adds the member a second time.
ListJoin_Again(s) ==
    /\ reserved' = reserved \ {s}
    /\ presenceMap' = presenceMap \cup {s}
    /\ presences' = Append(presences, s)

ListJoin(s) ==
    /\ reserved' = reserved \ {s}
    /\ presenceMap' = presenceMap \cup {s}
    /\ presences' = IF s \in presenceMap THEN presences ELSE Append(presences, s)

ListLeave(s) ==
    /\ reserved' = reserved \ {s}
    /\ presenceMap' = presenceMap \ {s}
    /\ presences' = IF s \in presenceMap THEN Without(presences, s) ELSE presences

\* The oldest member once s has left.
OldestWithout(s) ==
    LET rest == Without(presences, s)
    IN  IF rest = << >> THEN NoSession ELSE Head(rest)
-------------------------------------------------------------------------------
\* The matchmaker and the tracker as the party uses them.

\* LocalMatchmaker.RemovePartyAll.
RemovePartyAll == tickets' = {}

\* Track holds the session's close lock from the context check until the join
\* event is queued.
CloseLocked(s) == \E th \in Threads : pc[th] \in QueueJoinPCs /\ arg[th] = s

\* queueEvent: a full queue is drained and the new event is dropped with it.
Queued(e) == IF Len(events) < EventQueueSize THEN Append(events, e) ELSE << >>

Joined(s) == [kind |-> "join", session |-> s]
Left(s) == [kind |-> "leave", session |-> s]
Event == [kind : {"join", "leave"}, session : Sessions]
-------------------------------------------------------------------------------
\* The state right after partyCreate has put the handler into the registry.
Init ==
    /\ stopped = FALSE
    /\ cancelled = FALSE
    /\ expectedLeader = Creator
    /\ leader = NoSession
    /\ joinRequests = << >>
    /\ presences = << >>
    /\ presenceMap = {}
    /\ reserved = {}
    /\ registered = TRUE
    /\ tickets = {}
    /\ nextTicket = 0
    /\ tracked = {}
    /\ events = << >>
    /\ sess = [s \in Sessions |-> "open"]
    /\ pc = [th \in Threads |-> IF th = Creator THEN "create_track" ELSE "idle"]
    /\ arg = [th \in Threads |-> IF th = Creator THEN Creator ELSE NoSession]
    /\ snap = [th \in Threads |-> {}]
    /\ announced = FALSE
    /\ reqs = 0
-------------------------------------------------------------------------------
\* Requests.  A client can name the party once its creator has been told the
\* identifier; a session handles one request at a time and none once closed.
Request(s) ==
    /\ announced
    /\ pc[s] = "idle"
    /\ sess[s] # "gone"
    /\ reqs < MaxRequests
    /\ reqs' = reqs + 1

\* The registry finds the party and the handler is not stopped.
Running == registered /\ ~stopped

\* JoinRequest on an open party.
JoinRequestOpen(s) ==
    /\ Request(s)
    /\ Running
    /\ Open
    /\ Size < MaxSize
    /\ JoinFits(s)
    /\ ListJoin(s)
    /\ Goto(s, "join_tickets")
    /\ arg' = [arg EXCEPT ![s] = s]
    /\ UNCHANGED <<partyVars, registered, mmVars, trackVars, sess, snap, announced>>

\* The "already a member" check looks the user up in a map keyed by session.
AlreadyMember(s) == UserOf[s] \in presenceMap

\* JoinRequest on a closed party: the request waits for the leader.
JoinRequestClosed(s) ==
    /\ Request(s)
    /\ Running
    /\ ~Open
    /\ Size < MaxSize
    /\ Len(joinRequests) < MaxSize
    /\ \A r \in ToSet(joinRequests) : UserOf[r] # UserOf[s]
    /\ ~AlreadyMember(s)
    /\ joinRequests' = Append(joinRequests, s)
    /\ UNCHANGED <<stopped, cancelled, expectedLeader, leader, listVars, registered,
                   mmVars, trackVars, sess, pc, arg, snap, announced>>

\* partyLeave: Untrack, whose leave event is queued after the tracker's lock
\* has been given up.
PartyLeave(s) ==
    /\ Request(s)
    /\ s \in tracked
    /\ tracked' = tracked \ {s}
    /\ Goto(s, "leave_queue")
    /\ arg' = [arg EXCEPT ![s] = s]
    /\ UNCHANGED <<partyVars, listVars, registered, mmVars, events, sess, snap, announced>>

Promote(s, t) ==
    /\ Request(s)
    /\ Running
    /\ leader = s
    /\ t \in presenceMap
    /\ leader' = t
    /\ UNCHANGED <<stopped, cancelled, expectedLeader, joinRequests, listVars, registered,
                   mmVars, trackVars, sess, pc, arg, snap, announced>>

\* Accept up to the point where the party lock is given up: a slot is reserved
\* and the request is taken off the list.
Accept(s, t) ==
    /\ Request(s)
    /\ Running
    /\ leader = s
    /\ Size < MaxSize
    /\ t \in ToSet(joinRequests)
    /\ Reserve(t)
    /\ joinRequests' = Without(joinRequests, t)
    /\ Goto(s, "accept_track")
    /\ arg' = [arg EXCEPT ![s] = t]
    /\ UNCHANGED <<stopped, cancelled, expectedLeader, leader, registered, mmVars,
                   trackVars, sess, snap, announced>>

\* Remove of a member: only checked here, carried out after the lock.
RemoveMember(s, t) ==
    /\ Request(s)
    /\ Running
    /\ leader = s
    /\ t # s
    /\ t \in presenceMap
    /\ Goto(s, "remove_tickets")
    /\ arg' = [arg EXCEPT ![s] = t]
    /\ UNCHANGED <<partyVars, listVars, registered, mmVars, trackVars, sess, snap, announced>>

\* Remove of a session that only asked to join.
RejectRequest(s, t) ==
    /\ Request(s)
    /\ Running
    /\ leader = s
    /\ t # s
    /\ t \notin presenceMap
    /\ t \in ToSet(joinRequests)
    /\ joinRequests' = Without(joinRequests, t)
    /\ UNCHANGED <<stopped, cancelled, expectedLeader, leader, listVars, registered,
                   mmVars, trackVars, sess, pc, arg, snap, announced>>

Close(s) ==
    /\ Request(s)
    /\ Running
    /\ leader = s
    /\ stopped' = TRUE
    /\ Goto(s, "stop_cancel")
    /\ UNCHANGED <<cancelled, expectedLeader, leader, joinRequests, listVars, registered,
                   mmVars, trackVars, sess, arg, snap, announced>>

\* MatchmakerAdd reads the members and gives the party lock up.  With no member
\* the capacity of memberPresenceIDs is -1: the goroutine panics.
MatchmakerAdd(s) ==
    /\ Request(s)
    /\ Running
    /\ leader = s
    /\ snap' = [snap EXCEPT ![s] = ToSet(presences)]
    /\ Goto(s, IF presences = << >> THEN "panic" ELSE "mm_add")
    /\ UNCHANGED <<partyVars, listVars, registered, mmVars, trackVars, sess, arg, announced>>

MatchmakerRemove(s) ==
    /\ Request(s)
    /\ Running
    /\ leader = s
    /\ Goto(s, "mm_remove")
    /\ UNCHANGED <<partyVars, listVars, registered, mmVars, trackVars, sess, arg, snap,
                   announced>>
-------------------------------------------------------------------------------
\* The rest of a request, one critical section at a time.

\* Track: the session must be in the registry with its context alive.
TrackSucceeds(th) ==
    LET s == arg[th] IN
    /\ pc[th] \in TrackPCs
    /\ ~CloseLocked(s)
    /\ sess[s] = "open"
    /\ tracked' = tracked \cup {s}
    /\ Goto(th, IF s \in tracked THEN AfterTrack[pc[th]] ELSE AfterTracked[pc[th]])
    /\ UNCHANGED <<partyVars, listVars, registered, mmVars, events, sess, arg, snap,
                   announced, reqs>>

TrackFails(th) ==
    /\ pc[th] \in TrackPCs
    /\ sess[arg[th]] # "open"
    /\ Goto(th, AfterTrackFailed[pc[th]])
    /\ UNCHANGED <<partyVars, listVars, registered, mmVars, trackVars, sess, arg, snap,
                   announced, reqs>>

\* The end of Track.  The creator is then told the party's identifier.
QueueJoin(th) ==
    /\ pc[th] \in QueueJoinPCs
    /\ events' = Queued(Joined(arg[th]))
    /\ Goto(th, AfterTrack[pc[th]])
    /\ announced' = (announced \/ pc[th] = "create_queue")
    /\ UNCHANGED <<partyVars, listVars, registered, mmVars, tracked, sess, arg, snap, reqs>>

\* The end of Untrack.
QueueLeave(th) ==
    /\ pc[th] \in QueueLeavePCs
    /\ events' = Queued(Left(arg[th]))
    /\ Goto(th, "idle")
    /\ UNCHANGED <<partyVars, listVars, registered, mmVars, tracked, sess, arg, snap,
                   announced, reqs>>

RemoveTickets(th) ==
    /\ pc[th] \in TicketPCs
    /\ RemovePartyAll
    /\ Goto(th, AfterTickets[pc[th]])
    /\ UNCHANGED <<partyVars, listVars, registered, nextTicket, trackVars, sess, arg, snap,
                   announced, reqs>>

\* Mutant: a failed Accept keeps its slot.
AcceptRelease_Kept(th) ==
    /\ pc[th] = "accept_release"
    /\ UNCHANGED listVars
    /\ Goto(th, "idle")
    /\ UNCHANGED <<partyVars, registered, mmVars, trackVars, sess, arg, snap, announced, reqs>>

\* Accept, the session could not be put on the stream: give the slot back.
AcceptRelease(th) ==
    /\ pc[th] = "accept_release"
    /\ Release(arg[th])
    /\ Goto(th, "idle")
    /\ UNCHANGED <<partyVars, registered, mmVars, trackVars, sess, arg, snap, announced, reqs>>

\* Accept, after Track: turn the reservation into a membership.
AcceptJoin(th) ==
    /\ pc[th] = "accept_join"
    /\ IF JoinFits(arg[th])
       THEN ListJoin(arg[th]) /\ Goto(th, "accept_tickets")
       ELSE UNCHANGED listVars /\ Goto(th, "idle")
    /\ UNCHANGED <<partyVars, registered, mmVars, trackVars, sess, arg, snap, announced, reqs>>

\* Remove, after the party's tickets are gone.
RemoveLeave(th) ==
    /\ pc[th] = "remove_leave"
    /\ ListLeave(arg[th])
    /\ Goto(th, "remove_untrack")
    /\ UNCHANGED <<partyVars, registered, mmVars, trackVars, sess, arg, snap, announced, reqs>>

RemoveUntrack(th) ==
    /\ pc[th] = "remove_untrack"
    /\ tracked' = tracked \ {arg[th]}
    /\ Goto(th, IF arg[th] \in tracked THEN "remove_queue" ELSE "idle")
    /\ UNCHANGED <<partyVars, listVars, registered, mmVars, events, sess, arg, snap,
                   announced, reqs>>

\* Mutant: the party's context is not looked at.
TicketAllowed_NoContext == Cardinality(tickets) < MaxTickets

\* LocalMatchmaker.Add under the matchmaker's lock, with the party's context.
TicketAllowed ==
    /\ ~cancelled
    /\ Cardinality(tickets) < MaxTickets

MatchmakerTicket(th) ==
    /\ pc[th] = "mm_add"
    /\ IF TicketAllowed
       THEN /\ tickets' = tickets \cup {[id |-> nextTicket, members |-> snap[th]]}
            /\ nextTicket' = nextTicket + 1
       ELSE UNCHANGED mmVars
    /\ Goto(th, "idle")
    /\ snap' = [snap EXCEPT ![th] = {}]
    /\ UNCHANGED <<partyVars, listVars, registered, trackVars, sess, arg, announced, reqs>>

\* LocalMatchmaker.RemoveParty: the client may name any ticket, or none there is.
MatchmakerRemoveTicket(th) ==
    /\ pc[th] = "mm_remove"
    /\ \/ \E tk \in tickets : tickets' = tickets \ {tk}
       \/ UNCHANGED tickets
    /\ Goto(th, "idle")
    /\ UNCHANGED <<partyVars, listVars, registered, nextTicket, trackVars, sess, arg, snap,
                   announced, reqs>>

\* stop(), in its order: cancel the context, leave the registry, close the
\* stream, drop the tickets.
StopStep(th) ==
    /\ pc[th] \in StopPCs
    /\ cancelled' = (cancelled \/ pc[th] = "stop_cancel")
    /\ registered' = (registered /\ pc[th] # "stop_delete")
    /\ tracked' = IF pc[th] = "stop_untrack" THEN {} ELSE tracked
    /\ tickets' = IF pc[th] = "stop_tickets" THEN {} ELSE tickets
    /\ Goto(th, AfterStop[pc[th]])
    /\ UNCHANGED <<stopped, expectedLeader, leader, joinRequests, listVars, nextTicket,
                   events, sess, arg, snap, announced, reqs>>
-------------------------------------------------------------------------------
\* The tracker's event goroutine.

\* The Join hook: the leader is chosen before the member list is asked.
JoinHook(s) ==
    /\ IF Running
       THEN /\ expectedLeader' = IF leader = NoSession THEN NoSession ELSE expectedLeader
            /\ leader' = IF leader = NoSession THEN s ELSE leader
            /\ IF JoinFits(s) THEN ListJoin(s) ELSE UNCHANGED listVars
       ELSE UNCHANGED <<expectedLeader, leader, listVars>>
    /\ UNCHANGED <<stopped, pc>>

\* Mutant: leadership is not passed on.
LeaveHook_NoPromotion(s) ==
    /\ IF Running
       THEN ListLeave(s)
       ELSE UNCHANGED listVars
    /\ IF Running /\ s \in presenceMap
       THEN LET last == leader = s /\ OldestWithout(s) = NoSession IN
            /\ leader' = IF leader = s THEN NoSession ELSE leader
            /\ stopped' = last
            /\ Goto(EventLoop, IF last THEN "stop_cancel" ELSE "hook_tickets")
       ELSE UNCHANGED <<leader, stopped, pc>>
    /\ UNCHANGED expectedLeader

\* The Leave hook: a leader who left is replaced by the oldest member, and the
\* party stops when there is none.
LeaveHook(s) ==
    /\ IF Running
       THEN ListLeave(s)
       ELSE UNCHANGED listVars
    /\ IF Running /\ s \in presenceMap
       THEN LET last == leader = s /\ OldestWithout(s) = NoSession IN
            /\ leader' = IF leader = s THEN OldestWithout(s) ELSE leader
            /\ stopped' = last
            /\ Goto(EventLoop, IF last THEN "stop_cancel" ELSE "hook_tickets")
       ELSE UNCHANGED <<leader, stopped, pc>>
    /\ UNCHANGED expectedLeader

ProcessEvent ==
    /\ pc[EventLoop] = "idle"
    /\ events # << >>
    /\ events' = Tail(events)
    /\ LET e == Head(events) IN
       \/ e.kind = "join" /\ JoinHook(e.session)
       \/ e.kind = "leave" /\ LeaveHook(e.session)
    /\ UNCHANGED <<cancelled, joinRequests, registered, mmVars, tracked, sess, arg, snap,
                   announced, reqs>>
-------------------------------------------------------------------------------
\* The matchmaker removes the tickets it has matched.
TicketMatched ==
    /\ \E tk \in tickets : tickets' = tickets \ {tk}
    /\ UNCHANGED <<partyVars, listVars, registered, nextTicket, trackVars, sess, threadVars>>

\* sessionWS.Close: cancel the context under the close lock, remove the
\* session's tickets, untrack it and queue the leave event, leave the registry.
CloseSession(s) ==
    /\ sess[s] = "open"
    /\ ~CloseLocked(s)
    /\ sess' = [sess EXCEPT ![s] = "cancelled"]
    /\ UNCHANGED <<partyVars, listVars, registered, mmVars, trackVars, threadVars>>

CloseTickets(s) ==
    /\ sess[s] = "cancelled"
    /\ sess' = [sess EXCEPT ![s] = "cleared"]
    /\ tickets' = {tk \in tickets : s \notin tk.members}
    /\ UNCHANGED <<partyVars, listVars, registered, nextTicket, trackVars, threadVars>>

CloseUntrack(s) ==
    /\ sess[s] = "cleared"
    /\ tracked' = tracked \ {s}
    /\ sess' = [sess EXCEPT ![s] = IF s \in tracked THEN "leaving" ELSE "gone"]
    /\ UNCHANGED <<partyVars, listVars, registered, mmVars, events, threadVars>>

CloseQueue(s) ==
    /\ sess[s] = "leaving"
    /\ events' = Queued(Left(s))
    /\ sess' = [sess EXCEPT ![s] = "gone"]
    /\ UNCHANGED <<partyVars, listVars, registered, mmVars, tracked, threadVars>>
-------------------------------------------------------------------------------
ThreadStep(th) ==
    \/ TrackSucceeds(th) \/ TrackFails(th) \/ QueueJoin(th) \/ QueueLeave(th)
    \/ RemoveTickets(th) \/ AcceptRelease(th) \/ AcceptJoin(th)
    \/ RemoveLeave(th) \/ RemoveUntrack(th)
    \/ MatchmakerTicket(th) \/ MatchmakerRemoveTicket(th) \/ StopStep(th)

SessionRequest(s) ==
    \/ JoinRequestOpen(s) \/ JoinRequestClosed(s) \/ PartyLeave(s) \/ Close(s)
    \/ MatchmakerAdd(s) \/ MatchmakerRemove(s)
    \/ \E t \in Sessions :
          Promote(s, t) \/ Accept(s, t) \/ RemoveMember(s, t) \/ RejectRequest(s, t)

CloseStep(s) == CloseTickets(s) \/ CloseUntrack(s) \/ CloseQueue(s)

\* A panic ends the process.
Crashed == \E th \in Threads : pc[th] = "panic"

\* Nothing in flight and every session gone, or the process is gone.
Over ==
    \/ Crashed
    \/ /\ \A th \in Threads : pc[th] = "idle"
       /\ \A s \in Sessions : sess[s] = "gone"
       /\ events = << >>

Done == Over /\ UNCHANGED vars

Next ==
    \/ Done
    \/ /\ ~Crashed
       /\ \/ \E s \in Sessions : SessionRequest(s) \/ CloseSession(s) \/ CloseStep(s)
          \/ \E th \in Threads : ThreadStep(th)
          \/ ProcessEvent
          \/ TicketMatched

\* A goroutine that has started a call finishes it, the event goroutine keeps
\* dispatching and a Close that has begun runs to its end.  Nothing makes a
\* client send a request or a session close.
Fairness ==
    /\ \A th \in Threads : WF_vars(~Crashed /\ ThreadStep(th))
    /\ WF_vars(~Crashed /\ ProcessEvent)
    /\ \A s \in Sessions : WF_vars(~Crashed /\ CloseStep(s))

Spec == Init /\ [][Next]_vars /\ Fairness
-------------------------------------------------------------------------------
\* Properties.

PG == INSTANCE PartyGroup WITH
    members <- presences, slots <- reserved, lead <- leader, ended <- stopped

\* Every variable of the party, its tracker stream, its tickets and its
\* goroutines stays in its domain.
TypeOK ==
    /\ stopped \in BOOLEAN
    /\ cancelled \in BOOLEAN
    /\ expectedLeader \in Sessions \cup {NoSession}
    /\ leader \in Sessions \cup {NoSession}
    /\ joinRequests \in Seq(Sessions)
    /\ presences \in Seq(Sessions)
    /\ presenceMap \in SUBSET Sessions
    /\ reserved \in SUBSET Sessions
    /\ registered \in BOOLEAN
    /\ tickets \in SUBSET [id : Nat, members : SUBSET Sessions]
    /\ nextTicket \in Nat
    /\ tracked \in SUBSET Sessions
    /\ events \in Seq(Event)
    /\ sess \in [Sessions -> {"open", "cancelled", "cleared", "leaving", "gone"}]
    /\ pc \in [Threads -> PCs]
    /\ arg \in [Threads -> Sessions \cup {NoSession}]
    /\ snap \in [Threads -> SUBSET Sessions]
    /\ announced \in BOOLEAN
    /\ reqs \in Nat

\* Members and reserved slots together never exceed the party's maximum size,
\* whatever joins, accepts, hooks and removals overlap (PartyPresenceList.Join,
\* Reserve and the checks in JoinRequest and Accept).
SizeBound == Cardinality(presenceMap) + Cardinality(reserved) <= MaxSize

\* A reserved slot always belongs to an Accept that is still running: it is
\* given back, or becomes a membership, on every path (Accept's Release and
\* Join).  A reservation nobody owns would shrink the party for ever.
NoLeakedReservation ==
    \A s \in reserved : \E th \in Threads : pc[th] \in AcceptPCs /\ arg[th] = s

\* The ordered member list and the membership map name the same sessions, each
\* once, and no user waits twice for the leader's answer (PartyPresenceList.Join
\* and Leave, the duplicate check of JoinRequest).
MemberListAgrees ==
    /\ ToSet(presences) = presenceMap
    /\ Len(presences) = Cardinality(presenceMap)
    /\ \A i, j \in 1..Len(joinRequests) :
          UserOf[joinRequests[i]] = UserOf[joinRequests[j]] => i = j

\* Once stop() is through, the party has no matchmaker ticket: an Add that read
\* the members before the stop and reaches the matchmaker after it finds the
\* party's context cancelled.
TicketsDieWithParty ==
    stopped /\ (\A th \in Threads : pc[th] \notin StopPCs) => tickets = {}

\* The handler implements PartyGroup: members stay in order of arrival, a slot is
\* only taken where there is a place, and leadership only goes to the first to come
\* in, to a member the leader names or to the oldest member, whatever overlaps
\* (JoinRequest, Accept, Remove, Promote, Close, the Join and Leave hooks).
PartyIsGroup == PG!Spec

\* A running party that has a leader keeps one: leadership passes on by Promote
\* and by the Leave hook, and a party that has lost its last leader is stopped.
RunningPartyKeepsLeader ==
    [][leader # NoSession /\ ~stopped' => leader' # NoSession]_vars

\* Every slot reserved by Accept is settled, by a join or by a release.
ReservationSettles ==
    \A s \in Sessions : s \in reserved ~> (s \notin reserved \/ Crashed)

\* A stopped party ends up out of the registry and without tickets, for good.
StoppedPartyTornDown ==
    stopped ~> ([](~registered /\ tickets = {}) \/ Crashed)

\* "The party membership has changed, stop any ongoing matchmaking processes.":
\* when nothing is in flight, every ticket is for the current members.
TicketsMatchMembers ==
    events = << >> /\ (\A th \in Threads : pc[th] = "idle")
      /\ (\A s \in Sessions : sess[s] \in {"open", "gone"})
    => \A tk \in tickets : tk.members = presenceMap

\* "Should not happen, this process is just a confirmation.", where the Join hook finds
\* no place in the member list: a join that is about to be dispatched to a running
\* party has one.
JoinHookIsConfirmation ==
    Running /\ pc[EventLoop] = "idle" /\ events # << >> /\ Head(events).kind = "join"
    => JoinFits(Head(events).session)
===============================================================================
