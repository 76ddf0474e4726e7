# A TLA+ verification of the LayerG core server and its console

LayerG core is a realtime game server written in Go. Clients hold a websocket
session each; on top of sessions the server keeps presences on streams, parties,
authoritative matches, a matchmaker and, in a cluster, a replicated copy of the
presences and tickets of the other nodes. Operators use its console, a
single-page application (Angular, `src/console/ui`) that calls the server's
console API and the LayerG portal. This directory holds models of the concurrent
core of the server and of the console UI, the TLC configurations that check them
on small instances and proofs, checked by TLAPS, for instances of every size.

Sections 3 and 4 are about the server, 5 to 9 about the console UI; 10 lists the
disagreements found and 11 what is not modelled.

## 1. Inventory

For each part: the state it keeps, what changes it, whom it talks to, what is
hard about it and what makes it correct.

**Sessions** (`session_ws.go`, `session_registry.go`). State: the registry entry,
a context, the close lock `closeMu`. One `Consume` goroutine per session runs its
requests one after another; `Close` may be called by any goroutine and runs
cancel, `RemoveSessionAll`, `UntrackAll`, `UnfollowAll`, registry removal, in that
order. Hard: a request, of this session or of another, that is in the middle of
`Track` when the session closes. Correct: nothing of a closed session stays
anywhere.

**Tracker** (`tracker.go`, `peer_tracker.go`). State: two indexes of the same
presences (by stream and by session), a counter, a bounded event channel. Changed
by Track, TrackMulti, Untrack, UntrackMulti, UntrackAll, UntrackByStream,
UntrackLocalByModes, Update, and by the cluster: MergeRemoteState,
ClearRemoteTrack, ClearTrackByNode. Events are queued after the tracker's lock is
released and dispatched by one goroutine to the match, party and status hooks.
Hard: events in another order than the changes, a full queue that is drained,
multi-stream operations that return early, replicated changes. Correct: the
indexes agree, a closed session has no presence, the hooks end up with the
tracker's view.

**Parties** (`party_handler.go`, `party_presence.go`, `party_registry.go`,
`pipeline_party.go`). State: leader, expected first leader, join requests, the
ordered member list with its map and reserved slots, a context and a stopped flag.
Operations come from the sessions' goroutines, hooks from the tracker's; every
operation unlocks before it calls the tracker or the matchmaker. Hard: each such
gap. Correct: never more members than allowed, no leaked slot, one consistent
list, a leader while there are members, no ticket for anyone but the members, a
stopped party that leaves nothing behind.

**Matchmaker** (`matchmaker.go`, `matchmaker_process.go`). State: tickets, indexed
by session and by party, with intervals. Add, the Remove family and the periodic
Process. Hard: Process works on a copy and hands results over after unlocking.
Correct: a ticket is matched at most once, all three indexes agree.

**Authoritative matches** (`match_handler.go`, `match_registry.go`,
`match_presence.go`). State: four bounded queues, a stop flag, join markers,
presences, empty ticks. One goroutine per match; any goroutine may queue a call
and, when the call queue is full, stop the match itself. Hard: the two goroutines
inside Stop and `processDeferred`, a join attempt that times out and is then
allowed, join markers that expire. Correct: a client told it joined is tracked, a
stopped match leaves the registry and its goroutine ends.

**Cluster peer** (`peer.go`, `peer_binary_log.go`, `peer_matchmaker.go`). State:
numbered logs per node, pending logs, check points, and through them the other
nodes' presences and tickets. Changes are broadcast, and a periodic push/pull
replaces a node's presences wholesale. Hard: logs out of order or lost, a merge
that overtakes a log, a node that leaves and returns. Correct: replicas converge.

**Status registry, session caches, leaderboard scheduler and rank cache.** Small
lock-protected structures with expiry or timers; see the plan.

**Storage, wallet, accounts, friends, groups, purchases, authentication, API,
runtimes, clients of external services.** Sequential request/response code whose
concurrency control is the SQL database's, or wrappers around external services.
Not modelled for themselves; `PROJECT.json` gives the reason for each.

**Console server** (`console.go`, `console_account.go`, `console_group.go`,
`console_storage.go` and the others of that name). The methods the console UI calls:
roles, listings with cursors and totals, deletes, updates, bans, members. Modelled as
far as a page can tell, each call as one step of the server, in the modules of the
pages.

The console UI runs one handler at a time, but every handler that asks the server
goes on in a callback, and in between the user, the router and other answers act.

**Console session** (`authentication.service.ts`, the two interceptors, the guards,
`login/`, `base/`, `layergPortal.service.ts`). State: the session in memory and in
localStorage, the portal's token, the page and the navigation under way. Hard:
answers to logouts, logins, resolvers and refused requests in any order, and three
tables of roles (the side bar's, the guard's, the server's). Correct: pages are for those signed in and of the right role; who is no
longer signed in does not stay.

**Lists** (`accounts/`, `groups/`, `storage/`, `leaderboards/`, `leaderboard/records/`,
`account/wallet/`, `notifications/`, `purchases/`, `subscriptions/`, `channels/`,
`matches/`, `collections/`, `collection/`). State: rows, cursors or page numbers, a
total, arrays of flags beside the rows, dialogs. Hard: searches that overtake, a
delete that remembers a position, several arrays to keep alike. Correct: the list
shows the last search, each flag stays with its row, nothing deleted is shown.

**Lists edited in place** (`group/members/`, `account/friends/`, `account/groups/`,
`account/authentication/`, `users/`). The answer to an edit changes one row without
listing again. Hard: edits that overlap, one edit that is two requests, and one request
that adds several people and may fail half-way. Correct: the rows are the server's.

**Object pages** (`account/`, `group/`, `leaderboard/` and their tabs,
`storage-object/`, the portal's forms). State: a copy fetched once, a form, alerts
and buttons. Hard: answers that meet another tab, writers elsewhere, uploads that
overtake, double clicks, values the server skips. Correct: alerts tell the truth,
nothing unseen is overwritten.

**Status, configuration and API explorer** (`status/`, `config/`, `apiexplorer/`).
Timers and graphs; imports that share flags; editors that exist later than the
endpoint that fills them.

## 2. Plan

| step | module | content | theorems |
|---|---|---|---|
| 1 (done) | `PartyGroup`, `PartyHandler` | the promise of a party; one party with its stream, events, tickets and sessions | done: type, size, reservations, tickets, the list, leadership, the refinement |
| 2 (done) | `PresenceSet`, `Tracker` | the promise of the tracker; both indexes, connect, close lock, single socket, remote presences | done: type; the indexes agree; exact count; a closed session is untracked; the refinement |
| 3 (done) | `ConsoleSession` | login, guards, interceptors, navigation, portal login | done: type; pages for those signed in, and of the right role |
| 4 (done) | `LatestSearch`, `ConsoleLists`, `PortalLists`, `MatchesPage` | the lists; the promise of a searchable list and who keeps it | done: types, every invariant, the refinement |
| 5 (done) | `ConsoleEditors`, `ConsoleMembers`, `NftForms` | object pages, lists edited in place, the portal's forms | done: types and every invariant, promotions and demotions included |
| 6 (done) | `StorageObjectPage`, `StatusPage`, `ConfigPage`, `ConfigTree`, `ApiExplorer` | the remaining pages | done: types and every invariant but that of `ConfigTree` |
| 7 | `MatchHandler` | match goroutine, queues, Stop, join attempts, markers | stop at most once; presence list |
| 8 | `PeerLog` | binary log of two or three nodes, pending logs, push/pull | applied logs are a prefix |
| 9 | `Matchmaker` | ticket indexes, Process and its hand-over | index agreement |
| 10 | `StatusRegistry`, rank cache, scheduler | the remaining in-memory structures | as they come |

Every safety property that a passing run checks is also a theorem, for every value of
the constants, with the one exception of `EverySettingListed`, which is about a
recursive function. Left to TLC besides it are the liveness properties
(`ReservationSettles`, `StoppedPartyTornDown`, `CloseCompletes`,
`RevokedSessionLeaves`): fairness is outside the prover's reach.

The modules, apart from those of the table: `ListPages`, `EditPages` and
`ConsolePages` put the pages of steps 4 to 6 side by side, with the assumptions on
their constants and the properties of the three runs; both the MC module and the
proofs extend them, so that TLC and TLAPS speak of the same formulas. `PartyProofs`,
`TrackerProofs`, `ConsoleProofs`, `ListProofs`, `EditProofs`, `PageProofs` and
`StorageProofs` hold the proofs and `SequenceLemmas` what they share about sequences:
what `RemoveAt` and `Append` keep, and how they and a replaced element change the
number of positions whose element lies in a set.

Three abstract specifications say what a component promises to those who use it, and the
component is shown to implement them, by TLC on the instance of a run and by a theorem
for all: `PartyGroup` (a bounded group with a leader, section 3), `PresenceSet` (one set
that changes by whole operations, section 4) and `LatestSearch` (the answer to the last
search, section 7). A fourth would be a replicated set with eventual agreement,
implemented by `PeerLog`.

## 3. PartyHandler

One party, from the moment `partyCreate` has registered it, with any number of
sessions. Three kinds of goroutine act: the `Consume` goroutine of each session
(`pc[s]`), the tracker's event goroutine (`pc[EventLoop]`) and whoever closes a
session (`sess[s]`). An action is a stretch of code under one lock; `pc` says what
a goroutine does next and `arg` which session it is about. So `Accept` is the code
up to `p.Unlock()`, then `TrackSucceeds` or `TrackFails`, `QueueJoin`,
`AcceptJoin` or `AcceptRelease`, and `RemoveTickets`, and any other goroutine may
run in between.

| state | code |
|---|---|
| `stopped`, `cancelled`, `leader`, `expectedLeader`, `joinRequests` | fields of `PartyHandler`; `cancelled` is its context |
| `presences`, `presenceMap`, `reserved` | `PartyPresenceList` |
| `registered` | the entry in `LocalPartyRegistry.parties` |
| `tracked`, `events` | the party's stream in the tracker, `eventsCh` |
| `tickets`, `nextTicket` | `partyTickets[party]` of the matchmaker |
| `sess` | stages of `sessionWS.Close` |
| `announced` | the creator has been sent the party identifier, so others may use it |

A request the code refuses (not the leader, party full, party stopped) changes no
state and is left out: the guard of an action is the conjunction of the checks.
`Queued` is the event queue with its drain: a full queue is emptied and the new
event is lost with it (modelled as one step). `CloseLocked` is the close lock that
`Track` holds until its event is queued. `MatchmakerAdd` by a leader of a party
without members asks `make` for a slice of capacity -1; the model's `panic` state
ends the process.

`PartyGroup` is what all this amounts to for the members: a sequence in order of arrival,
the slots kept for accepted sessions, the leader, and whether the party has ended. Its
steps are atomic: accept, enter, leave, promote, end. The refinement mapping (`PG`) takes
`presences`, `reserved`, `leader` and `stopped` for the four and forgets the map, the
requests, the goroutines and the events. `Enter` may elect a session without taking it in
and may only give back a slot, and `Leave` may leave the leader in office, because the
code does both: see the list of behaviours below.

Left out: other nodes (every session and the party are on one node); the
single-party kick, which removes a session from *other* parties; messages to
clients; `JoinRequestList` and `DataSend`, which only read; tickets the members
hold outside the party.

### Runs

All runs have three sessions, the creator's and two guests', a party of size 2 and
at most one ticket: two guests are what it takes to fill a party against its
creator, and a third session is what a removal, a promotion and a join need to
meet. `MaxRequests` bounds the number of client requests in a behaviour; session
closes are not bounded.

| run | instance | shows |
|---|---|---|
| `party` | `MCPartyBoth`: invite only with 4 requests and an event queue of 2, or open with 3 requests and a queue of 3 | type, size, reservation, list and ticket invariants; with two places the queue overflows |
| `party_live` | invite only, 3 requests, queue of 3 | `PartyIsGroup`, the refinement of `PartyGroup`; reservations settle; a stopped party is torn down |
| `party_tickets` | open, 4 requests, queue of 4 | `TicketsMatchMembers` is violated |
| `party_join_hook` | open, 2 requests, queue of 4 | `JoinHookIsConfirmation` is violated |

Four requests are enough for a request and its acceptance, then two of a promotion, a
removal, a ticket and a further join, against every position of the closing sessions;
what takes more is the theorems'. In an open party a join is one
request where an invitation takes two. Guests are interchangeable, so `party` uses
that symmetry; the run with liveness properties does not. Three requests are enough for
every step of `PartyGroup`, a leader's succession included (request, accept, leave); open
parties and longer sequences are the theorem's.

Fairness: a goroutine that has started a call finishes it (`ThreadStep`), the event
goroutine goes on dispatching (`ProcessEvent`) and a `Close` that has begun runs to
its end (`CloseStep`). Go's scheduler gives this: every step is a short critical
section and no lock is held across a blocking call. Clients are not fair: nothing
makes them send a request or close.

`party_tickets` is about "The party membership has changed, stop any ongoing
matchmaking processes.": `MatchmakerAdd` reads the members and adds the ticket after
unlocking; a ticket of the old membership survives the change that should have
stopped it.

`party_join_hook` is about "Should not happen, this process is just a confirmation."
(`party_handler.go:213`), the branch of the Join hook in which `members.Join` fails. It
does happen: guests of an open party enter the member list in `JoinRequest` at once, so
two of them fill a party of two before the creator's own join event is dispatched. The
hook has made the creator leader by then (line 211), and the party has a leader who is
not a member. `PartyGroup.Enter` accepts such a leader, because the code makes one; the
refinement says that the group is bounded and led, not that its leader is in it.

Behaviours of the model that no property promises to exclude:

* a member that `Remove` has checked becomes leader before the removal happens; the
  party keeps a leader, has no members and is not closed (and `MatchmakerAdd` by
  that leader is the `panic` above);
* the already-a-member check looks for a user among sessions and never fires;
* a join or accept in flight tracks its session on the stream after `stop` has
  closed it.

### Proofs

`PartyProofs` proves, for every set of sessions and users and every `MaxSize`,
`MaxTickets` and queue size (the assumption `PartyConstants`: types, and that
session, user and goroutine names are distinct):

* `TypeCorrect`: `Spec => []TypeOK`. `TypeOK` alone is not inductive: `arg` may be
  `NoSession` for an idle goroutine, and `ListJoin(arg[th])` would then add it to
  the members. The strengthening `ArgNamed` says that a goroutine in a call that
  uses `arg` names a session.
* `SizeBounded`: `Spec => []SizeBound`, through `SizeInv`, which adds that members
  and reserved slots are finite: `Cardinality` says nothing of an infinite set, and
  each step changes it by one. A reserved session that joins gives its slot back in
  the same step, which is why `JoinFits` need not look at the size then.
* `ReservationsOwned`: `Spec => []NoLeakedReservation`. Each action either leaves
  the owner's control point inside `AcceptPCs` or removes the reservation.
* `TicketsGone`: `Spec => []TicketsDieWithParty`, through `StopInv`: one goroutine
  at a time runs `stop`, and past its first step the context is cancelled, so no
  ticket can be added after the last step has removed them all.

* `ListsAgree`: `Spec => []MemberListAgrees`, through `ListInv` (the map is finite, the
  sequence names its members, each once, and their number is its cardinality) and
  `RequestsInv` (no user is twice among the join requests). The property compares a
  sequence with a set; the inductive part is that `Accept`, the Join hook and `Remove`
  change both by the same session.
* `PartyImplementsGroup`: `Spec => PartyIsGroup`, the refinement. The abstract guards count
  members in the sequence where the code counts entries of the map, so each step needs
  `ListInv` (they are as many), and `SizeInv` for the arithmetic. There is a lemma for each
  way the list changes (`JoinEnters`, `LeaveTakesOut`, `LeaveOfOther`) and one for each
  group of actions (`RequestGroup`, `ThreadGroup`, `JoinHookGroup`, `LeaveHookGroup`);
  that `NoSession` is nobody's name is what makes "no successor" and "no member left" the
  same thing in the Leave hook.
* `LeaderKept`: `Spec => RunningPartyKeepsLeader`, an action property that follows the
  leader alone: once there is one only `Promote` and the Leave hook change it, and the hook
  that finds no successor stops the party. (In the run it is part of `PartyIsGroup`.)

Only model-checked: `ReservationSettles` and `StoppedPartyTornDown`, which need fairness.

## 4. Tracker

The presence tracker of one node in a cluster, and the life of the sessions it is
about. `PartyHandler` follows one stream through the event queue to the hooks;
`Tracker` follows all streams through both indexes and stops where an event is
queued. The two share the close lock: what `PartyHandler` assumes of `Track` and
`UntrackAll` (no presence and no join event after a Close) is proved here.

| state | code |
|---|---|
| `bySession`, `byStream`, `count` | the maps and the counter of `LocalTracker`; a bucket is the set of its presences |
| `joining[g]` | the presences a goroutine has added and whose event it has still to queue; non-empty while it holds the close lock |
| `sess` | new, open, cancelled (context), untracked, gone (left the registry): the stages of `sessionWS.Close` |
| `conn` | how far the connect handler in `socket_ws.go` has got |
| `kick[s]` | sessions that `SingleSession` of `s` has listed and not yet closed |
| `born` | the order of `sessionRegistry.Add`, only for the property about it |
| `merging` | nodes whose state `MergeRemoteState` has cleared and not yet added |

| action | code |
|---|---|
| `Register`, `TrackFirst`, `TrackFirstFails`, `SingleSession`, `Kick` | the connect handler and its single-socket goroutine |
| `Track`, `Update`, `QueueEvent` | the operations that take the close lock (`getSession`) |
| `Untrack`, `UntrackLocalByModes`, `UntrackByStream` | the operations that do not |
| `Close`, `CloseUntrack`, `CloseRemove` | `sessionWS.Close`: cancel under the close lock, then each clean-up |
| `OnTrack`, `OnUntrackAll` | `LocalPeer.onTrack`, `onUntrack` |
| `ClearTrackByNode`, `MergeClear`, `MergeAdd` | a node leaves; a push/pull |

An operation that finds nothing to do is left out. `Drop` keeps the shortcut that
all deletes share: a bucket with a single presence is discarded whole, whichever
presence it is. `Clear` keeps the loop of `ClearTrackByNode`, which walks a Go map
in no particular order, stops at the first presence of another node and discards
the bucket if it deleted anything: the set it deleted is any set such a walk can
produce. That these are right is what `IndexesAgree` and `OnePresenceSet` are about.

`PresenceSet` is what a user of the tracker may rely on: one set of presences, at most one
for a session and a stream, that changes by whole operations (arrivals, a renewed meta,
leaves, the loss of a node, a Close after which the session never comes back), and a count
that is its size. The mapping (`PS`) takes the presences filed by session for the set,
`count` for its size and the sessions past `CloseUntrack` for the closed ones.

Other nodes send arbitrary messages about their own sessions, at any time.
`onUntrack` with a stream calls `Untrack`, which builds its key with this node's
name and so never finds the presence; it is a no-op and has no action.

Left out: the level of `presencesByStream` that groups streams by mode; users (all
sessions belong to one); leave events, which are queued without a lock and change
nothing here; a push/pull on join, which clears all other nodes' presences and may
bring back old presences of this node; updates by peers, whose log has no handler;
`UntrackMulti` and `UntrackByModes`, which nothing calls.

### Runs

| run | instance | shows |
|---|---|---|
| `tracker_index` | a session here and one on another node, four streams (notification, status, two of a single mode), one goroutine | `TypeOK`, `IndexesAgree` and `OnePresenceSet`, the refinement of `PresenceSet` |
| `tracker_close` | two sessions here, two streams, one goroutine that tracks for them, single socket | `ClosedUntracked`, `NoJoinAfterClose` and, under fairness, `CloseCompletes` |
| `tracker_single` | the same with two goroutines | `KicksOnlyOlder` is violated |

No bound is needed: a session connects once and a state is determined by which
presences are filed. A bucket by session can hold none, one and several presences
and a bucket by stream those of a local and of a remote session, which are the
cases `Drop` and `Clear` tell apart. Two sessions are what it takes to kick each
other; a goroutine that tracks and the one that closes are what competes for a
close lock, and the proofs below cover any number of them.

Fairness: a goroutine that holds a close lock queues its event and lets go
(`QueueEvent`: `queueEvent` never blocks) and a Close that has begun goes on
(`CloseStep`), both weakly fair. `Kick` waits for a lock that requests of the
session may take again and again, so weak fairness would not do; it is strongly
fair because a Go mutex hands itself over to a goroutine that has waited for a
millisecond. Clients, peers and the connect handler are not fair.

`tracker_single` is about "Allow the current session, only disconnect any older
ones.": the goroutine of the older session may read the notification stream after
the newer session is on it, and then closes the newer one.

### Proofs

`TrackerProofs` proves, for any sets of nodes, sessions, streams and goroutines
(the assumption `TrackerConstants`), `TypeCorrect`, `IndexesAlwaysAgree`,
`CountAlwaysExact`, `ClosedAlwaysUntracked` and `NeverJoinAfterClose`, all from the
one inductive invariant `TrackerInv`:

* `IndexInv`: there is one finite set `T` of presences such that the index by
  session and the index by stream are its two projections and the count is its
  size; `T` has one presence for each session and stream, and each carries the node
  of its session. `IndexesAgree` is not inductive without the last part:
  `UntrackAll` and `ClearTrackByNode` discard a session's bucket whole although
  they only took presences of one node off their streams.
  The lemmas `InsertFiles`, `DeleteFiles` and `DiscardFiles` show what the three
  ways of changing the indexes do to `T`; each operation of the tracker is then a
  short lemma on top of one of them.
* `RestType`: the types of the other variables. That `SingleSession` lists only
  sessions of this node needs `IndexInv`.
* `NewAtFirst`: a session whose connect handler has still to register it is new, so
  registering never reopens a closed one and the closed sessions of `PresenceSet` only grow.
* `ClosedUntracked` and `NoJoinAfterClose` themselves: presences are added only to
  sessions that are open or remote, and a context is cancelled only while nobody
  has a join event of the session to queue.

`TrackerIsPresenceSet` is the refinement, `Spec => OnePresenceSet`: under `TrackerInv` every
step of the tracker is a step of `PresenceSet` or a stutter (`PresenceStep`). `LeavesChanges`
and `AddsArrive` turn what an operation does to the two indexes into what it does to the one
set and its size; `UpdateRenews` does so for the upsert, whose count grows only when there
was nothing to replace. `CountExact`, the invariant that the count is the size, is a theorem
of its own and in the run a part of the refinement.

Only model-checked: `CloseCompletes`, a liveness property.

## 5. The console UI: how it is modelled

A page is a module. Its variables are the component's fields, the form, the URL
where it matters, the part of the server the page is about and `reqs` (or
`queries`, `calls`, `inFlight`): the requests under way. A handler is an action; a
request that changes the server is *served* in one action (done, or refused; done
with the answer lost looks like a refusal to the page) and *answered* in another,
which is the `subscribe` callback. Everything else may happen in between, and
answers come in any order. The templates give the guards: a button that is hidden
or disabled cannot be clicked.

Variables named *history* are not in the code: properties use them to say what the
user did or what went wrong on the way. Some variables are chosen at the start and
never change (`visit`, `Serial`, `patient`, `OneFile`): they fix the page,
the bounds and how the user behaves, so that one run holds the user who waits for
each answer and the one who does not. A property that only holds for the first says
so in its premise, and what happens to the second is under "Observed" below.

Three modules put pages side by side: `ListPages`, `EditPages` and `ConsolePages`, each
with an MC module (`MCLists`, `MCEdits`, `MCPages`). In a behaviour of the run one page
is open (`which`), as in the browser; the others stay as they begin. Each page's own
`Init` and `Next` are used unchanged through `INSTANCE`, and the properties of the run
are those of the modules. The proofs are about each page's own `Spec`; the type
invariant of a run is proved from the conjunction of the pages' specifications.

Left out everywhere: the loading indicator, page-view analytics, formatting of
cells, copying to the clipboard, and the forced change of a password.

## 6. ConsoleSession

| state | code |
|---|---|
| `session`, `stored` | `currentSessionSubject` and localStorage `currentSession` |
| `accessToken`, `host` | the portal's token, and its address (compiled in, or configured) |
| `page`, `pending` | what the router shows; the navigation that waits for its resolver |
| `returnUrl`, `submitted` | `LoginComponent` |
| `live`, `logins` | the sessions the server knows |
| `inFlight` | how many requests of each kind are under way, with the token each carries |

Guards run when a navigation starts (`Goto`, `AuthenticationGuard`,
`PageviewGuard`), the page changes when the resolver answers (`Opens`), and a
navigation that is replaced loses its resolver (`Abort`). `Unauthorized` and
`AuthRefused` are `AuthenticationErrorInterceptor`: a 401, whichever request it
answers, logs out the session that is current *when it arrives*. `Reload` forgets
everything but localStorage.

Three tables say who may see a page: `minRole`, by which the side bar shows its links
(`base.component.ts`), `restrictedPages`, by which the guard decides (`globals.ts`), and
`restrictedMethods` of the server (`console.go`), by which `consoleInterceptorFunc`
answers the request of the page's resolver; a method without an entry, as the
subscriptions' `ListSubscriptions`, is for administrators only. The guard's table has
fewer pages than the side bar's: the collections are not in it. Whoever opens them by URL
without being a developer is stopped by the server, which refuses the resolver's
`GetConfig`; the resolver does not catch that, so the navigation ends (`ResolveFailed`)
and the page that was open stays. Resolvers that do catch (`catchError`) open their page
on a refusal too, and those pages are for everybody.

| run | instance | shows |
|---|---|---|
| `console_guard` | an administrator and a read-only user, three pages, two logins, two kinds of request under way | `TypeOK`, `SignedInToSee`, `RoleFitsPage` |
| `console_live` | one user, the status page, two logins | `RevokedSessionLeaves` |

Two logins are what a late answer of the first session's needs to meet the second,
three pages are one open to all, one restricted by the guard, and one, with portal
calls, that only the server restricts. `RoleFitsPage` takes the side bar's table for
what is meant and says that guard and server together enforce it. Two kinds of request, each up to twice, is the bound `Room` on what a *user's* action may
add; what answers set off (configuration, portal login, logout) goes beyond it.
`PatientUser` is the user who leaves a login form alone once it is sent: without it
two logins can be under way at once, through a login page that was left and opened
again, and the later answer changes the user on an open page. `RoleFitsPage` is for
the patient user.

Fairness of `console_live`: the status page's timer goes on (`StatusPoll`, strong
because `Room` comes and goes with other requests), every request is answered,
refused or given up in the end (weak), and a request that is made again and again
gets through: strong fairness of the refusal of a poll and of the answer to a logout.
The code retries both for as long as the page is open, the timer by itself and the
logout with every refused poll; that a network does not lose every one of them is
the assumption. Users are not fair.

### Proofs

`ConsoleProofs` proves `TypeCorrect`, `SignedIsShown` and `RoleIsEnforced` for any
users, roles, pages and bounds (`ConsoleAssumption`: home is one of the pages, the pages
are routes, every user has a role, the bounds are numbers), from `ConsoleInv`, the
conjunction of

* `TypeOK`, in which `inFlight` counts the requests of each kind;
* `SignedIn`: memory and localStorage hold the same session, and without one the login
  page is shown and no resolver is under way. `SignedInToSee` alone is not inductive: an
  answer of a resolver opens its page without asking again who is signed in, so the
  invariant has to say that a logout leaves no resolver behind;
* `LoginAlone` (for `PatientUser`): a login under way is the only one, the form is
  submitted, and there is no session that it could replace;
* `RoleKept`: the role of the session fits the page that is open and every page a
  resolver under way is going to open, which is one that the server answered or that
  catches the refusal (`ServerAdmits`); what the guard let through fits the guard's
  table (`GuardAdmits`). This is why `RoleFitsPage` needs `LoginAlone`: a second
  login would change the role under a resolver that was let through before.

Most answers change neither the session nor the page (`Calm`) and share one lemma.

## 7. Lists: `ConsoleLists`, `PortalLists`, `MatchesPage`

`ConsoleLists` has the ten lists of the console, each with its own actions where its
component has its own code (`AccountDelete`, `GroupDelete`, ...: the positions they
remember, the arrays they splice and the totals they count down all differ). The
delete dialog does not block the page, so searches go on under it. `PortalLists`
has the two lists of the portal: the form's page and limit beside those of the
pagination bar, which corrects its own page when the total shrinks (`Correct`).
`MatchesPage` has three search forms, a node menu and the states of matches, kept in
arrays by position.

`LatestSearch` is what a searchable list promises: the answer on the screen is that
of the last search, or of the one before while it waits or was given up. The
accounts and the collections page implement it (`LatestSearchShown`,
`LatestCollections`: `wanted`, `shown` and `ongoingQuery` are the mapping). The other
pages do not unsubscribe from the search they replace, make no such promise, and are
mapped to a list that never searches.

What the lists meet of the server:

* Items are numbers in the order it lists them (`Ascending`), and a cursor names the item
  next to which a page ends: `c` asks for what comes after item `c`, `-c` for what comes
  before it, as the notifications, purchases, subscriptions, records and the ledger do
  (`NextOf`, `PrevOf`). The leaderboards' cursor is an offset (`leaderboard_cache.go:310`);
  what the page can delete lies before it, so it names the same place. Searches that the
  server answers in one piece have no cursor (`Paged`); a cursor that does not go with
  the filters is an error (`SearchFailed`).
* The total comes from the statistics of the database (`countDatabase`), so it is any
  member of `Estimates`, and the page counts *that* down. Only the leaderboards, which
  are kept in memory, are counted.
* A delete and its answer are two steps (`ServerDeletes`, `Done`), and a listing may be
  made or answered in between. Deleting an account that is gone, or a tombstone, changes
  nothing and is answered with success.
* The component of the accounts writes `filter_type` to the URL and the resolver reads
  `tombstones`: a reload loses the menu's "tombstones only" (`Text`), which the form still
  has.

Run `console_lists`, `MCLists` (0.8 million states): three items on pages of two, with a
filter that takes one out and one that is answered in one piece, so there is a first, a
last and a filtered page, and of the accounts a fourth that is a tombstone; two searches
and a delete under way, or two deletes where rows unfold; portal totals up to three with a
page size of two and limits one, two and three, so that a page can lie past the end by
more than one; two matches with two requests under way, or one node and two texts with one
request. Every list is visited by a user who waits, and the accounts, leaderboards and
records also by one who does not.

* `ListIsServed`: a list at rest shows no deleted item, and the total of the leaderboards
  is right, at every page and after every sequence without an error in which no delete
  was open (dialog, request or answer) beside a search or another delete. `crossed`, which
  remembers that one was, holds for any user, not only for the one who waits.
* `FlagsFollowRows` (any user): records, wallet and chat keep each unfolded row
  unfolded.
* `BarFitsList`: the bar stands on the page shown, and "none found" is true.
* `OpenShowsOrWaits`, `UrlNamesList`: the matches page never shows an endless spinner
  and its URL lists the same again.
* `LatestShown`: the refinement above.

Observed, and promised by nothing: a delete answered after another delete or a search
takes the row that is at its position by then, and is counted twice if the search
already came without it; the groups, storage and leaderboard
lists show whichever search is answered last; the notifications list does not splice
its flags; notifications, purchases and subscriptions take over rows and cursors of a
late answer;
a collections page number in the URL moves the list and not the bar (the limit in the URL
fills the form's limit, which no control of that page changes), and if it lies past the
end the page stays empty; the state shown beside a match may be that of the match that was
at its position when it was asked for.

### Proofs

`ListProofs` proves the type invariant and all five properties for any number of items,
any page size, filters, matches, texts, limits and visits (`ListAssumption` and
`ListPagesAssumption`: the types of the constants, page sizes and limits positive, the
empty filter among those of every visit, finitely many matches and none that is one of the
marks for a missing state).

* `ListsBase` is the inductive core of `ConsoleLists`: types; nothing was asked or deleted
  before `ngOnInit` (`NotYet`); no row is there twice (`RowsOnce`); on the accounts page at
  most one search is under way and it is the last one (`LastAsked`, `takeUntil`).
* `FlagsStayWithRows` goes through `FlagOfEachRow`, the property position by position: a
  splice moves rows and flags up together. It needs `RowsOnce`, for what the user unfolded
  is remembered by item, and a row that is there twice would have one flag of two.
* `ListStaysServed` adds `ServedAlone`: until something crosses, one delete at most is open
  and no search beside it (`OneAtATime`), what is under way knows the list as it is
  (`UpToDate`), and meanwhile the rows are the server's but for the one whose delete is
  done and not answered; the leaderboards' total is then one too high (`RowsServed`).
* `LatestAlwaysShown` is the refinement: `LastAsked` and `PortalLastAsked` make each step of
  either page a step of `LatestSearch` or a stutter, initial states included
  (`AccountsShowLatest` for the accounts). The mapping is total: pages that promise nothing
  are mapped to a list that never searches, and the theorem says nothing of them.
* `BarAlwaysFits` comes from `PortalInv`: the bar is asked for the page it shows
  (`PageWanted`) and the rows are as many as total, page and limit of the *answered*
  search leave (`RowsFitTotal`).
* `OpenAlwaysShowsOrWaits` and `UrlAlwaysNamesList` come from `MatchesInv`: a search under
  way was made with the type the page still holds, and unless the forms were used since it
  is the one the URL is going to name (`AskedIsNamed`).

## 8. Edits: `ConsoleEditors`, `ConsoleMembers`, `NftForms`

`ConsoleEditors` is the page of an account, group or leaderboard with its tabs: the
page's copy, the open tab's form and alerts, the buttons. A tab that is left is
destroyed, and the answer to its save (`old`) meets nobody. `ConsoleMembers` has the
five lists that are edited in place, with the server's own rules for promotion,
demotion and kicking (`console_group.go`, `core_group.go`); it lists them by state, those
of the same state in any order (`Listings`). `NftForms` has the four portal forms and the
contract dialog; a save sends what the form holds, a link what the page's copy holds. The
preview of a file comes when the file is read (`onload`), its address when the upload is
answered, and a page whose save was answered is left when the list it goes to is resolved
(`Navigate`, `Left`): until then its form can be submitted again.

What they meet of the console server:

* `UpdateAccount` leaves out empty metadata and an empty wallet and answers with success
  (`Skips`, `console_account.go:551`, `:643`, `:674`); empty metadata of a group are
  refused. Updates and bans of an account that was deleted are answered with success as
  well (`FineIfGone`).
* A button is switched off through `event.target`, which is the button only where neither
  its icon nor the span of its label is hit (`Hits`, `Off`): the ban button mostly stays
  on. The account has two delete buttons, each with a state of its own.
* Adding to a group takes several ids (`add`). `AddGroupUsers` is one transaction and
  accepts those who asked to join; with join_request set the ids are joined one by one, so
  that an error may leave some of them in the group: "Refresh the page to see any
  updates." (`console_group.go:542-557`), which the page does not do. The banned are
  passed over without an error.

Run `console_edits`, `MCEdits` (1.5 million states): two values and the empty one, two
requests under way and two in all for the object pages (a save or ban, and another that
crosses it), three in all where only bans are sent, two people, all identity providers,
two requests under way and three in all for the lists (two for unlinks), two names and images, two requests
under way and two in all for the forms, three for a user who waits. Two people are enough
for a row to move up when another is deleted, and for an add that fails half-way; two
images for one upload to overtake another.

* `SaveIsShown`: while a tab says that it was saved the server has what it saved, or has
  skipped it, unless the object is gone or an earlier visit to the tab was left with its
  save under way; the button is off exactly while the tab's own save is under way.
* `BanIsShown`: with no ban under way the page knows whether the account is banned,
  however often and wherever the button was hit, double clicks included, unless an answer
  was lost or a ban and an unban were under way at once (`mixed`).
* `ShownIsServed`: with nothing under way the rows are the server's, after adds of one or
  several and through any overlap of promotions and demotions, unless other edits
  overlapped, an answer was lost or a join was refused half-way; the form of a new user is
  never left disabled.
* `PreviewIsAvatar`, `LinkKeepsRest`: what is previewed is what is saved, and linking a
  contract changes nothing else.

Observed: an unban can be sent while a second ban is under way, and the page is then wrong
about the account; "saved" is shown for an empty wallet that was not stored; a tab opened
again shows the page's old copy, not what was saved; an export or delete button hit on its
icon can be hit twice; the page of a collection keeps an old preview when it reads the
collection again (`PreviewIsAvatar` is not about that page); a portal form makes as many
records as it was submitted, by a double click, a retry after a lost answer, or a click
while the list it goes to is being fetched.

### Proofs

`EditProofs` proves the type invariant and the five properties of the run for any values,
people, providers, names, images, contracts and bounds (`EditorsAssumption` and
`EditPagesAssumption`: types, a finite set of people, room for one attribute, and no
contract that is the mark for none).

* `EditInv`, for `SavedIsShown` and `BannedIsShown`: a tab has at most one save under way,
  exactly while its button is off, and it carries what the tab saved last (`SavesTrue`);
  bans under way ask for the same, before one is served the page's copy is right,
  afterwards its answer is (`BansTrue`).
  Both alerts are about the *next* answer, which is why neither is inductive.
* `FormsInv`, for `AvatarIsPreviewed` and the action property `LinkKeepsRestOfItem`: every
  record made was asked for, by counting the saves that are not yet served
  (`MadeOnRequest`, which the bound on records in the type invariant needs); at most one
  file is being read, and an upload under way brings the image that is shown or will be
  (`ImageUnderWay`); a user who waits has one request under way (`OneAtATime`); until the
  page is about to be left, its copy and the portal's record differ in contract and
  visibility only (`CopyAgrees`).
* `MembersInv`, for `MembersShownServed`. Promotions and demotions overlap at will, so what
  is inductive is an equation: the state in a row is the server's plus the promotions and
  minus the demotions that were made and are not yet answered (`Follows`, counted by
  `Unanswered`). Serving one changes the server's state and the count, answering it the row
  and the count. Everything else is under way alone (`UnderWayAlone`), and `OneEdit` says
  what such a request leaves to do: after a delete was made the rows are the server's list
  and one more, at the position of the request or of the selection (`ListsBut`); after an
  add, of any number of people, nothing is known until a listing is answered, and that
  answer is the server's list. The number of rows comes from a bijection between
  positions and people, for which the people have to be finitely many.

CHECK_DEADLOCK is off in this run and in `console_pages`: an object that was deleted,
a dialog that was closed or a used-up bound leaves nothing to do.

## 9. Pages: `StorageObjectPage`, `StatusPage`, `ConfigPage`, `ConfigTree`, `ApiExplorer`

`StorageObjectPage` is one object's page against a storage table that everybody
writes. A version is a hash of the value, so the model uses the value itself.
`StatusPage` is the timer, the range menu and one of the four graphs; the points made up
for a new node are spaced by the range, back from now, and the clocks of browser and
server are one. `ConfigPage` has imports and the deletion of all data. `ConfigTree` is the
pure function `flattenConfig`, whose result, a sequence, is checked against a reference
definition (the set of paths to values and lists, each once). `ApiExplorer` has the
endpoint, the editors and the calls; that a template may be no JSON is left out, for the
server makes the templates.

Run `console_pages`, `MCPages`: two places, values and permissions and three writes;
two nodes, series of two points, two ranges and three answers; two drops of up to two
files and two deletes; three endpoints (a function, one with a template, one without)
and three calls; configurations three objects deep, one name of which is `env`. Three
writes are a save, somebody else's and another save; two points show whether a series
was shifted; three objects are where the listed name loses its first part.

* `VersionIsCurrent`, `SavesOverSeen`: see the proofs.
* `SeriesLineUp`: the series of all nodes end with the same answer, and wherever two of
  them have an answered point it is of the same answer, whatever overtakes and however
  late a node joined. That the answers come in the order of time it does not say.
* `PollsAtRange`: the page polls at the range of the menu, and not once it was left,
  unless a change of the range is answered after that.
* `FlagsTellTruth`: nothing stays switched off; "successfully imported" is true for
  files dropped one by one.
* `EditorsFitCall`: body and endpoint, response and last call belong together.
* `EverySettingListed`: every setting outside `env` is listed exactly once, under its name.

Observed: after a copy to another place the object takes its name from the form as it
is when the answer arrives, so typing meanwhile gives it a version of another object;
a drop of several files shows the flags of the last answer; the text DELETE stays in
the form after the deletion; an endpoint from the URL leaves the body empty and read
only; settings more than two objects deep can be listed under the same name.

### Proofs

`StorageProofs` proves, for any objects, values, permissions and any `MaxWrites` (the
assumption `StorageAssumption`: the two marks `Gone` and `AnyVersion` are not values, and the
bound is a number), `TypeCorrect`, `VersionAlwaysCurrent` and `NothingUnseenReplaced`.
Neither of the last two is inductive, because each is about what the *next* answer
makes of the page. The inductive invariant `StorageInv` adds:

* `SaveFits`: the save under way is what the form and the object would send again; a
  patient user changes neither while it is under way, which is where patience is used;
* `WrittenIsLast`: once written, the row of the object named last has the save's value,
  until somebody else writes it;
* `VersionSeen`: the page has read or written the version it would save over, and,
  when the save is done, the one it is about to take.

`NothingUnseenReplaced` then follows for one step: a save in place carries the object's
version, the server only accepts it if the row has that version, and `VersionSeen` says
it was seen.

`PageProofs` proves the rest of the run for any nodes, ranges, length of the series, drops,
deletes, endpoints and calls (`ConsolePagesAssumption`: types, and a series has at least
one point):

* `SeriesAlwaysLineUp` and `TimerFollowsRange` from `StatusInv`, their conjunction with the
  types: with the types they are inductive. The work is in the lemmas about the answer of a
  poll, which shifts the series of every node it names and starts those of new ones;
* `ConfigFlagsTrue` from `ConfigInv`: files belong to drops that were made (`DropsKnown`),
  and for files dropped one by one at most one is under way, no success is shown meanwhile,
  and its drop has lost nothing unless it is the one refused (`OneByOne`);
* `ExplorerEditorsFit` from `ExplorerInv`: the body belongs to the endpoint once one was
  chosen on the page (`RequestFits`), and for a user who waits the call under way is the
  last one made (`LastCallShown`);
* `PageTypesCorrect`, the types of the four pages.

Only model-checked: `EverySettingListed`, because `flattenConfig` is recursive over a tree,
and, of the console as a whole, the liveness property `RevokedSessionLeaves`.

## 10. Disagreements between code and comments

| run | the code says | the run shows |
|---|---|---|
| `party_tickets` | "The party membership has changed, stop any ongoing matchmaking processes." (`party_handler.go:110`) | a ticket of the old membership is added after the change |
| `tracker_single` | "Allow the current session, only disconnect any older ones." (`session_registry.go:146`) | a newer session is closed by an older one's goroutine |
| `party_join_hook` | "Should not happen, this process is just a confirmation." (`party_handler.go:213`) | two guests fill an open party before the creator's join event is dispatched: the branch is taken and the leader is not a member |

Some hazards are reachable in the models, so that no property excludes them; each property
names in its premise the one it leaves out, and `PROJECT.json` says so under "hazards":

| what happens | where | left out of |
|---|---|---|
| a leader of a party without members, after `Remove` lost a race | `party_handler.go:484` | nothing forbids it; `PartyGroup` allows it |
| a second login during a navigation | `base.component.ts:178` | `RoleFitsPage` (`PatientUser`) |
| a delete takes the row at its old position, or is counted twice | `accounts.component.ts:132` | `ListIsServed` (`crossed`) |
| forms changed before the answer get into the URL | `matches.component.ts:121` | `UrlNamesList` (`touched`) |
| a page past the end from the URL | `collections.component.ts:55` | `BarFitsList` (`fromUrl`) |
| an empty wallet is "saved" | `console_account.go:643` | `SaveIsShown` (`Skips`) |
| a ban and an unban at once | `account.component.ts:63` | `BanIsShown` (`mixed`) |
| overlapping deletes, unlinks and listings | `groupMembers.component.ts:68`, `users.component.ts:50` | `ShownIsServed` (`overlap`) |
| a join refused half-way | `console_group.go:542` | `ShownIsServed` (`lost`) |
| uploads that overtake or fail | `createCollection.component.ts:61` | `PreviewIsAvatar` (`raced`, `failed`) |
| one form, several records | `createCollection.component.ts:95` | no property |
| typing while a save is under way | `storage-object.component.ts:85` | `VersionIsCurrent`, `SavesOverSeen` (`patient`) |
| a range answered after the page was left | `status.component.ts:155` | `PollsAtRange` (`late`) |
| several files in one drop | `config.component.ts:134` | the second part of `FlagsTellTruth` (`OneFile`) |
| an endpoint from the URL | `apiexplorer.component.ts:162` | `EditorsFitCall` (`chosen`) |

## 11. Not modelled

Of the server, beyond the plan's steps 7 to 10: the SQL-backed services, the runtimes,
the API layer and the clients of external services (see `PROJECT.json`). Within the
modelled components, and known to be hard: an untrack sent by a peer, whose key is
built with the receiver's node name and finds nothing; a push/pull on join that clears
the presences of third nodes; the `UpdateTrack` log without a handler; a presence event
whose joins are dispatched before its leaves. Their effect is on what replicas agree
about, which is `PeerLog`'s subject.

Of the console: `console.service.ts` is generated from the API description, one HTTP
call per method without state; the runtime page shows what its resolver fetched;
`collections/detail` is declared but not routed; `app.module.ts`, `app.component.ts`
and the environment files are start-up. `deleteObject` of the storage object page has
no button. The members page switches route reuse off for the whole application, so
that later changes of a query parameter rebuild their page; the models of the lists
have one page each, and a model of the router is left for later.
