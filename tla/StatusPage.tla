----------------------------- MODULE StatusPage -----------------------------
(***************************************************************************)
(* StatusComponent of the console UI: a timer polls the status of the       *)
(* cluster and every answer shifts the graphs by one point.  The user may   *)
(* choose another range, which asks for the status once more and then       *)
(* starts the graphs and the timer again.  Polls are not waited for: the    *)
(* next one leaves while the last is under way, and answers overtake.       *)
(*                                                                         *)
(* The four graphs differ in the value they plot and in nothing else; one   *)
(* of them is modelled.  A point is its time, whether the node was up, and  *)
(* whether it is an answer's or a zero the page made up.                    *)
(***************************************************************************)
EXTENDS Integers, SequencesExt

CONSTANTS Names,        \* nodes of the cluster
          samples,      \* points of a series (60 in the code)
          Ranges,       \* ranges of the menu, as polling periods
          MaxReqs,      \* bound: requests under way
          MaxTime       \* bound: answers of the server

Off == -1

VARIABLES
    page,       \* new, open, or left
    range,      \* rangeForm, as a period
    timer,      \* the period of the timer that is subscribed to, or Off
    graph,      \* the series of each node that has one
    reqs,       \* requests under way: refresh or reset, and the answer once served
    now,        \* the server's clock, one tick for each status it gives
    up,         \* nodes that are in the cluster
    failed,     \* history: a reset failed
    late        \* history: a reset was answered after the page was left

vars == <<page, range, timer, graph, reqs, now, up, failed, late>>

Point == [t: Int, up: BOOLEAN, answered: BOOLEAN]
Status == [t: Nat, up: SUBSET Names]
Unserved == [t |-> 0, up |-> {}]
Req == [kind: {"resolve", "refresh", "reset"}, got: Status]

TypeOK ==
    /\ page \in {"new", "open", "left"}
    /\ range \in Ranges /\ timer \in Ranges \cup {Off}
    /\ DOMAIN graph \subseteq Names
    /\ \A n \in DOMAIN graph : graph[n] \in Seq(Point) /\ Len(graph[n]) = samples
    /\ reqs \in Seq(Req)
    /\ now \in 0 .. MaxTime /\ up \subseteq Names
    /\ failed \in BOOLEAN /\ late \in BOOLEAN

-----------------------------------------------------------------------------
(* The graphs.                                                             *)

\* A series of zeros, a period of the menu apart, the last one a period before now.
\* The browser's clock is taken to be the server's.
generateSeries ==
    [k \in 1 .. samples |-> [t |-> now - (samples + 1 - k) * range, up |-> FALSE, answered |-> FALSE]]

initData(names) == [n \in names |-> generateSeries]

\* Mutated: the series grows.
growData(data, value, ts) == Append(data, [t |-> ts, up |-> value, answered |-> TRUE])
shiftData(data, value, ts) == Append(Tail(data), [t |-> ts, up |-> value, answered |-> TRUE])

\* Mutated: a node that is not in the answer is left as it is.
updateDataPresent(current, data) ==
    [n \in DOMAIN current \cup data.up |->
        IF n \in data.up
        THEN shiftData(IF n \in DOMAIN current THEN current[n] ELSE generateSeries, TRUE, data.t)
        ELSE current[n]]

\* Nodes that are gone get a point with 0, new ones a series of their own.
updateData(current, data) ==
    [n \in DOMAIN current \cup data.up |->
        shiftData(IF n \in DOMAIN current THEN current[n] ELSE generateSeries,
                  n \in data.up, data.t)]

-----------------------------------------------------------------------------
(* Requests.                                                               *)

Send(kind) ==
    /\ Len(reqs) < MaxReqs
    /\ reqs' = Append(reqs, [kind |-> kind, got |-> Unserved])

\* The server gives its status, stamped with the time.
Serve(k) ==
    /\ k \in DOMAIN reqs /\ reqs[k].got.t = 0 /\ now < MaxTime
    /\ now' = now + 1
    /\ reqs' = [reqs EXCEPT ![k].got = [t |-> now + 1, up |-> up]]
    /\ UNCHANGED <<page, range, timer, graph, up, failed, late>>

\* Nodes come and go.
Change(u) ==
    /\ u # up /\ up' = u
    /\ UNCHANGED <<page, range, timer, graph, reqs, now, failed, late>>

Answer(k, kind) ==
    /\ k \in DOMAIN reqs /\ reqs[k].kind = kind /\ reqs[k].got.t > 0

-----------------------------------------------------------------------------
(* The page.                                                               *)

\* GraphInitNodesResolver has the names, or none when the status cannot be had:
\* the page opens with a first poll, and a timer whose first tick is at once.
ngOnInit(k) ==
    /\ page = "new" /\ k \in DOMAIN reqs /\ reqs[k].kind = "resolve"
    /\ \/ reqs[k].got.t > 0 /\ graph' = initData(reqs[k].got.up)
       \/ graph' = initData({})
    /\ page' = "open"
    /\ timer' = range
    /\ reqs' = RemoveAt(reqs, k) \o <<[kind |-> "refresh", got |-> Unserved]>>
    /\ UNCHANGED <<range, now, up, failed, late>>

\* A tick of the timer, of the page that is open or of one that was left.
refresh ==
    /\ timer # Off
    /\ Send("refresh")
    /\ UNCHANGED <<page, range, timer, graph, now, up, failed, late>>

Refreshed(k) ==
    /\ Answer(k, "refresh")
    /\ graph' = updateData(graph, reqs[k].got)
    /\ reqs' = RemoveAt(reqs, k)
    /\ UNCHANGED <<page, range, timer, now, up, failed, late>>

RefreshFailed(k) ==
    /\ k \in DOMAIN reqs /\ reqs[k].kind = "refresh"
    /\ reqs' = RemoveAt(reqs, k)
    /\ UNCHANGED <<page, range, timer, graph, now, up, failed, late>>

\* The menu: the form takes the range, then reset asks for the nodes.
setRange(r) ==
    /\ page = "open"
    /\ range' = r
    /\ Send("reset")
    /\ UNCHANGED <<page, timer, graph, now, up, failed, late>>

\* Mutated: the first timer goes on.
NewTimerOnce == IF timer = Off THEN range ELSE timer
\* Unsubscribe from the timer, start one with the period of the form as it is now.
NewTimer == range

reset(k) ==
    /\ Answer(k, "reset")
    /\ graph' = initData(reqs[k].got.up)
    /\ timer' = NewTimer
    /\ late' = (late \/ page = "left")
    /\ failed' = FALSE
    /\ reqs' = RemoveAt(reqs, k)
    /\ UNCHANGED <<page, range, now, up>>

\* The error is shown; the old timer and graphs go on.
ResetFailed(k) ==
    /\ k \in DOMAIN reqs /\ reqs[k].kind = "reset"
    /\ failed' = TRUE
    /\ reqs' = RemoveAt(reqs, k)
    /\ UNCHANGED <<page, range, timer, graph, now, up, late>>

ngOnDestroy ==
    /\ page = "open" /\ page' = "left"
    /\ timer' = Off
    /\ UNCHANGED <<range, graph, reqs, now, up, failed, late>>

-----------------------------------------------------------------------------
Init ==
    /\ page = "new" /\ range \in Ranges /\ timer = Off
    /\ graph = initData({})
    /\ reqs = <<[kind |-> "resolve", got |-> Unserved]>>
    /\ now = 0 /\ up \in SUBSET Names
    /\ failed = FALSE /\ late = FALSE

Next ==
    \/ refresh \/ ngOnDestroy
    \/ \E r \in Ranges : setRange(r)
    \/ \E u \in SUBSET Names : Change(u)
    \/ \E k \in DOMAIN reqs :
          \/ Serve(k) \/ ngOnInit(k)
          \/ Refreshed(k) \/ RefreshFailed(k) \/ reset(k) \/ ResetFailed(k)

Spec == Init /\ [][Next]_vars

-----------------------------------------------------------------------------
(* Properties.                                                             *)

\* The graphs line up: although nodes come and go and answers overtake one
\* another, every series ends with a point of the same answer, and wherever two series
\* both have a point of an answer it is the same answer, however late a node joined: the
\* lines of one graph share their time axis but for the zeros made up for a new node
\* ("If a node is not present in the results anymore, append a new point with 0 value",
\* status.component.ts, is what makes it so).
SeriesLineUp ==
    \A m, n \in DOMAIN graph :
       /\ graph[m][samples].t = graph[n][samples].t
       /\ \A k \in 1 .. samples :
             graph[m][k].answered /\ graph[n][k].answered => graph[m][k].t = graph[n][k].t

\* The page that is open polls as often as the menu says, whichever order the answers
\* to several changes of the range come in, unless one of them failed; then it still
\* polls.  The page that was left does not, unless a change of the range was answered
\* after it was left.
PollsAtRange ==
    /\ page = "open" => timer # Off
    /\ page = "open" /\ ~failed /\ (\A k \in DOMAIN reqs : reqs[k].kind # "reset") => timer = range
    /\ page = "left" /\ ~late => timer = Off
=============================================================================
