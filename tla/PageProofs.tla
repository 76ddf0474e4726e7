----------------------------- MODULE PageProofs -----------------------------
(***************************************************************************)
(* Proofs about the status, configuration and API explorer pages, for any  *)
(* number of nodes, points, ranges, files, deletes, endpoints and calls.   *)
(* The storage object has proofs of its own.                               *)
(***************************************************************************)
EXTENDS ConsolePages, StorageProofs, SequenceLemmas

-----------------------------------------------------------------------------
(* StatusPage.                                                             *)

\* The types of the requests and of the answer one brings.
LEMMA RequestTyped ==
    ASSUME Status!TypeOK, NEW k \in DOMAIN sReqs
    PROVE  /\ sReqs[k] \in Status!Req /\ sReqs[k].got \in Status!Status
           /\ sReqs[k].got.t \in Nat /\ sReqs[k].got.up \subseteq Names
<1>1. sReqs[k] \in Status!Req
  BY DEF Status!TypeOK
<1> QED
  BY <1>1 DEF Status!Req, Status!Status

\* A fresh series has all its points, none of an answer.
LEMMA FreshSeries ==
    ASSUME StatusConstants, Status!TypeOK
    PROVE  /\ Status!generateSeries \in Seq(Status!Point) /\ Len(Status!generateSeries) = samples
           /\ \A k \in 1..samples : ~Status!generateSeries[k].answered
<1>1. samples \in Nat /\ sNow \in Int /\ sRange \in Int
  BY DEF StatusConstants, Status!TypeOK
<1>2. ASSUME NEW k \in 1..samples
      PROVE  [t |-> sNow - (samples + 1 - k) * sRange, up |-> FALSE, answered |-> FALSE] \in Status!Point
  <2>1. (samples + 1 - k) * sRange \in Int
    BY <1>1
  <2> QED
    BY <1>1, <2>1 DEF Status!Point
<1>3. Status!generateSeries \in [1..samples -> Status!Point]
  BY <1>2 DEF Status!generateSeries
<1>4. Status!generateSeries \in Seq(Status!Point)
  BY <1>1, <1>3
<1>5. Len(Status!generateSeries) = samples
  BY <1>1, <1>3, <1>4
<1>6. \A k \in 1..samples : ~Status!generateSeries[k].answered
  BY DEF Status!generateSeries
<1> QED
  BY <1>4, <1>5, <1>6

\* A shifted series keeps its length and ends with the new point.
LEMMA ShiftedSeries ==
    ASSUME StatusConstants,
           NEW s \in Seq(Status!Point), Len(s) = samples, NEW v \in BOOLEAN, NEW ts \in Nat
    PROVE  /\ Status!shiftData(s, v, ts) \in Seq(Status!Point)
           /\ Len(Status!shiftData(s, v, ts)) = samples
           /\ Status!shiftData(s, v, ts)[samples].t = ts
           /\ \A k \in 1..samples : k # samples => Status!shiftData(s, v, ts)[k] = s[k + 1]
<1> DEFINE p == [t |-> ts, up |-> v, answered |-> TRUE]
<1>1. samples \in Nat /\ samples > 0
  BY DEF StatusConstants
<1>2. p \in Status!Point /\ p.t = ts
  BY DEF Status!Point
<1>3. s # <<>>
  BY <1>1
<1>4. /\ Tail(s) \in Seq(Status!Point) /\ Len(Tail(s)) = samples - 1
      /\ \A k \in 1..(samples - 1) : Tail(s)[k] = s[k + 1]
  BY <1>1, <1>3, HeadTailProperties
<1> HIDE DEF p
<1>5. /\ Append(Tail(s), p) \in Seq(Status!Point)
      /\ Len(Append(Tail(s), p)) = samples
      /\ Append(Tail(s), p)[samples] = p
      /\ \A k \in 1..(samples - 1) : Append(Tail(s), p)[k] = Tail(s)[k]
  BY <1>1, <1>2, <1>4, AppendProperties
<1>6. \A k \in 1..samples : k # samples => Append(Tail(s), p)[k] = s[k + 1]
  BY <1>1, <1>4, <1>5
<1> QED
  BY <1>2, <1>5, <1>6 DEF Status!shiftData, p

\* The series a node goes on with.
SeriesOf(n) == IF n \in DOMAIN sGraph THEN sGraph[n] ELSE Status!generateSeries

\* What an answer does to the graphs: old and new nodes have a series each, of full
\* length, all of them end with the time of the answer, and the rest moves up.
LEMMA GraphUpdated ==
    ASSUME StatusConstants, Status!TypeOK, NEW d \in Status!Status
    PROVE  /\ DOMAIN Status!updateData(sGraph, d) \subseteq Names
           /\ \A n \in DOMAIN Status!updateData(sGraph, d) :
                 /\ Status!updateData(sGraph, d)[n] \in Seq(Status!Point)
                 /\ Len(Status!updateData(sGraph, d)[n]) = samples
                 /\ Status!updateData(sGraph, d)[n][samples].t = d.t
                 /\ \A k \in 1..samples :
                       k # samples => Status!updateData(sGraph, d)[n][k] = SeriesOf(n)[k + 1]
<1>1. d.t \in Nat /\ d.up \subseteq Names
  BY DEF Status!Status
<1>2. DOMAIN sGraph \subseteq Names
  BY DEF Status!TypeOK
<1>3. DOMAIN Status!updateData(sGraph, d) = DOMAIN sGraph \cup d.up
  BY DEF Status!updateData
<1>4. ASSUME NEW n \in DOMAIN sGraph \cup d.up
      PROVE  /\ Status!updateData(sGraph, d)[n] \in Seq(Status!Point)
             /\ Len(Status!updateData(sGraph, d)[n]) = samples
             /\ Status!updateData(sGraph, d)[n][samples].t = d.t
             /\ \A k \in 1..samples :
                   k # samples => Status!updateData(sGraph, d)[n][k] = SeriesOf(n)[k + 1]
  <2> DEFINE v == n \in d.up
  <2>1. SeriesOf(n) \in Seq(Status!Point) /\ Len(SeriesOf(n)) = samples
    BY FreshSeries DEF SeriesOf, Status!TypeOK
  <2>2. v \in BOOLEAN
    OBVIOUS
  <2>3. Status!updateData(sGraph, d)[n] = Status!shiftData(SeriesOf(n), v, d.t)
    BY <1>4 DEF Status!updateData, SeriesOf
  <2> HIDE DEF v
  <2>4. PICK s : s = SeriesOf(n)
    OBVIOUS
  <2>5. s \in Seq(Status!Point) /\ Len(s) = samples
    BY <2>1, <2>4
  <2>6. PICK w : w = Status!shiftData(s, v, d.t)
    OBVIOUS
  <2>7. /\ w \in Seq(Status!Point) /\ Len(w) = samples /\ w[samples].t = d.t
        /\ \A k \in 1..samples : k # samples => w[k] = s[k + 1]
    <3>1. PICK ts \in Nat : ts = d.t
      BY <1>1
    <3>2. /\ Status!shiftData(s, v, ts) \in Seq(Status!Point)
          /\ Len(Status!shiftData(s, v, ts)) = samples
          /\ Status!shiftData(s, v, ts)[samples].t = ts
          /\ \A k \in 1..samples : k # samples => Status!shiftData(s, v, ts)[k] = s[k + 1]
      BY <2>2, <2>5, ShiftedSeries
    <3> QED
      BY <2>6, <3>1, <3>2
  <2>8. Status!updateData(sGraph, d)[n] = w
    BY <2>3, <2>4, <2>6
  <2> QED
    BY <2>4, <2>7, <2>8
<1> QED
  BY <1>1, <1>2, <1>3, <1>4

\* What fresh graphs look like.
LEMMA FreshGraph ==
    ASSUME StatusConstants, Status!TypeOK, NEW ns \in SUBSET Names
    PROVE  /\ DOMAIN Status!initData(ns) \subseteq Names
           /\ \A n \in DOMAIN Status!initData(ns) :
                 /\ Status!initData(ns)[n] \in Seq(Status!Point) /\ Len(Status!initData(ns)[n]) = samples
                 /\ Status!initData(ns)[n] = Status!generateSeries
<1>1. DOMAIN Status!initData(ns) = ns /\ \A n \in ns : Status!initData(ns)[n] = Status!generateSeries
  BY DEF Status!initData
<1> QED
  BY <1>1, FreshSeries

\* The requests that are left when one has been answered, and where a reset among them
\* comes from.
LEMMA AnsweredReqs ==
    ASSUME Status!TypeOK, NEW k \in DOMAIN sReqs
    PROVE  /\ RemoveAt(sReqs, k) \in Seq(Status!Req)
           /\ (\A i \in DOMAIN RemoveAt(sReqs, k) : RemoveAt(sReqs, k)[i].kind # "reset")
                 /\ sReqs[k].kind # "reset"
              => \A j \in DOMAIN sReqs : sReqs[j].kind # "reset"
<1>1. sReqs \in Seq(Status!Req)
  BY DEF Status!TypeOK
<1>2. /\ RemoveAt(sReqs, k) \in Seq(Status!Req)
      /\ \A j \in DOMAIN sReqs : j # k =>
            \E i \in DOMAIN RemoveAt(sReqs, k) : RemoveAt(sReqs, k)[i] = sReqs[j]
  BY <1>1, RemoveAtRest
<1> QED
  BY <1>2

\* A request more.
LEMMA SentReqs ==
    ASSUME Status!TypeOK, NEW kind \in {"refresh", "reset"}, Status!Send(kind)
    PROVE  /\ sReqs' \in Seq(Status!Req)
           /\ (\A i \in DOMAIN sReqs' : sReqs'[i].kind # "reset")
              => kind # "reset" /\ \A j \in DOMAIN sReqs : sReqs[j].kind # "reset"
<1> DEFINE r == [kind |-> kind, got |-> Status!Unserved]
<1>1. r \in Status!Req /\ r.kind = kind
  BY DEF Status!Req, Status!Unserved, Status!Status
<1>2. sReqs' = Append(sReqs, r)
  BY DEF Status!Send
<1>3. sReqs \in Seq(Status!Req)
  BY DEF Status!TypeOK
<1> HIDE DEF r
<1>4. /\ Append(sReqs, r) \in Seq(Status!Req)
      /\ DOMAIN Append(sReqs, r) = DOMAIN sReqs \cup {Len(sReqs) + 1}
      /\ \A i \in DOMAIN sReqs : Append(sReqs, r)[i] = sReqs[i]
      /\ Append(sReqs, r)[Len(sReqs) + 1] = r
  BY <1>1, <1>3, AppendRest
<1> QED
  BY <1>1, <1>2, <1>4

\* The answer of the server changes no request's kind.
LEMMA ServedReqs ==
    ASSUME StatusConstants, Status!TypeOK, NEW k \in DOMAIN sReqs, Status!Serve(k)
    PROVE  /\ sReqs' \in Seq(Status!Req)
           /\ DOMAIN sReqs' = DOMAIN sReqs
           /\ \A i \in DOMAIN sReqs : sReqs'[i].kind = sReqs[i].kind
<1> DEFINE g == [t |-> sNow + 1, up |-> sUp]
<1>1. g \in Status!Status
  BY DEF Status!Status, Status!TypeOK, StatusConstants
<1> HIDE DEF g
<1>2. sReqs' = [sReqs EXCEPT ![k].got = g]
  BY DEF Status!Serve, g
<1>3. sReqs \in Seq(Status!Req)
  BY DEF Status!TypeOK
<1>4. [sReqs[k] EXCEPT !.got = g] \in Status!Req /\ [sReqs[k] EXCEPT !.got = g].kind = sReqs[k].kind
  <2>1. sReqs[k] \in Status!Req
    BY RequestTyped
  <2> QED
    BY <1>1, <2>1 DEF Status!Req
<1>5. sReqs' = [sReqs EXCEPT ![k] = [sReqs[k] EXCEPT !.got = g]]
  BY <1>2
<1>6. DOMAIN sReqs' = DOMAIN sReqs
  BY <1>2
<1> QED
  BY <1>3, <1>4, <1>5, <1>6

\* The inductive invariant of the page.
StatusInv == Status!TypeOK /\ Status!SeriesLineUp /\ Status!PollsAtRange

\* The status page starts in its invariant ...
LEMMA StatusInit ==
    ASSUME StatusConstants, Status!Init
    PROVE  StatusInv
<1> DEFINE r == [kind |-> "resolve", got |-> Status!Unserved]
<1>1. r \in Status!Req
  BY DEF Status!Req, Status!Unserved, Status!Status
<1>2. sReqs = <<r>>
  BY DEF Status!Init
<1> HIDE DEF r
<1>3. sReqs \in Seq(Status!Req)
  BY <1>1, <1>2
<1>4. DOMAIN sGraph = {}
  BY DEF Status!Init, Status!initData
<1>5. sNow \in 0..MaxTime
  BY DEF Status!Init, StatusConstants
<1>6. sUp \subseteq Names
  BY DEF Status!Init
<1>7. Status!TypeOK
  BY <1>3, <1>4, <1>5, <1>6 DEF Status!Init, Status!TypeOK
<1> QED
  BY <1>4, <1>7 DEF Status!Init, StatusInv, Status!SeriesLineUp, Status!PollsAtRange

\* One step per operation of the page.
LEMMA StatusStep ==
    ASSUME StatusConstants, StatusInv, [Status!Next]_(Status!vars)
    PROVE  StatusInv'
<1>0. Status!TypeOK /\ Status!SeriesLineUp /\ Status!PollsAtRange /\ Status!Off \notin Ranges
  BY DEF StatusInv, StatusConstants, Status!Off
<1>1. CASE Status!refresh
  <2>1. Status!Send("refresh") /\ UNCHANGED <<sPage, sRange, sTimer, sGraph, sNow, sUp, sFailed, sLate>>
    BY <1>1 DEF Status!refresh
  <2>2. /\ sReqs' \in Seq(Status!Req)
        /\ (\A i \in DOMAIN sReqs' : sReqs'[i].kind # "reset")
           => \A j \in DOMAIN sReqs : sReqs[j].kind # "reset"
    BY <1>0, <2>1, SentReqs
  <2>3. Status!TypeOK'
    BY <1>0, <2>1, <2>2 DEF Status!TypeOK
  <2>4. Status!SeriesLineUp'
    BY <1>0, <2>1 DEF Status!SeriesLineUp
  <2>5. Status!PollsAtRange'
    BY <1>0, <2>1, <2>2 DEF Status!PollsAtRange
  <2> QED
    BY <2>3, <2>4, <2>5 DEF StatusInv
<1>2. CASE Status!ngOnDestroy
  <2>1. /\ sPage' = "left" /\ sTimer' = Status!Off
        /\ UNCHANGED <<sRange, sGraph, sReqs, sNow, sUp, sFailed, sLate>>
    BY <1>2 DEF Status!ngOnDestroy
  <2>2. Status!TypeOK'
    BY <1>0, <2>1 DEF Status!TypeOK
  <2>3. Status!SeriesLineUp'
    BY <1>0, <2>1 DEF Status!SeriesLineUp
  <2>4. Status!PollsAtRange'
    BY <1>0, <2>1 DEF Status!PollsAtRange
  <2> QED
    BY <2>2, <2>3, <2>4 DEF StatusInv
<1>3. ASSUME NEW r \in Ranges, Status!setRange(r) PROVE StatusInv'
  <2>1. /\ sPage = "open" /\ sRange' = r /\ Status!Send("reset")
        /\ UNCHANGED <<sPage, sTimer, sGraph, sNow, sUp, sFailed, sLate>>
    BY <1>3 DEF Status!setRange
  <2>2. /\ sReqs' \in Seq(Status!Req)
        /\ ~ \A i \in DOMAIN sReqs' : sReqs'[i].kind # "reset"
    BY <1>0, <2>1, SentReqs
  <2>3. Status!TypeOK'
    BY <1>0, <2>1, <2>2 DEF Status!TypeOK
  <2>4. Status!SeriesLineUp'
    BY <1>0, <2>1 DEF Status!SeriesLineUp
  <2>5. Status!PollsAtRange'
    BY <1>0, <2>1, <2>2 DEF Status!PollsAtRange
  <2> QED
    BY <2>3, <2>4, <2>5 DEF StatusInv
<1>4. ASSUME NEW u \in SUBSET Names, Status!Change(u) PROVE StatusInv'
  <2>1. sUp' \subseteq Names /\ UNCHANGED <<sPage, sRange, sTimer, sGraph, sReqs, sNow, sFailed, sLate>>
    BY <1>4 DEF Status!Change
  <2>2. Status!TypeOK'
    BY <1>0, <2>1 DEF Status!TypeOK
  <2>3. Status!SeriesLineUp'
    BY <1>0, <2>1 DEF Status!SeriesLineUp
  <2>4. Status!PollsAtRange'
    BY <1>0, <2>1 DEF Status!PollsAtRange
  <2> QED
    BY <2>2, <2>3, <2>4 DEF StatusInv
<1>5. ASSUME NEW k \in DOMAIN sReqs, Status!Serve(k) PROVE StatusInv'
  <2>1. sNow < MaxTime /\ sNow' = sNow + 1 /\ UNCHANGED <<sPage, sRange, sTimer, sGraph, sUp, sFailed, sLate>>
    BY <1>5 DEF Status!Serve
  <2>2. /\ sReqs' \in Seq(Status!Req) /\ DOMAIN sReqs' = DOMAIN sReqs
        /\ \A i \in DOMAIN sReqs : sReqs'[i].kind = sReqs[i].kind
    BY <1>0, <1>5, ServedReqs
  <2>3. sNow' \in 0..MaxTime
    BY <1>0, <2>1 DEF Status!TypeOK, StatusConstants
  <2>4. Status!TypeOK'
    BY <1>0, <2>1, <2>2, <2>3 DEF Status!TypeOK
  <2>5. Status!SeriesLineUp'
    BY <1>0, <2>1 DEF Status!SeriesLineUp
  <2>6. Status!PollsAtRange'
    BY <1>0, <2>1, <2>2 DEF Status!PollsAtRange
  <2> QED
    BY <2>4, <2>5, <2>6 DEF StatusInv
<1>6. ASSUME NEW k \in DOMAIN sReqs, Status!ngOnInit(k) PROVE StatusInv'
  <2> DEFINE r == [kind |-> "refresh", got |-> Status!Unserved]
  <2>1. /\ sPage' = "open" /\ sTimer' = sRange
        /\ sReqs' = RemoveAt(sReqs, k) \o <<r>>
        /\ UNCHANGED <<sRange, sNow, sUp, sFailed, sLate>>
    BY <1>6 DEF Status!ngOnInit, Status!RemoveAt, RemoveAt
  <2>2. PICK ns \in SUBSET Names : sGraph' = Status!initData(ns)
    BY <1>0, <1>6, RequestTyped DEF Status!ngOnInit, Status!RemoveAt, RemoveAt
  <2>3. r \in Status!Req
    BY DEF Status!Req, Status!Unserved, Status!Status
  <2> HIDE DEF r
  <2>4. sReqs' \in Seq(Status!Req)
    BY <1>0, <2>1, <2>3, AnsweredReqs, ConcatProperties
  <2>5. /\ DOMAIN sGraph' \subseteq Names
        /\ \A n \in DOMAIN sGraph' :
              /\ sGraph'[n] \in Seq(Status!Point) /\ Len(sGraph'[n]) = samples
              /\ sGraph'[n] = Status!generateSeries
    BY <1>0, <2>2, FreshGraph
  <2>6. Status!TypeOK'
    BY <1>0, <2>1, <2>4, <2>5 DEF Status!TypeOK
  <2>7. Status!SeriesLineUp'
    BY <2>5 DEF Status!SeriesLineUp
  <2>8. Status!PollsAtRange'
    BY <1>0, <2>1 DEF Status!PollsAtRange, Status!TypeOK
  <2> QED
    BY <2>6, <2>7, <2>8 DEF StatusInv
<1>7. ASSUME NEW k \in DOMAIN sReqs, Status!Refreshed(k) PROVE StatusInv'
  <2>1. /\ sReqs[k].kind = "refresh" /\ sGraph' = Status!updateData(sGraph, sReqs[k].got)
        /\ sReqs' = RemoveAt(sReqs, k)
        /\ UNCHANGED <<sPage, sRange, sTimer, sNow, sUp, sFailed, sLate>>
    BY <1>7 DEF Status!Refreshed, Status!Answer, Status!RemoveAt, RemoveAt
  <2>2. /\ sReqs' \in Seq(Status!Req)
        /\ (\A i \in DOMAIN sReqs' : sReqs'[i].kind # "reset")
           => \A j \in DOMAIN sReqs : sReqs[j].kind # "reset"
    BY <1>0, <2>1, AnsweredReqs
  <2>3. /\ DOMAIN sGraph' \subseteq Names
        /\ \A n \in DOMAIN sGraph' :
              /\ sGraph'[n] \in Seq(Status!Point) /\ Len(sGraph'[n]) = samples
              /\ sGraph'[n][samples].t = sReqs[k].got.t
              /\ \A j \in 1..samples : j # samples => sGraph'[n][j] = SeriesOf(n)[j + 1]
    <3>1. sReqs[k].got \in Status!Status
      BY <1>0, RequestTyped
    <3> QED
      BY <1>0, <2>1, <3>1, GraphUpdated
  <2>4. Status!TypeOK'
    BY <1>0, <2>1, <2>2, <2>3 DEF Status!TypeOK
  <2>5. Status!SeriesLineUp'
    <3> SUFFICES ASSUME NEW m \in DOMAIN sGraph', NEW n \in DOMAIN sGraph', NEW j \in 1..samples,
                        sGraph'[m][j].answered, sGraph'[n][j].answered
                 PROVE  sGraph'[m][j].t = sGraph'[n][j].t
      BY <2>3 DEF Status!SeriesLineUp
    <3>1. CASE j = samples
      BY <2>3, <3>1
    <3>2. CASE j # samples
      <4>1. j + 1 \in 1..samples
        BY <3>2 DEF StatusConstants
      <4>2. sGraph'[m][j] = SeriesOf(m)[j + 1] /\ sGraph'[n][j] = SeriesOf(n)[j + 1]
        BY <2>3, <3>2
      <4>3. m \in DOMAIN sGraph /\ n \in DOMAIN sGraph
        BY <1>0, <4>1, <4>2, FreshSeries DEF SeriesOf
      <4> QED
        BY <1>0, <4>1, <4>2, <4>3 DEF SeriesOf, Status!SeriesLineUp
    <3> QED
      BY <3>1, <3>2
  <2>6. Status!PollsAtRange'
    BY <1>0, <2>1, <2>2 DEF Status!PollsAtRange
  <2> QED
    BY <2>4, <2>5, <2>6 DEF StatusInv
<1>8. ASSUME NEW k \in DOMAIN sReqs, Status!RefreshFailed(k) PROVE StatusInv'
  <2>1. /\ sReqs[k].kind = "refresh" /\ sReqs' = RemoveAt(sReqs, k)
        /\ UNCHANGED <<sPage, sRange, sTimer, sGraph, sNow, sUp, sFailed, sLate>>
    BY <1>8 DEF Status!RefreshFailed, Status!RemoveAt, RemoveAt
  <2>2. /\ sReqs' \in Seq(Status!Req)
        /\ (\A i \in DOMAIN sReqs' : sReqs'[i].kind # "reset")
           => \A j \in DOMAIN sReqs : sReqs[j].kind # "reset"
    BY <1>0, <2>1, AnsweredReqs
  <2>3. Status!TypeOK'
    BY <1>0, <2>1, <2>2 DEF Status!TypeOK
  <2>4. Status!SeriesLineUp'
    BY <1>0, <2>1 DEF Status!SeriesLineUp
  <2>5. Status!PollsAtRange'
    BY <1>0, <2>1, <2>2 DEF Status!PollsAtRange
  <2> QED
    BY <2>3, <2>4, <2>5 DEF StatusInv
<1>9. ASSUME NEW k \in DOMAIN sReqs, Status!reset(k) PROVE StatusInv'
  <2>1. /\ sGraph' = Status!initData(sReqs[k].got.up) /\ sTimer' = sRange
        /\ sLate' = (sLate \/ sPage = "left") /\ sFailed' = FALSE
        /\ sReqs' = RemoveAt(sReqs, k)
        /\ UNCHANGED <<sPage, sRange, sNow, sUp>>
    BY <1>9 DEF Status!reset, Status!NewTimer, Status!RemoveAt, RemoveAt
  <2>2. sReqs' \in Seq(Status!Req)
    BY <1>0, <2>1, AnsweredReqs
  <2>3. /\ DOMAIN sGraph' \subseteq Names
        /\ \A n \in DOMAIN sGraph' :
              /\ sGraph'[n] \in Seq(Status!Point) /\ Len(sGraph'[n]) = samples
              /\ sGraph'[n] = Status!generateSeries
    <3>1. sReqs[k].got.up \in SUBSET Names
      BY <1>0, RequestTyped
    <3> QED
      BY <1>0, <2>1, <3>1, FreshGraph
  <2>4. Status!TypeOK'
    BY <1>0, <2>1, <2>2, <2>3 DEF Status!TypeOK
  <2>5. Status!SeriesLineUp'
    BY <2>3 DEF Status!SeriesLineUp
  <2>6. Status!PollsAtRange'
    BY <1>0, <2>1 DEF Status!PollsAtRange, Status!TypeOK
  <2> QED
    BY <2>4, <2>5, <2>6 DEF StatusInv
<1>10. ASSUME NEW k \in DOMAIN sReqs, Status!ResetFailed(k) PROVE StatusInv'
  <2>1. /\ sFailed' = TRUE /\ sReqs' = RemoveAt(sReqs, k)
        /\ UNCHANGED <<sPage, sRange, sTimer, sGraph, sNow, sUp, sLate>>
    BY <1>10 DEF Status!ResetFailed, Status!RemoveAt, RemoveAt
  <2>2. sReqs' \in Seq(Status!Req)
    BY <1>0, <2>1, AnsweredReqs
  <2>3. Status!TypeOK'
    BY <1>0, <2>1, <2>2 DEF Status!TypeOK
  <2>4. Status!SeriesLineUp'
    BY <1>0, <2>1 DEF Status!SeriesLineUp
  <2>5. Status!PollsAtRange'
    BY <1>0, <2>1 DEF Status!PollsAtRange
  <2> QED
    BY <2>3, <2>4, <2>5 DEF StatusInv
<1>11. CASE UNCHANGED Status!vars
  BY <1>0, <1>11 DEF Status!vars, StatusInv, Status!TypeOK, Status!SeriesLineUp, Status!PollsAtRange
<1> QED
  BY <1>1, <1>2, <1>3, <1>4, <1>5, <1>6, <1>7, <1>8, <1>9, <1>10, <1>11 DEF Status!Next

\* ... and stays in it.
LEMMA StatusInvariance == StatusConstants => (Status!Spec => []StatusInv)
<1> SUFFICES ASSUME StatusConstants PROVE Status!Spec => []StatusInv
  OBVIOUS
<1>1. Status!Init => StatusInv
  BY StatusInit
<1>2. StatusInv /\ [Status!Next]_(Status!vars) => StatusInv'
  BY StatusStep
<1> QED
  BY <1>1, <1>2, PTL DEF Status!Spec

\* Every node of a graph has a series of exactly samples points, and the timer, the
\* range and the requests under way stay in their domains, in StatusComponent.
THEOREM StatusTypeCorrect == Status!Spec => []Status!TypeOK
<1>1. Status!Spec => []StatusInv
  BY ConsolePagesAssumption, StatusInvariance
<1>2. StatusInv => Status!TypeOK
  BY DEF StatusInv
<1> QED
  BY <1>1, <1>2, PTL

\* However many polls are under way and in whichever order they are answered, and
\* whichever nodes come and go, updateData leaves all series ending at the same time, and
\* their points of answers at the same positions.
THEOREM SeriesAlwaysLineUp == Status!Spec => []SeriesLineUp
<1>1. Status!Spec => []StatusInv
  BY ConsolePagesAssumption, StatusInvariance
<1>2. StatusInv => SeriesLineUp
  BY DEF StatusInv, SeriesLineUp
<1> QED
  BY <1>1, <1>2, PTL

\* The timer follows the menu: the page that is open polls at the range of the form
\* when no reset is under way and none has failed, and never stops polling; a page
\* that was left polls only if a reset was answered afterwards.
THEOREM TimerFollowsRange == Status!Spec => []PollsAtRange
<1>1. Status!Spec => []StatusInv
  BY ConsolePagesAssumption, StatusInvariance
<1>2. StatusInv => PollsAtRange
  BY DEF StatusInv, PollsAtRange
<1> QED
  BY <1>1, <1>2, PTL

-----------------------------------------------------------------------------
(* ConfigPage.                                                             *)

File == [drop: 1..MaxDrops, at: Config!Stages]

\* Files belong to drops that were made, and only those lost any.
DropsKnown ==
    /\ cLost \subseteq 1..cDrops
    /\ \A k \in DOMAIN cFiles : cFiles[k].drop \in 1..cDrops

\* With files dropped one by one: at most one is under way; while it is, no success is
\* shown, and unless it was refused, its drop lost nothing.
OneByOne ==
    cOneFile =>
        /\ Len(cFiles) <= 1
        /\ cFiles # <<>> => ~cUploadSuccess
        /\ \A k \in DOMAIN cFiles : cFiles[k].at # "refused" => cDrops \notin cLost

ConfigInv == Config!TypeOK /\ DropsKnown /\ OneByOne /\ Config!FlagsTellTruth

\* What the upload flags and the files need, apart from their types.
UploadTrue ==
    /\ DropsKnown /\ OneByOne
    /\ (\A k \in DOMAIN cFiles : cFiles[k].at = "opening") => ~cUploading
    /\ cOneFile /\ cUploadSuccess => cDrops \notin cLost

\* The operations on the data to delete leave the files alone.
LEMMA UploadFrame ==
    ASSUME UploadTrue, UNCHANGED <<cOneFile, cUploading, cUploadSuccess, cFiles, cDrops, cLost>>
    PROVE  UploadTrue'
BY DEF UploadTrue, DropsKnown, OneByOne

\* The invariant in three parts that different actions change.
LEMMA ConfigInvParts ==
    ConfigInv <=> Config!TypeOK /\ UploadTrue /\ (cDeletes = <<>> => ~cDeleting)
BY DEF ConfigInv, UploadTrue, Config!FlagsTellTruth

\* A file that moves on, and the others.
LEMMA FileMoved ==
    ASSUME Config!TypeOK, NEW k \in DOMAIN cFiles, NEW a \in Config!Stages,
           cFiles' = [cFiles EXCEPT ![k].at = a]
    PROVE  /\ cFiles' \in Seq(File) /\ Len(cFiles') = Len(cFiles)
           /\ DOMAIN cFiles' = DOMAIN cFiles
           /\ cFiles'[k].at = a
           /\ \A i \in DOMAIN cFiles : cFiles'[i].drop = cFiles[i].drop
           /\ \A i \in DOMAIN cFiles : i # k => cFiles'[i] = cFiles[i]
<1>1. cFiles \in Seq(File)
  BY DEF Config!TypeOK, File
<1>2. cFiles[k] \in File
  BY <1>1
<1>3. /\ [cFiles[k] EXCEPT !.at = a] \in File
      /\ [cFiles[k] EXCEPT !.at = a].at = a
      /\ [cFiles[k] EXCEPT !.at = a].drop = cFiles[k].drop
  BY <1>2 DEF File
<1>4. cFiles' = [cFiles EXCEPT ![k] = [cFiles[k] EXCEPT !.at = a]]
  OBVIOUS
<1>5. DOMAIN cFiles' = DOMAIN cFiles
  BY <1>4
<1>6. cFiles' \in Seq(File) /\ Len(cFiles') = Len(cFiles)
  BY <1>1, <1>3, <1>4
<1> QED
  BY <1>3, <1>4, <1>5, <1>6

\* What is left when a file is through.
LEMMA FileGone ==
    ASSUME Config!TypeOK, NEW k \in DOMAIN cFiles, cFiles' = RemoveAt(cFiles, k)
    PROVE  /\ cFiles' \in Seq(File) /\ Len(cFiles') = Len(cFiles) - 1
           /\ \A i \in DOMAIN cFiles' : \E j \in DOMAIN cFiles : cFiles'[i] = cFiles[j]
<1>1. cFiles \in Seq(File)
  BY DEF Config!TypeOK, File
<1> QED
  BY <1>1, RemoveAtRest

\* The configuration page starts in its invariant.
LEMMA ConfigInit ==
    ASSUME ConfigConstants, Config!Init
    PROVE  ConfigInv
<1>1. /\ cOneFile \in BOOLEAN
      /\ cUploading = FALSE /\ cUploadSuccess = FALSE /\ cUploadError = FALSE
      /\ cDeleting = FALSE /\ cDeleteSuccess = FALSE /\ cDeleteError = FALSE
      /\ cConfirmDeleteForm = FALSE /\ cDialogs = 0 /\ cFiles = <<>> /\ cDrops = 0
      /\ cDeletes = <<>> /\ cAsked = 0 /\ cLost = {} /\ cRows \in BOOLEAN
  BY DEF Config!Init
<1>2. 0 \in 0..MaxDialogs /\ 0 \in 0..MaxDrops /\ 0 \in 0..MaxDeletes
  BY DEF ConfigConstants
<1>3. Config!TypeOK
  <2>1. cFiles \in Seq([drop: 1..MaxDrops, at: Config!Stages]) /\ cDeletes \in Seq(Config!At)
    BY <1>1
  <2>2. cDialogs \in 0..MaxDialogs /\ cDrops \in 0..MaxDrops /\ cAsked \in 0..MaxDeletes
    BY <1>1, <1>2
  <2>3. cLost \subseteq 1..MaxDrops
    BY <1>1
  <2> QED
    BY <1>1, <2>1, <2>2, <2>3 DEF Config!TypeOK
<1>4. UploadTrue
  BY <1>1 DEF UploadTrue, DropsKnown, OneByOne
<1> QED
  BY <1>1, <1>3, <1>4, ConfigInvParts

\* A drop of files keeps it.
LEMMA ConfigDropped ==
    ASSUME ConfigConstants, ConfigInv,
           NEW good \in 0..MaxFiles, NEW bad \in 0..MaxFiles, Config!dropped(good, bad)
    PROVE  ConfigInv'
<1> DEFINE f == [drop |-> cDrops + 1, at |-> "opening"]
           g == [k \in 1..good |-> f]
<1>0. Config!TypeOK /\ UploadTrue /\ (cDeletes = <<>> => ~cDeleting)
  BY ConfigInvParts
<1>1. /\ ~cUploading /\ cDrops < MaxDrops /\ (cOneFile => cFiles = <<>> /\ good + bad = 1)
      /\ cUploadError' = (bad > 0) /\ cUploadSuccess' = FALSE
      /\ cDrops' = cDrops + 1 /\ cFiles' = cFiles \o g
      /\ cLost' = IF bad > 0 THEN cLost \cup {cDrops + 1} ELSE cLost
      /\ UNCHANGED <<cOneFile, cUploading, cDeleting, cDeleteSuccess, cDeleteError,
                     cConfirmDeleteForm, cDialogs, cDeletes, cAsked, cRows>>
  BY DEF Config!dropped, Config!delete
<1>2. cDrops \in Nat /\ MaxDrops \in Nat /\ good \in Nat /\ bad \in Nat /\ cDrops + 1 \in 1..MaxDrops
  BY <1>0, <1>1 DEF Config!TypeOK, ConfigConstants
<1>3. f \in File /\ f.drop = cDrops + 1 /\ f.at = "opening"
  BY <1>2 DEF File, Config!Stages
<1> HIDE DEF f
<1>4. g \in Seq(File) /\ Len(g) = good /\ \A k \in 1..good : g[k] = f
  BY <1>2, <1>3
<1> HIDE DEF g
<1>5. cFiles \in Seq(File)
  BY <1>0 DEF Config!TypeOK, File
<1>6. /\ cFiles' \in Seq(File) /\ Len(cFiles') = Len(cFiles) + good
      /\ \A i \in 1..Len(cFiles) + good :
            cFiles'[i] = IF i <= Len(cFiles) THEN cFiles[i] ELSE g[i - Len(cFiles)]
  <2>1. /\ cFiles \o g \in Seq(File) /\ Len(cFiles \o g) = Len(cFiles) + Len(g)
        /\ \A i \in 1..Len(cFiles) + Len(g) :
              (cFiles \o g)[i] = IF i <= Len(cFiles) THEN cFiles[i] ELSE g[i - Len(cFiles)]
    BY <1>4, <1>5, ConcatProperties
  <2> QED
    BY <1>1, <1>4, <2>1
<1>7. \A i \in DOMAIN cFiles' : cFiles'[i] = f \/ (i \in DOMAIN cFiles /\ cFiles'[i] = cFiles[i])
  <2>1. Len(cFiles) \in Nat /\ DOMAIN cFiles = 1..Len(cFiles) /\ DOMAIN cFiles' = 1..Len(cFiles) + good
    BY <1>5, <1>6
  <2> TAKE i \in DOMAIN cFiles'
  <2>2. CASE i <= Len(cFiles)
    BY <1>6, <2>1, <2>2
  <2>3. CASE ~(i <= Len(cFiles))
    <3>1. i - Len(cFiles) \in 1..good
      BY <1>2, <2>1, <2>3
    <3> QED
      BY <1>4, <1>6, <2>1, <2>3, <3>1
  <2> QED
    BY <2>2, <2>3
<1>8. Config!TypeOK'
  <2>1. cLost' \subseteq 1..MaxDrops
    BY <1>0, <1>1, <1>2 DEF Config!TypeOK
  <2>2. cFiles' \in Seq([drop: 1..MaxDrops, at: Config!Stages])
    BY <1>6 DEF File
  <2>3. cDrops' \in 0..MaxDrops
    BY <1>1, <1>2
  <2>4. cUploadError' \in BOOLEAN
    BY <1>1
  <2> QED
    BY <1>0, <1>1, <2>1, <2>2, <2>3, <2>4 DEF Config!TypeOK
<1>9. DropsKnown'
  <2>1. cLost \subseteq 1..cDrops /\ \A k \in DOMAIN cFiles : cFiles[k].drop \in 1..cDrops
    BY <1>0 DEF UploadTrue, DropsKnown
  <2>2. 1..cDrops \subseteq 1..cDrops + 1 /\ cDrops + 1 \in 1..cDrops + 1
    BY <1>2
  <2>3. cLost' \subseteq 1..cDrops + 1
    BY <1>1, <2>1, <2>2
  <2>4. \A i \in DOMAIN cFiles' : cFiles'[i].drop \in 1..cDrops + 1
    BY <1>3, <1>7, <2>1, <2>2
  <2> QED
    BY <1>1, <2>3, <2>4 DEF DropsKnown
<1>10. OneByOne'
  <2> SUFFICES ASSUME cOneFile
               PROVE  /\ Len(cFiles') <= 1 /\ ~cUploadSuccess'
                      /\ \A k \in DOMAIN cFiles' : cFiles'[k].at # "refused" => cDrops' \notin cLost'
    BY <1>1 DEF OneByOne
  <2>1. cFiles = <<>> /\ good + bad = 1
    BY <1>1
  <2>2. Len(cFiles) = 0
    BY <2>1
  <2>3. Len(cFiles') = good /\ Len(cFiles') <= 1
    BY <1>2, <1>6, <2>1, <2>2
  <2>4. ASSUME NEW k \in DOMAIN cFiles' PROVE cDrops' \notin cLost'
    <3>1. good >= 1
      BY <1>2, <1>6, <2>3
    <3>2. bad = 0
      BY <1>2, <2>1, <3>1
    <3>3. cLost' = cLost /\ cLost \subseteq 1..cDrops /\ cDrops + 1 \notin 1..cDrops
      BY <1>0, <1>1, <1>2, <3>2 DEF UploadTrue, DropsKnown
    <3> QED
      BY <1>1, <3>3
  <2> QED
    BY <1>1, <2>3, <2>4
<1> QED
  BY <1>0, <1>1, <1>8, <1>9, <1>10 DEF ConfigInv, Config!FlagsTellTruth

\* The callbacks of one file: opened, imported or refused by the server, answered.
LEMMA ConfigFile ==
    ASSUME ConfigConstants, ConfigInv, NEW k \in DOMAIN cFiles,
           \/ Config!uploadFile(k) \/ Config!Import(k)
           \/ Config!Imported(k) \/ Config!ImportFailed(k)
    PROVE  ConfigInv'
<1>0. Config!TypeOK /\ UploadTrue /\ (cDeletes = <<>> => ~cDeleting)
  BY ConfigInvParts
<1>1. /\ cFiles \in Seq(File) /\ cFiles[k] \in File
      /\ cLost \subseteq 1..cDrops /\ \A i \in DOMAIN cFiles : cFiles[i].drop \in 1..cDrops
  <2>1. cFiles \in Seq(File)
    BY <1>0 DEF Config!TypeOK, File
  <2>2. cFiles[k] \in File
    BY <2>1
  <2> QED
    BY <1>0, <2>1, <2>2 DEF UploadTrue, DropsKnown
<1>2. cOneFile => Len(cFiles) = 1 /\ DOMAIN cFiles = {k} /\ ~cUploadSuccess
  <2>1. cOneFile => Len(cFiles) <= 1 /\ (cFiles # <<>> => ~cUploadSuccess)
    BY <1>0 DEF UploadTrue, OneByOne
  <2>2. Len(cFiles) \in Nat /\ DOMAIN cFiles = 1..Len(cFiles) /\ k \in 1..Len(cFiles) /\ cFiles # <<>>
    BY <1>1
  <2> QED
    BY <2>1, <2>2
<1>3. CASE Config!uploadFile(k)
  <2>1. /\ cFiles[k].at = "opening" /\ cUploading' = TRUE
        /\ cFiles' = [cFiles EXCEPT ![k].at = "sent"]
        /\ UNCHANGED <<cOneFile, cUploadSuccess, cUploadError, cDrops, cLost, cDeleting,
                       cDeleteSuccess, cDeleteError, cConfirmDeleteForm, cDialogs, cDeletes,
                       cAsked, cRows>>
    BY <1>3 DEF Config!uploadFile, Config!delete
  <2>2. "sent" \in Config!Stages
    BY DEF Config!Stages
  <2>3. /\ cFiles' \in Seq(File) /\ Len(cFiles') = Len(cFiles) /\ DOMAIN cFiles' = DOMAIN cFiles
        /\ cFiles'[k].at = "sent"
        /\ \A i \in DOMAIN cFiles : cFiles'[i].drop = cFiles[i].drop
        /\ \A i \in DOMAIN cFiles : i # k => cFiles'[i] = cFiles[i]
    BY <1>0, <2>1, <2>2, FileMoved
  <2>4. Config!TypeOK'
    BY <1>0, <2>1, <2>3 DEF Config!TypeOK, File
  <2>5. DropsKnown'
    BY <1>1, <2>1, <2>3 DEF DropsKnown
  <2>6. OneByOne'
    BY <1>0, <1>2, <2>1, <2>3 DEF OneByOne, UploadTrue
  <2>7. UploadTrue'
    BY <1>0, <2>1, <2>3, <2>5, <2>6 DEF UploadTrue
  <2> QED
    BY <1>0, <2>1, <2>4, <2>7 DEF ConfigInv, UploadTrue, Config!FlagsTellTruth
<1>4. CASE Config!Import(k)
  <2>1. /\ cFiles[k].at = "sent"
        /\ \/ cFiles' = [cFiles EXCEPT ![k].at = "done"] /\ cRows' = TRUE /\ UNCHANGED cLost
           \/ /\ cFiles' = [cFiles EXCEPT ![k].at = "refused"]
              /\ cLost' = cLost \cup {cFiles[k].drop} /\ UNCHANGED cRows
        /\ UNCHANGED <<cOneFile, cUploading, cUploadSuccess, cUploadError, cDrops, cDeleting,
                       cDeleteSuccess, cDeleteError, cConfirmDeleteForm, cDialogs, cDeletes, cAsked>>
    BY <1>4 DEF Config!Import, Config!delete
  <2>2. PICK a \in {"done", "refused"} :
          /\ cFiles' = [cFiles EXCEPT ![k].at = a]
          /\ a = "done" => cLost' = cLost
          /\ cLost' = cLost \/ cLost' = cLost \cup {cFiles[k].drop}
    BY <2>1
  <2>3. a \in Config!Stages
    BY DEF Config!Stages
  <2>4. /\ cFiles' \in Seq(File) /\ Len(cFiles') = Len(cFiles) /\ DOMAIN cFiles' = DOMAIN cFiles
        /\ cFiles'[k].at = a
        /\ \A i \in DOMAIN cFiles : cFiles'[i].drop = cFiles[i].drop
        /\ \A i \in DOMAIN cFiles : i # k => cFiles'[i] = cFiles[i]
    BY <1>0, <2>2, <2>3, FileMoved
  <2>5. Config!TypeOK'
    <3>1. cLost' \subseteq 1..MaxDrops
      BY <1>0, <1>1, <2>2 DEF Config!TypeOK, File
    <3>2. cFiles' \in Seq([drop: 1..MaxDrops, at: Config!Stages])
      BY <2>4 DEF File
    <3> QED
      BY <1>0, <2>1, <3>1, <3>2 DEF Config!TypeOK
  <2>6. DropsKnown'
    BY <1>1, <2>1, <2>2, <2>4 DEF DropsKnown
  <2>7. OneByOne'
    <3> SUFFICES ASSUME cOneFile, cFiles'[k].at # "refused" PROVE cDrops \notin cLost'
      BY <1>2, <2>1, <2>4 DEF OneByOne
    <3>1. cLost' = cLost
      BY <2>2, <2>4
    <3> QED
      BY <1>0, <2>1, <3>1 DEF UploadTrue, OneByOne
  <2>8. UploadTrue'
    BY <1>0, <1>2, <2>1, <2>2, <2>4, <2>6, <2>7 DEF UploadTrue
  <2> QED
    BY <1>0, <2>1, <2>5, <2>8 DEF ConfigInv, UploadTrue, Config!FlagsTellTruth
<1>5. CASE Config!Imported(k) \/ Config!ImportFailed(k)
  <2>1. /\ cFiles' = RemoveAt(cFiles, k) /\ cUploading' = FALSE
        /\ cUploadError' = cUploadError \/ cUploadError' = TRUE
        /\ \/ cUploadSuccess' = cUploadSuccess
           \/ cUploadSuccess' = TRUE /\ cFiles[k].at = "done"
        /\ UNCHANGED <<cOneFile, cDrops, cLost, cDeleting, cDeleteSuccess, cDeleteError,
                       cConfirmDeleteForm, cDialogs, cDeletes, cAsked, cRows>>
    <3>1. CASE Config!Imported(k)
      BY <3>1 DEF Config!Imported, Config!delete, Config!RemoveAt, RemoveAt
    <3>2. CASE Config!ImportFailed(k)
      BY <3>2 DEF Config!ImportFailed, Config!delete, Config!RemoveAt, RemoveAt
    <3> QED
      BY <1>5, <3>1, <3>2
  <2>2. /\ cFiles' \in Seq(File) /\ Len(cFiles') = Len(cFiles) - 1
        /\ \A i \in DOMAIN cFiles' : \E j \in DOMAIN cFiles : cFiles'[i] = cFiles[j]
    BY <1>0, <2>1, FileGone
  <2>3. Config!TypeOK'
    <3>1. cFiles' \in Seq([drop: 1..MaxDrops, at: Config!Stages])
      BY <2>2 DEF File
    <3>2. cUploadError' \in BOOLEAN /\ cUploadSuccess' \in BOOLEAN
      BY <1>0, <2>1 DEF Config!TypeOK
    <3> QED
      BY <1>0, <2>1, <3>1, <3>2 DEF Config!TypeOK
  <2>4. DropsKnown'
    BY <1>1, <2>1, <2>2 DEF DropsKnown
  <2>5. cOneFile => cFiles' = <<>> /\ Len(cFiles') = 0 /\ DOMAIN cFiles' = {}
    <3>1. cOneFile => Len(cFiles') = 0
      BY <1>2, <2>2
    <3>2. \A q \in Seq(File) : Len(q) = 0 => q = <<>> /\ DOMAIN q = {}
      OBVIOUS
    <3> QED
      BY <2>2, <3>1, <3>2
  <2>6. OneByOne'
    BY <2>1, <2>5 DEF OneByOne
  <2>7. UploadTrue'
    <3>1. cOneFile /\ cUploadSuccess' => cDrops \notin cLost
      BY <1>0, <1>2, <2>1 DEF UploadTrue, OneByOne
    <3> QED
      BY <2>1, <2>4, <2>6, <3>1 DEF UploadTrue
  <2> QED
    BY <1>0, <2>1, <2>3, <2>7 DEF ConfigInv, UploadTrue, Config!FlagsTellTruth
<1> QED
  BY <1>3, <1>4, <1>5

\* The operations that delete, and the close buttons of the alerts.
LEMMA ConfigRest ==
    ASSUME ConfigConstants, ConfigInv,
           \/ Config!deleteData \/ Config!confirm \/ Config!cancel
           \/ \E right \in BOOLEAN : Config!TypeDelete(right)
           \/ \E k \in DOMAIN cDeletes :
                 Config!DeleteAllData(k) \/ Config!Deleted(k) \/ Config!DeleteFailed(k)
           \/ Config!DismissImported \/ Config!DismissDeleted
    PROVE  ConfigInv'
<1>0. Config!TypeOK /\ UploadTrue /\ (cDeletes = <<>> => ~cDeleting)
  BY ConfigInvParts
<1>1. cDeletes \in Seq(Config!At) /\ cDialogs \in Nat /\ cAsked \in Nat
      /\ MaxDialogs \in Nat /\ MaxDeletes \in Nat
  BY <1>0 DEF Config!TypeOK, ConfigConstants
<1>2. CASE Config!deleteData
  <2>1. /\ cDialogs < MaxDialogs /\ cDialogs' = cDialogs + 1
        /\ UNCHANGED <<cOneFile, cUploading, cUploadSuccess, cUploadError, cFiles, cDrops, cLost,
                       cDeleting, cDeleteSuccess, cDeleteError, cConfirmDeleteForm, cDeletes,
                       cAsked, cRows>>
    BY <1>2 DEF Config!deleteData, Config!upload
  <2>2. cDialogs' \in 0..MaxDialogs
    BY <1>1, <2>1
  <2> QED
    BY <1>0, <2>1, <2>2, UploadFrame DEF Config!TypeOK, ConfigInv, UploadTrue, Config!FlagsTellTruth
<1>3. CASE Config!confirm
  <2>1. /\ cDialogs > 0 /\ cAsked < MaxDeletes /\ cDeleteError' = FALSE /\ cDeleting' = TRUE
        /\ cDeletes' = Append(cDeletes, "sent") /\ cAsked' = cAsked + 1 /\ cDialogs' = cDialogs - 1
        /\ UNCHANGED <<cOneFile, cUploading, cUploadSuccess, cUploadError, cFiles, cDrops, cLost,
                       cDeleteSuccess, cConfirmDeleteForm, cRows>>
    BY <1>3 DEF Config!confirm, Config!upload
  <2>2. "sent" \in Config!At
    BY DEF Config!At
  <2>3. cDeletes' \in Seq(Config!At) /\ cDeletes' # <<>>
    BY <1>1, <2>1, <2>2, AppendProperties
  <2>4. cDialogs' \in 0..MaxDialogs /\ cAsked' \in 0..MaxDeletes
    BY <1>0, <1>1, <2>1 DEF Config!TypeOK
  <2> QED
    BY <1>0, <2>1, <2>3, <2>4, UploadFrame DEF Config!TypeOK, ConfigInv, UploadTrue, Config!FlagsTellTruth
<1>4. CASE Config!cancel
  <2>1. /\ cDialogs > 0 /\ cDialogs' = cDialogs - 1
        /\ UNCHANGED <<cOneFile, cUploading, cUploadSuccess, cUploadError, cFiles, cDrops, cLost,
                       cDeleting, cDeleteSuccess, cDeleteError, cConfirmDeleteForm, cDeletes,
                       cAsked, cRows>>
    BY <1>4 DEF Config!cancel, Config!upload
  <2>2. cDialogs' \in 0..MaxDialogs
    BY <1>0, <1>1, <2>1 DEF Config!TypeOK
  <2> QED
    BY <1>0, <2>1, <2>2, UploadFrame DEF Config!TypeOK, ConfigInv, UploadTrue, Config!FlagsTellTruth
<1>5. ASSUME NEW right \in BOOLEAN, Config!TypeDelete(right) PROVE ConfigInv'
  <2>1. /\ cConfirmDeleteForm' \in BOOLEAN
        /\ UNCHANGED <<cOneFile, cUploading, cUploadSuccess, cUploadError, cFiles, cDrops, cLost,
                       cDeleting, cDeleteSuccess, cDeleteError, cDialogs, cDeletes, cAsked, cRows>>
    BY <1>5 DEF Config!TypeDelete, Config!upload
  <2> QED
    BY <1>0, <2>1, UploadFrame DEF Config!TypeOK, ConfigInv, UploadTrue, Config!FlagsTellTruth
<1>6. ASSUME NEW k \in DOMAIN cDeletes, Config!DeleteAllData(k) PROVE ConfigInv'
  <2>1. /\ \/ cDeletes' = [cDeletes EXCEPT ![k] = "done"] /\ cRows' = FALSE
           \/ cDeletes' = [cDeletes EXCEPT ![k] = "refused"] /\ UNCHANGED cRows
        /\ UNCHANGED <<cOneFile, cUploading, cUploadSuccess, cUploadError, cFiles, cDrops, cLost,
                       cDeleting, cDeleteSuccess, cDeleteError, cConfirmDeleteForm, cDialogs, cAsked>>
    BY <1>6 DEF Config!DeleteAllData, Config!upload
  <2>2. "done" \in Config!At /\ "refused" \in Config!At
    BY DEF Config!At
  <2>3. cDeletes' \in Seq(Config!At)
    BY <1>1, <2>1, <2>2
  <2>4. DOMAIN cDeletes' = DOMAIN cDeletes
    BY <2>1
  <2>5. cDeletes' # <<>>
    BY <2>4
  <2>6. cRows' \in BOOLEAN
    BY <1>0, <2>1 DEF Config!TypeOK
  <2> QED
    BY <1>0, <2>1, <2>3, <2>5, <2>6, UploadFrame
    DEF Config!TypeOK, ConfigInv, UploadTrue, Config!FlagsTellTruth
<1>7. ASSUME NEW k \in DOMAIN cDeletes, Config!Deleted(k) \/ Config!DeleteFailed(k) PROVE ConfigInv'
  <2>1. /\ cDeletes' = RemoveAt(cDeletes, k) /\ cDeleting' = FALSE
        /\ cDeleteError' = FALSE \/ cDeleteError' = TRUE
        /\ cDeleteSuccess' = cDeleteSuccess \/ cDeleteSuccess' = TRUE
        /\ UNCHANGED <<cOneFile, cUploading, cUploadSuccess, cUploadError, cFiles, cDrops, cLost,
                       cConfirmDeleteForm, cDialogs, cAsked, cRows>>
    <3>1. CASE Config!Deleted(k)
      BY <3>1 DEF Config!Deleted, Config!upload, Config!RemoveAt, RemoveAt
    <3>2. CASE Config!DeleteFailed(k)
      BY <3>2 DEF Config!DeleteFailed, Config!upload, Config!RemoveAt, RemoveAt
    <3> QED
      BY <1>7, <3>1, <3>2
  <2>2. cDeletes' \in Seq(Config!At)
    BY <1>1, <2>1, RemoveAtRest
  <2>3. cDeleteSuccess' \in BOOLEAN /\ cDeleteError' \in BOOLEAN
    BY <1>0, <2>1 DEF Config!TypeOK
  <2> QED
    BY <1>0, <2>1, <2>2, <2>3, UploadFrame
    DEF Config!TypeOK, ConfigInv, UploadTrue, Config!FlagsTellTruth
<1>8. CASE Config!DismissImported
  <2>1. /\ cUploadSuccess' = FALSE
        /\ UNCHANGED <<cOneFile, cUploading, cUploadError, cFiles, cDrops, cLost, cDeleting,
                       cDeleteSuccess, cDeleteError, cConfirmDeleteForm, cDialogs, cDeletes,
                       cAsked, cRows>>
    BY <1>8 DEF Config!DismissImported, Config!delete
  <2>2. UploadTrue'
    BY <1>0, <2>1 DEF UploadTrue, DropsKnown, OneByOne
  <2> QED
    BY <1>0, <2>1, <2>2 DEF Config!TypeOK, ConfigInv, UploadTrue, Config!FlagsTellTruth
<1>9. CASE Config!DismissDeleted
  <2>1. /\ cDeleteSuccess' = FALSE
        /\ UNCHANGED <<cOneFile, cUploading, cUploadSuccess, cUploadError, cFiles, cDrops, cLost,
                       cDeleting, cDeleteError, cConfirmDeleteForm, cDialogs, cDeletes, cAsked, cRows>>
    BY <1>9 DEF Config!DismissDeleted, Config!upload
  <2> QED
    BY <1>0, <2>1, UploadFrame DEF Config!TypeOK, ConfigInv, UploadTrue, Config!FlagsTellTruth
<1> QED
  BY <1>2, <1>3, <1>4, <1>5, <1>6, <1>7, <1>8, <1>9

\* The configuration page stays in its invariant.
LEMMA ConfigInvariance == ConfigConstants => (Config!Spec => []ConfigInv)
<1> SUFFICES ASSUME ConfigConstants PROVE Config!Spec => []ConfigInv
  OBVIOUS
<1>1. Config!Init => ConfigInv
  BY ConfigInit
<1>2. ConfigInv /\ [Config!Next]_Config!vars => ConfigInv'
  <2> SUFFICES ASSUME ConfigInv, [Config!Next]_Config!vars PROVE ConfigInv'
    OBVIOUS
  <2>1. CASE UNCHANGED Config!vars
    <3>1. UNCHANGED <<cOneFile, cUploading, cUploadSuccess, cUploadError, cFiles, cDrops, cLost,
                      cDeleting, cDeleteSuccess, cDeleteError, cConfirmDeleteForm, cDialogs,
                      cDeletes, cAsked, cRows>>
      BY <2>1 DEF Config!vars, Config!upload, Config!delete
    <3> QED
      BY <3>1 DEF ConfigInv, Config!TypeOK, DropsKnown, OneByOne, Config!FlagsTellTruth
  <2> QED
    BY <2>1, ConfigDropped, ConfigFile, ConfigRest DEF Config!Next
<1> QED
  BY <1>1, <1>2, PTL DEF Config!Spec

\* The files, drops, deletes and dialogs of the configuration page stay in their
\* domains, for any number of them.
THEOREM ConfigTypeCorrect == Config!Spec => []Config!TypeOK
<1>1. Config!Spec => []ConfigInv
  BY ConsolePagesAssumption, ConfigInvariance
<1>2. ConfigInv => Config!TypeOK
  BY DEF ConfigInv
<1> QED
  BY <1>1, <1>2, PTL

\* However many files are dropped and in whichever order they are opened and answered,
\* uploading is down when none is under way and deleting is down when no delete is;
\* and for files dropped one by one "successfully imported" is true of the last drop.
THEOREM ConfigFlagsTrue == Config!Spec => []FlagsTellTruth
<1>1. Config!Spec => []ConfigInv
  BY ConsolePagesAssumption, ConfigInvariance
<1>2. ConfigInv => FlagsTellTruth
  BY DEF ConfigInv, FlagsTellTruth
<1> QED
  BY <1>1, <1>2, PTL

-----------------------------------------------------------------------------
(* ApiExplorer.                                                            *)

Body == [of: Explorer!Methods \cup {Explorer!None}, good: BOOLEAN]
Call == [n: 1..MaxSent, rpc: BOOLEAN, of: Explorer!Methods]

\* The request editor and the form, once an endpoint was chosen on the page.
RequestFits ==
    xChosen =>
        /\ xStage = "ready" /\ xBody.of = xMethod /\ xEndpoint = xMethod
        /\ xReadOnly <=> xMethod \notin Bodies \cup Rpcs

\* A user who waits has at most one call under way, the last one made; when there is
\* none and no error, the response shown is that of the last call.
LastCallShown ==
    xSerial =>
        /\ Len(xCalls) <= 1
        /\ \A k \in DOMAIN xCalls : xCalls[k].n = xSent
        /\ xCalls = <<>> /\ ~xError => xResponse = xSent

ExplorerInv == Explorer!TypeOK /\ RequestFits /\ LastCallShown

\* The API explorer starts in its invariant ...
LEMMA ExplorerInit ==
    ASSUME ExplorerConstants, Explorer!Init
    PROVE  ExplorerInv
<1>1. 0 \in 0..MaxSent /\ xCalls \in Seq(Call) /\ Len(xCalls) = 0 /\ DOMAIN xCalls = {}
  BY DEF ExplorerConstants, Explorer!Init
<1>2. xBody \in Body
  BY DEF Explorer!Init, Body
<1>3. Explorer!TypeOK
  BY <1>1, <1>2 DEF Explorer!TypeOK, Explorer!Init, Call, Body
<1> QED
  BY <1>1, <1>3 DEF ExplorerInv, RequestFits, LastCallShown, Explorer!Init

\* Choosing and editing: the editors change, the calls do not.
LEMMA ExplorerEdits ==
    ASSUME ExplorerConstants, ExplorerInv,
           \/ Explorer!ngOnInit \/ Explorer!ngAfterViewInit
           \/ \E m \in Explorer!Methods : Explorer!Choose(m)
           \/ Explorer!addSessionVars
           \/ \E good \in BOOLEAN : Explorer!EditBody(good) \/ Explorer!EditVars(good)
    PROVE  ExplorerInv'
<1>0. Explorer!TypeOK /\ RequestFits /\ LastCallShown
  BY DEF ExplorerInv
<1>1. xBody \in Body
  BY <1>0 DEF Explorer!TypeOK, Body
<1>2. \A m \in Explorer!Methods \cup {Explorer!None} :
         [of |-> m, good |-> TRUE] \in Body /\ [of |-> m, good |-> TRUE].of = m
  BY DEF Body
<1>3. CASE Explorer!ngOnInit
  <2>1. /\ xStage = "new" /\ xStage' = "init"
        /\ xMethod' \in {xMethod, xEndpoint} /\ xEndpoint' = xEndpoint
        /\ UNCHANGED <<xBody, xReadOnly, xSerial, xAddVars, xVars, xResponse, xError, xCalls,
                       xSent, xChosen>>
    BY <1>3 DEF Explorer!ngOnInit, Explorer!methodChanged, Explorer!setupRequestBody
  <2>2. Explorer!TypeOK'
    BY <1>0, <2>1 DEF Explorer!TypeOK
  <2> QED
    BY <1>0, <2>1, <2>2 DEF ExplorerInv, RequestFits, LastCallShown
<1>4. CASE Explorer!ngAfterViewInit
  <2>1. /\ xStage = "init" /\ xStage' = "ready"
        /\ xBody' = [of |-> Explorer!None, good |-> TRUE] /\ xReadOnly' = TRUE
        /\ UNCHANGED <<xSerial, xEndpoint, xMethod, xAddVars, xVars, xResponse, xError, xCalls,
                       xSent, xChosen>>
    BY <1>4 DEF Explorer!ngAfterViewInit
  <2>2. xBody' \in Body
    BY <1>2, <2>1
  <2>3. Explorer!TypeOK'
    BY <1>0, <2>1, <2>2 DEF Explorer!TypeOK, Body
  <2> QED
    BY <1>0, <2>1, <2>3 DEF ExplorerInv, RequestFits, LastCallShown
<1>5. ASSUME NEW m \in Explorer!Methods, Explorer!Choose(m) PROVE ExplorerInv'
  <2>1. /\ xStage = "ready" /\ xMethod' = m /\ xEndpoint' = m
        /\ xBody' = [of |-> m, good |-> TRUE]
        /\ xReadOnly' = (m \notin Bodies /\ ~(m \in Rpcs))
        /\ xChosen' = TRUE
        /\ UNCHANGED <<xSerial, xStage, xAddVars, xVars, xResponse, xError, xCalls, xSent>>
    BY <1>5 DEF Explorer!Choose, Explorer!MayAct, Explorer!methodChanged,
                Explorer!setupRequestBody, Explorer!isRpcEndpoint
  <2>2. xBody' \in Body /\ xBody'.of = m
    BY <1>2, <2>1
  <2>3. xReadOnly' \in BOOLEAN
    BY <2>1
  <2>4. Explorer!TypeOK'
    BY <1>0, <2>1, <2>2, <2>3 DEF Explorer!TypeOK, Body
  <2>5. RequestFits'
    BY <2>1, <2>2 DEF RequestFits
  <2> QED
    BY <1>0, <2>1, <2>4, <2>5 DEF ExplorerInv, LastCallShown
<1>6. CASE Explorer!addSessionVars
  <2>1. /\ xAddVars' = TRUE /\ xVars' = TRUE
        /\ UNCHANGED <<xSerial, xStage, xEndpoint, xMethod, xBody, xReadOnly, xChosen, xResponse,
                       xError, xCalls, xSent>>
    BY <1>6 DEF Explorer!addSessionVars, Explorer!request
  <2> QED
    BY <1>0, <2>1 DEF ExplorerInv, Explorer!TypeOK, RequestFits, LastCallShown
<1>7. ASSUME NEW good \in BOOLEAN, Explorer!EditBody(good) PROVE ExplorerInv'
  <2>1. /\ xBody' = [xBody EXCEPT !.good = good]
        /\ UNCHANGED <<xSerial, xStage, xEndpoint, xMethod, xReadOnly, xAddVars, xVars,
                       xResponse, xError, xCalls, xSent, xChosen>>
    BY <1>7 DEF Explorer!EditBody
  <2>2. xBody' \in Body /\ xBody'.of = xBody.of
    BY <1>1, <2>1 DEF Body
  <2>3. Explorer!TypeOK'
    BY <1>0, <2>1, <2>2 DEF Explorer!TypeOK, Body
  <2> QED
    BY <1>0, <2>1, <2>2, <2>3 DEF ExplorerInv, RequestFits, LastCallShown
<1>8. ASSUME NEW good \in BOOLEAN, Explorer!EditVars(good) PROVE ExplorerInv'
  <2>1. /\ xVars' = good
        /\ UNCHANGED <<xSerial, xStage, xEndpoint, xMethod, xBody, xReadOnly, xChosen, xAddVars,
                       xResponse, xError, xCalls, xSent>>
    BY <1>8 DEF Explorer!EditVars, Explorer!request
  <2> QED
    BY <1>0, <1>8, <2>1 DEF ExplorerInv, Explorer!TypeOK, RequestFits, LastCallShown
<1> QED
  BY <1>3, <1>4, <1>5, <1>6, <1>7, <1>8

\* Calling: one more call under way, or one that is answered.
LEMMA ExplorerCalls ==
    ASSUME ExplorerConstants, ExplorerInv,
           \/ Explorer!sendRequest
           \/ \E k \in DOMAIN xCalls :
                 Explorer!Responded(k) \/ Explorer!Malformed(k) \/ Explorer!Failed(k)
    PROVE  ExplorerInv'
<1>0. Explorer!TypeOK /\ RequestFits /\ LastCallShown
  BY DEF ExplorerInv
<1>1. xCalls \in Seq(Call) /\ xSent \in Nat /\ MaxSent \in Nat /\ xSent <= MaxSent
  BY <1>0 DEF Explorer!TypeOK, Call, ExplorerConstants
<1>2. CASE Explorer!sendRequest /\ xBody.good /\ xVars
  <2> DEFINE c == [n |-> xSent + 1, rpc |-> Explorer!isRpcEndpoint(xMethod), of |-> xMethod]
  <2>1. /\ xSerial => xCalls = <<>>
        /\ xMethod # Explorer!None /\ xSent < MaxSent
        /\ xCalls' = Append(xCalls, c) /\ xSent' = xSent + 1 /\ xError' = FALSE
        /\ UNCHANGED <<xSerial, xStage, xEndpoint, xMethod, xBody, xReadOnly, xChosen, xAddVars,
                       xVars, xResponse>>
    BY <1>2 DEF Explorer!sendRequest, Explorer!MayAct, Explorer!request
  <2>2. c \in Call /\ c.n = xSent + 1
    <3>1. xMethod \in Explorer!Methods
      BY <1>0, <2>1 DEF Explorer!TypeOK
    <3>2. xSent + 1 \in 1..MaxSent
      BY <1>1, <2>1
    <3>3. Explorer!isRpcEndpoint(xMethod) \in BOOLEAN
      BY DEF Explorer!isRpcEndpoint
    <3> QED
      BY <3>1, <3>2, <3>3 DEF Call
  <2> HIDE DEF c
  <2>3. /\ xCalls' \in Seq(Call) /\ Len(xCalls') = Len(xCalls) + 1
        /\ DOMAIN xCalls' = DOMAIN xCalls \cup {Len(xCalls) + 1}
        /\ xCalls'[Len(xCalls) + 1] = c
    BY <1>1, <2>1, <2>2, AppendRest
  <2>4. Explorer!TypeOK'
    <3>1. xSent' \in 0..MaxSent
      BY <1>1, <2>1
    <3> QED
      BY <1>0, <2>1, <2>3, <3>1 DEF Explorer!TypeOK, Call
  <2>5. RequestFits'
    BY <1>0, <2>1 DEF RequestFits
  <2>6. LastCallShown'
    <3> SUFFICES ASSUME xSerial
                 PROVE  /\ Len(xCalls') <= 1
                        /\ \A k \in DOMAIN xCalls' : xCalls'[k].n = xSent'
                        /\ xCalls' # <<>>
      BY <2>1 DEF LastCallShown
    <3>1. Len(xCalls) = 0 /\ DOMAIN xCalls = {}
      BY <2>1
    <3> QED
      BY <2>1, <2>2, <2>3, <3>1
  <2> QED
    BY <2>4, <2>5, <2>6 DEF ExplorerInv
<1>3. CASE Explorer!sendRequest /\ ~(xBody.good /\ xVars)
  <2>1. /\ xError' = TRUE
        /\ UNCHANGED <<xSerial, xStage, xEndpoint, xMethod, xBody, xReadOnly, xChosen, xAddVars,
                       xVars, xResponse, xCalls, xSent>>
    BY <1>3 DEF Explorer!sendRequest, Explorer!request
  <2> QED
    BY <1>0, <2>1 DEF ExplorerInv, Explorer!TypeOK, RequestFits, LastCallShown
<1>4. ASSUME NEW k \in DOMAIN xCalls,
             Explorer!Responded(k) \/ Explorer!Malformed(k) \/ Explorer!Failed(k)
      PROVE  ExplorerInv'
  <2>1. /\ xCalls' = RemoveAt(xCalls, k)
        /\ \/ xResponse' = xCalls[k].n /\ xError' = xError
           \/ xError' = TRUE /\ xResponse' = xResponse
           \/ xError' = TRUE /\ xResponse' = 0
        /\ UNCHANGED <<xSerial, xStage, xEndpoint, xMethod, xBody, xReadOnly, xChosen, xAddVars,
                       xVars, xSent>>
    BY <1>4 DEF Explorer!Responded, Explorer!Malformed, Explorer!Failed, Explorer!request,
                Explorer!RemoveAt, RemoveAt
  <2>2. xCalls[k] \in Call
    BY <1>1
  <2>3. xCalls[k].n \in 0..MaxSent
    BY <1>1, <2>2 DEF Call
  <2>4. /\ xCalls' \in Seq(Call) /\ Len(xCalls') = Len(xCalls) - 1
        /\ \A i \in DOMAIN xCalls' : \E j \in DOMAIN xCalls : j # k /\ xCalls'[i] = xCalls[j]
    BY <1>1, <2>1, RemoveAtRest
  <2>5. Explorer!TypeOK'
    <3>1. xResponse' \in 0..MaxSent
      BY <1>0, <1>1, <2>1, <2>3 DEF Explorer!TypeOK
    <3>2. xError' \in BOOLEAN
      BY <1>0, <2>1 DEF Explorer!TypeOK
    <3> QED
      BY <1>0, <2>1, <2>4, <3>1, <3>2 DEF Explorer!TypeOK, Call
  <2>6. RequestFits'
    BY <1>0, <2>1 DEF RequestFits
  <2>7. LastCallShown'
    <3> SUFFICES ASSUME xSerial
                 PROVE  /\ Len(xCalls') <= 1
                        /\ \A i \in DOMAIN xCalls' : xCalls'[i].n = xSent
                        /\ ~xError' => xResponse' = xSent
      BY <2>1 DEF LastCallShown
    <3>1. Len(xCalls) <= 1 /\ \A i \in DOMAIN xCalls : xCalls[i].n = xSent
      BY <1>0 DEF LastCallShown
    <3>2. Len(xCalls') <= 1
      BY <1>1, <2>4, <3>1
    <3>3. \A i \in DOMAIN xCalls' : xCalls'[i].n = xSent
      BY <2>4, <3>1
    <3>4. ~xError' => xResponse' = xSent
      BY <2>1, <3>1
    <3> QED
      BY <3>2, <3>3, <3>4
  <2> QED
    BY <2>5, <2>6, <2>7 DEF ExplorerInv
<1> QED
  BY <1>2, <1>3, <1>4

\* ... and stays in it.
LEMMA ExplorerInvariance == ExplorerConstants => (Explorer!Spec => []ExplorerInv)
<1> SUFFICES ASSUME ExplorerConstants PROVE Explorer!Spec => []ExplorerInv
  OBVIOUS
<1>1. Explorer!Init => ExplorerInv
  BY ExplorerInit
<1>2. ExplorerInv /\ [Explorer!Next]_Explorer!all => ExplorerInv'
  <2> SUFFICES ASSUME ExplorerInv, [Explorer!Next]_Explorer!all PROVE ExplorerInv'
    OBVIOUS
  <2>1. CASE UNCHANGED Explorer!all
    BY <2>1 DEF Explorer!all, ExplorerInv, Explorer!TypeOK, RequestFits, LastCallShown
  <2> QED
    BY <2>1, ExplorerEdits, ExplorerCalls DEF Explorer!Next
<1> QED
  BY <1>1, <1>2, PTL DEF Explorer!Spec

\* The editors, the form and the calls under way of the API explorer stay in their
\* domains.
THEOREM ExplorerTypeCorrect == Explorer!Spec => []Explorer!TypeOK
<1>1. Explorer!Spec => []ExplorerInv
  BY ConsolePagesAssumption, ExplorerInvariance
<1>2. ExplorerInv => Explorer!TypeOK
  BY DEF ExplorerInv
<1> QED
  BY <1>1, <1>2, PTL

\* Whatever is chosen, edited and called in whichever order, the body belongs to the
\* endpoint of the form once one was chosen (setupRequestBody), and for a user who
\* waits, the response shown without an error is that of the last call.
THEOREM ExplorerEditorsFit == Explorer!Spec => []EditorsFitCall
<1>1. Explorer!Spec => []ExplorerInv
  BY ConsolePagesAssumption, ExplorerInvariance
<1>2. ExplorerInv => EditorsFitCall
  BY DEF ExplorerInv, RequestFits, LastCallShown, EditorsFitCall, Explorer!EditorsFitCall
<1> QED
  BY <1>1, <1>2, PTL

-----------------------------------------------------------------------------
(* The four pages together.                                                *)

\* The storage object, status, configuration and API explorer pages side by side: the
\* row and the save, the series and polls, the flags, files and dialogs, the editors and
\* calls all stay in their domains, for any constants of the four.
THEOREM PageTypesCorrect ==
    Spec /\ Status!Spec /\ Config!Spec /\ Explorer!Spec => []PageTypesOK
<1>1. TypeOK /\ Status!TypeOK /\ Config!TypeOK /\ Explorer!TypeOK => PageTypesOK
  BY DEF PageTypesOK
<1> QED
  BY <1>1, TypeCorrect, StatusTypeCorrect, ConfigTypeCorrect, ExplorerTypeCorrect, PTL
=============================================================================
