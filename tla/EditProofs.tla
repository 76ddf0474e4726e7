----------------------------- MODULE EditProofs -----------------------------
(***************************************************************************)
(* Proofs about the pages that edit: the page of one account, group or     *)
(* leaderboard with its tabs, the portal's forms, and the lists that are   *)
(* edited in place.                                                        *)
(***************************************************************************)
EXTENDS EditPages, SequenceLemmas

-----------------------------------------------------------------------------
(* ConsoleEditors: the requests under way.                                 *)

\* The save of the tab that is open.
Mine(k) == reqs[k].kind = "save" /\ ~reqs[k].old
\* A ban or an unban.
Bans(k) == reqs[k].kind \in {"ban", "unban"}

\* What the tab saved last is on the server, or was skipped there.
Stored == server.data[tab] = saved \/ Skips(tab, saved)

\* Saves of tabs that were left are known to crowd.  The tab that is open has at most
\* one save under way, exactly while its button is off; it carries what the tab saved
\* last, and once it is served the server has that, if no other save interferes.
SavesTrue ==
    /\ \A k \in DOMAIN reqs : reqs[k].old => reqs[k].kind = "save" /\ reqs[k].tab \in crowd
    /\ \A k \in DOMAIN reqs : Mine(k) =>
          /\ reqs[k].tab = tab /\ reqs[k].val = saved
          /\ reqs[k].at = "done" /\ tab \notin crowd /\ server.exists => Stored
    /\ \A j, k \in DOMAIN reqs : Mine(j) /\ Mine(k) => j = k

\* While a ban and an unban never were under way at once: those under way ask for the
\* same, a served one is what the server has, and with none served the copy is right.
BansTrue ==
    server.exists /\ ~lost /\ ~mixed =>
        /\ \A j, k \in DOMAIN reqs : Bans(j) /\ Bans(k) => reqs[j].kind = reqs[k].kind
        /\ \A k \in DOMAIN reqs : Bans(k) /\ reqs[k].at = "done" =>
              server.banned = (reqs[k].kind = "ban")
        /\ (\A k \in DOMAIN reqs : Bans(k) => reqs[k].at # "done") => copy.banned = server.banned

EditInv == TypeOK /\ SavesTrue /\ SaveIsShown /\ BansTrue

\* The parts of a request of an object page.
LEMMA ReqTyped ==
    ASSUME TypeOK, NEW k \in DOMAIN reqs
    PROVE  /\ reqs[k] \in Req /\ reqs[k].kind \in Kinds /\ reqs[k].tab \in AllTabs
           /\ reqs[k].val \in Values /\ reqs[k].at \in {"sent", "done", "refused"}
           /\ reqs[k].old \in BOOLEAN /\ reqs[k].hit \in Hits
<1>1. reqs[k] \in Req
  BY DEF TypeOK
<1> QED
  BY <1>1 DEF Req

\* One request moves on, the others stay.
LEMMA ReqMoved ==
    ASSUME TypeOK, NEW k \in DOMAIN reqs, NEW a \in {"sent", "done", "refused"},
           reqs' = [reqs EXCEPT ![k].at = a]
    PROVE  /\ reqs' \in Seq(Req) /\ DOMAIN reqs' = DOMAIN reqs
           /\ reqs'[k].at = a /\ reqs'[k].kind = reqs[k].kind /\ reqs'[k].tab = reqs[k].tab
           /\ reqs'[k].val = reqs[k].val /\ reqs'[k].old = reqs[k].old
           /\ \A i \in DOMAIN reqs : i # k => reqs'[i] = reqs[i]
<1>1. reqs \in Seq(Req) /\ reqs[k] \in Req
  BY ReqTyped DEF TypeOK
<1> DEFINE r == [reqs[k] EXCEPT !.at = a]
<1>2. /\ r \in Req /\ r.at = a /\ r.kind = reqs[k].kind /\ r.tab = reqs[k].tab
      /\ r.val = reqs[k].val /\ r.old = reqs[k].old
  BY <1>1 DEF Req
<1>3. reqs' = [reqs EXCEPT ![k] = r]
  OBVIOUS
<1> HIDE DEF r
<1>4. DOMAIN reqs' = DOMAIN reqs
  BY <1>3
<1>5. reqs' \in Seq(Req)
  BY <1>1, <1>2, <1>3
<1> QED
  BY <1>2, <1>3, <1>4, <1>5

\* One request is gone, and any two that are left were two before.
LEMMA ReqGone ==
    ASSUME TypeOK, NEW k \in DOMAIN reqs, reqs' = RemoveAt(reqs, k)
    PROVE  /\ reqs' \in Seq(Req)
           /\ \A i \in DOMAIN reqs' : \E j \in DOMAIN reqs : j # k /\ reqs'[i] = reqs[j]
           /\ \A j \in DOMAIN reqs : j # k => \E i \in DOMAIN reqs' : reqs'[i] = reqs[j]
           /\ \A h, i \in DOMAIN reqs' : h # i =>
                 \E m, n \in DOMAIN reqs : m # n /\ reqs'[h] = reqs[m] /\ reqs'[i] = reqs[n]
<1>1. reqs \in Seq(Req)
  BY DEF TypeOK
<1> QED
  BY <1>1, RemoveAtRest, RemoveAtTwo

\* One request more, at position m.
SentAt(m, kind, t, v) ==
    /\ reqs' \in Seq(Req) /\ sent' \in 0..MaxSent
    /\ DOMAIN reqs' = DOMAIN reqs \cup {m} /\ m \notin DOMAIN reqs
    /\ \A i \in DOMAIN reqs : reqs'[i] = reqs[i]
    /\ reqs'[m].kind = kind /\ reqs'[m].tab = t /\ reqs'[m].val = v
    /\ reqs'[m].at = "sent" /\ ~reqs'[m].old

\* The requests after one more was sent.
LEMMA ReqSent ==
    ASSUME EditorsAssumption, TypeOK,
           NEW kind \in Kinds, NEW t \in AllTabs, NEW v \in Values, NEW h \in Hits,
           Send(kind, t, v, h)
    PROVE  \E m \in Nat : SentAt(m, kind, t, v)
<1> DEFINE r == [kind |-> kind, tab |-> t, val |-> v, hit |-> h, at |-> "sent", old |-> FALSE]
<1>1. /\ r \in Req /\ r.kind = kind /\ r.tab = t /\ r.val = v /\ r.at = "sent" /\ ~r.old
  BY DEF Req
<1>2. reqs' = Append(reqs, r) /\ sent' = sent + 1 /\ sent < MaxSent
  BY DEF Send
<1>3. reqs \in Seq(Req)
  BY DEF TypeOK
<1> HIDE DEF r
<1>4. sent' \in 0..MaxSent
  BY <1>2 DEF TypeOK, EditorsAssumption
<1>5. /\ reqs' \in Seq(Req)
      /\ DOMAIN reqs' = DOMAIN reqs \cup {Len(reqs) + 1}
      /\ Len(reqs) + 1 \notin DOMAIN reqs
      /\ \A i \in DOMAIN reqs : reqs'[i] = reqs[i]
      /\ reqs'[Len(reqs) + 1] = r
  BY <1>1, <1>2, <1>3, AppendRest
<1>6. Len(reqs) + 1 \in Nat
  BY <1>3
<1> QED
  BY <1>1, <1>4, <1>5, <1>6 DEF SentAt

\* The object pages start in their invariant.
LEMMA EditInit ==
    ASSUME EditorsAssumption, Init
    PROVE  EditInv
<1>1. PICK b \in BOOLEAN, w \in Values \ {Cleared} :
        server = [data |-> [t \in AllTabs |-> w], banned |-> b, exists |-> TRUE]
  BY DEF Init
<1> DEFINE d == [t \in AllTabs |-> w]
<1>2. d \in Object
  BY DEF Object
<1>3. server = [data |-> d, banned |-> b, exists |-> TRUE]
  BY <1>1
<1>4. copy = [data |-> server.data, banned |-> server.banned]
  BY DEF Init, EditorsAssumption, Resolve, AccountResolver, GroupResolver, LeaderboardResolver
<1> HIDE DEF d
<1>5. /\ server \in [data: Object, banned: BOOLEAN, exists: BOOLEAN]
      /\ server.data = d /\ server.banned = b
  BY <1>2, <1>3
<1>6. copy \in [data: Object, banned: BOOLEAN] /\ copy.data = d /\ copy.banned = b
  BY <1>2, <1>4, <1>5
<1>7. tab \in AllTabs /\ tab \in Tabs(view)
  BY DEF Init, Tabs, AllTabs
<1>8. form \in Values /\ saved \in Values
  <2>1. form = d[tab] /\ saved = d[tab]
    BY <1>6 DEF Init
  <2> QED
    BY <1>2, <1>7, <2>1 DEF Object
<1>9. reqs = <<>> /\ reqs \in Seq(Req) /\ DOMAIN reqs = {}
  BY DEF Init
<1>10. dialogs \in Seq(Dialog) /\ sent \in 0..MaxSent
  BY DEF Init, EditorsAssumption
<1>11. TypeOK
  BY <1>5, <1>6, <1>7, <1>8, <1>9, <1>10 DEF Init, TypeOK
<1>12. SavesTrue /\ SaveIsShown
  BY <1>9 DEF SavesTrue, SaveIsShown, Init
<1>13. BansTrue
  BY <1>5, <1>6, <1>9 DEF BansTrue, Init
<1> QED
  BY <1>11, <1>12, <1>13 DEF EditInv

\* What leaves the requests, the object and the tab alone keeps what is said of them.
LEMMA EditFrame ==
    ASSUME EditInv, TypeOK',
           UNCHANGED <<server, copy, tab, updating, reqs, saved, crowd, mixed, lost>>,
           updated' = updated \/ updated' = FALSE
    PROVE  EditInv'
<1>1. SavesTrue' /\ SaveIsShown'
  BY DEF EditInv, SavesTrue, SaveIsShown, Mine, Stored
<1>2. BansTrue'
  BY DEF EditInv, BansTrue, Bans
<1> QED
  BY <1>1, <1>2 DEF EditInv

\* A delete is asked for, or not confirmed.
Confirmations ==
    \/ \E h \in Hits : deleteGroup(h) \/ deleteLeaderboard(h) \/ \E b \in Deletes : deleteAccount(b, h)
    \/ \E d \in DOMAIN dialogs : Cancel(d)

\* Typing, a save that is refused on the spot, the confirmations.
LEMMA EditLight ==
    ASSUME EditorsAssumption, EditInv,
           (\E v \in Values : Type(v)) \/ (\E t \in AllTabs : SaveInvalid(t)) \/ Confirmations
    PROVE  EditInv'
<1>0. TypeOK /\ dialogs \in Seq(Dialog)
  BY DEF EditInv, TypeOK
<1>1. ASSUME NEW v \in Values, Type(v) PROVE EditInv'
  <2>1. /\ form' = v
        /\ UNCHANGED <<view, role, server, copy, page, tab, updating, updated, error,
                       pageError, off, dialogs, reqs, sent, saved, crowd, mixed, lost>>
    BY <1>1 DEF Type, fixed, object, alert
  <2>2. TypeOK'
    BY <1>0, <2>1 DEF TypeOK
  <2> QED
    BY <2>1, <2>2, EditFrame
<1>2. ASSUME NEW t \in AllTabs, SaveInvalid(t) PROVE EditInv'
  <2>1. /\ ~updating /\ updated' = FALSE /\ updating' = FALSE /\ error' = TRUE
        /\ UNCHANGED <<view, role, server, copy, page, tab, form, pageError, off, dialogs,
                       reqs, sent, saved, crowd, mixed, lost>>
    BY <1>2 DEF SaveInvalid, fixed, object
  <2>2. updating' = updating
    BY <1>0, <2>1 DEF TypeOK
  <2>3. TypeOK'
    BY <1>0, <2>1 DEF TypeOK
  <2> QED
    BY <2>1, <2>2, <2>3, EditFrame
<1>3. CASE Confirmations
  <2>1. /\ \/ \E b \in Deletes, h \in Hits : dialogs' = Append(dialogs, [button |-> b, hit |-> h])
           \/ \E d \in DOMAIN dialogs : dialogs' = RemoveAt(dialogs, d)
        /\ UNCHANGED <<view, role, server, copy, page, tab, form, updating, updated, error,
                       pageError, off, reqs, sent, saved, crowd, mixed, lost>>
    BY <1>3 DEF Confirmations, deleteAccount, deleteGroup, deleteLeaderboard, Cancel, Ask, Deletes,
                fixed, object, alert
  <2>2. dialogs' \in Seq(Dialog)
    <3>1. ASSUME NEW b \in Deletes, NEW h \in Hits PROVE [button |-> b, hit |-> h] \in Dialog
      BY DEF Dialog
    <3>2. CASE \E b \in Deletes, h \in Hits : dialogs' = Append(dialogs, [button |-> b, hit |-> h])
      <4>1. PICK b \in Deletes, h \in Hits : dialogs' = Append(dialogs, [button |-> b, hit |-> h])
        BY <3>2
      <4> QED
        BY <1>0, <3>1, <4>1, AppendRest
    <3>3. CASE \E d \in DOMAIN dialogs : dialogs' = RemoveAt(dialogs, d)
      BY <1>0, <3>3, RemoveAtRest
    <3> QED
      BY <2>1, <3>2, <3>3
  <2>3. TypeOK'
    BY <1>0, <2>1, <2>2 DEF TypeOK
  <2> QED
    BY <2>1, <2>3, EditFrame
<1> QED
  BY <1>1, <1>2, <1>3

\* Another tab: every save under way becomes an old one.
LEMMA EditOpen ==
    ASSUME EditorsAssumption, EditInv, NEW t, Open(t)
    PROVE  EditInv'
<1>0. TypeOK /\ SavesTrue /\ BansTrue
  BY DEF EditInv
<1>1. /\ t \in Tabs(view) /\ tab' = t /\ form' = copy.data[t] /\ saved' = copy.data[t]
      /\ updating' = FALSE /\ updated' = FALSE /\ error' = FALSE
      /\ reqs' = [k \in DOMAIN reqs |-> IF reqs[k].kind = "save"
                                        THEN [reqs[k] EXCEPT !.old = TRUE] ELSE reqs[k]]
      /\ crowd' = crowd \cup {reqs[k].tab : k \in {j \in DOMAIN reqs : reqs[j].kind = "save"}}
      /\ UNCHANGED <<view, role, server, copy, page, pageError, off, dialogs, sent, mixed, lost>>
  BY DEF Open, fixed, object
<1>2. t \in AllTabs
  BY <1>1 DEF Tabs, AllTabs
<1>3. copy.data[t] \in Values
  <2>1. copy.data \in Object
    BY <1>0 DEF TypeOK
  <2> QED
    BY <1>2, <2>1 DEF Object
<1>4. ASSUME NEW k \in DOMAIN reqs
      PROVE  /\ reqs'[k] \in Req /\ reqs'[k].kind = reqs[k].kind /\ reqs'[k].at = reqs[k].at
             /\ reqs'[k].tab = reqs[k].tab
             /\ reqs[k].kind = "save" => reqs'[k].old
             /\ reqs[k].kind # "save" => reqs'[k].old = reqs[k].old
  <2>1. reqs[k] \in Req
    BY <1>0, ReqTyped
  <2>2. reqs'[k] = IF reqs[k].kind = "save" THEN [reqs[k] EXCEPT !.old = TRUE] ELSE reqs[k]
    BY <1>1
  <2> QED
    BY <2>1, <2>2 DEF Req
<1>5. DOMAIN reqs' = DOMAIN reqs
  BY <1>1
<1>6. reqs' \in Seq(Req)
  <2>1. Len(reqs) \in Nat /\ DOMAIN reqs = 1..Len(reqs)
    BY <1>0 DEF TypeOK
  <2>2. reqs' \in [1..Len(reqs) -> Req]
    BY <1>1, <1>4, <2>1
  <2> QED
    BY <2>1, <2>2
<1>7. crowd' \subseteq AllTabs
  BY <1>0, <1>1, ReqTyped DEF TypeOK
<1>8. TypeOK'
  BY <1>0, <1>1, <1>3, <1>6, <1>7 DEF TypeOK
<1>9. \A k \in DOMAIN reqs : ~Mine(k)' /\ (Bans(k)' <=> Bans(k))
  <2> TAKE k \in DOMAIN reqs
  <2>1. CASE reqs[k].kind = "save"
    BY <1>4, <2>1 DEF Mine, Bans
  <2>2. CASE reqs[k].kind # "save"
    BY <1>4, <2>2 DEF Mine, Bans
  <2> QED
    BY <2>1, <2>2
<1>10. \A k \in DOMAIN reqs : reqs'[k].old => reqs'[k].kind = "save" /\ reqs'[k].tab \in crowd'
  <2> TAKE k \in DOMAIN reqs
  <2>1. CASE reqs[k].kind = "save"
    BY <1>1, <1>4, <2>1
  <2>2. CASE reqs[k].kind # "save"
    BY <1>0, <1>1, <1>4, <2>2 DEF SavesTrue
  <2> QED
    BY <2>1, <2>2
<1>11. SavesTrue'
  BY <1>5, <1>9, <1>10 DEF SavesTrue
<1>12. SaveIsShown'
  <2>1. ~ \E k \in DOMAIN reqs' : reqs'[k].kind = "save" /\ ~reqs'[k].old
    BY <1>5, <1>9 DEF Mine
  <2> QED
    BY <1>1, <2>1 DEF SaveIsShown
<1>13. BansTrue'
  BY <1>0, <1>1, <1>4, <1>5, <1>9 DEF BansTrue
<1> QED
  BY <1>8, <1>11, <1>12, <1>13 DEF EditInv

\* The tab saves: the button was on, so no other save of the tab is under way.
LEMMA EditSave ==
    ASSUME EditorsAssumption, EditInv, NEW t \in AllTabs, Save(t)
    PROVE  EditInv'
<1>0. TypeOK /\ SavesTrue /\ SaveIsShown /\ BansTrue
  BY DEF EditInv
<1>1. /\ tab = t /\ ~updating /\ Send("save", t, form, "button") /\ saved' = form
      /\ updated' = FALSE /\ updating' = TRUE /\ error' = FALSE
      /\ UNCHANGED <<view, role, server, copy, page, tab, form, pageError, off, dialogs,
                     crowd, mixed, lost>>
  BY DEF Save, fixed, object
<1>2. PICK m \in Nat : SentAt(m, "save", t, form)
  <2>1. "save" \in Kinds /\ form \in Values /\ "button" \in Hits
    BY <1>0 DEF Kinds, TypeOK, Hits
  <2> QED
    BY <1>0, <1>1, <2>1, ReqSent
<1>20. /\ reqs' \in Seq(Req) /\ sent' \in 0..MaxSent
       /\ DOMAIN reqs' = DOMAIN reqs \cup {m} /\ m \notin DOMAIN reqs
       /\ \A i \in DOMAIN reqs : reqs'[i] = reqs[i]
       /\ reqs'[m].kind = "save" /\ reqs'[m].tab = t /\ reqs'[m].val = form
       /\ reqs'[m].at = "sent" /\ ~reqs'[m].old
  BY <1>2 DEF SentAt
<1>3. TypeOK'
  BY <1>0, <1>1, <1>20 DEF TypeOK
<1>4. \A k \in DOMAIN reqs : ~Mine(k) /\ ~Mine(k)' /\ (Bans(k)' <=> Bans(k))
  BY <1>0, <1>1, <1>20 DEF SaveIsShown, Mine, Bans
<1>5. Mine(m)' /\ ~Bans(m)'
  BY <1>20 DEF Mine, Bans
<1>6. SavesTrue'
  BY <1>0, <1>1, <1>20, <1>4, <1>5 DEF SavesTrue
<1>7. SaveIsShown'
  BY <1>1, <1>20 DEF SaveIsShown
<1>8. BansTrue'
  BY <1>0, <1>1, <1>20, <1>4, <1>5 DEF BansTrue
<1> QED
  BY <1>3, <1>6, <1>7, <1>8 DEF EditInv

\* A request of the page that is no save.
LEMMA EditPageSends ==
    ASSUME EditorsAssumption, EditInv,
           NEW kind \in {"ban", "unban", "export", "delete"}, NEW h \in Hits, SendOfPage(kind, h),
           UNCHANGED <<view, role, server, copy, page, tab, form, updating, updated, error,
                       saved, crowd, lost>>,
           pageError' = FALSE, dialogs' \in Seq(Dialog),
           off' \subseteq {"ban", "export"} \cup Deletes,
           kind \in {"ban", "unban"} =>
              /\ kind = (IF copy.banned THEN "unban" ELSE "ban")
              /\ mixed' = (mixed \/ \E k \in DOMAIN reqs : reqs[k].kind \in {"ban", "unban"} \ {kind}),
           kind \notin {"ban", "unban"} => mixed' = mixed
    PROVE  EditInv'
<1>0. TypeOK /\ SavesTrue /\ SaveIsShown /\ BansTrue
  BY DEF EditInv
<1>10. PICK m \in Nat : SentAt(m, kind, "readonly", Cleared)
  <2>1. Cleared \in Values
    BY DEF EditorsAssumption
  <2>2. Send(kind, "readonly", Cleared, h)
    BY DEF SendOfPage
  <2>3. kind \in Kinds /\ "readonly" \in AllTabs
    BY DEF Kinds, AllTabs
  <2> QED
    BY <1>0, <2>1, <2>2, <2>3, ReqSent
<1>1. /\ reqs' \in Seq(Req) /\ sent' \in 0..MaxSent
      /\ DOMAIN reqs' = DOMAIN reqs \cup {m} /\ m \notin DOMAIN reqs
      /\ \A i \in DOMAIN reqs : reqs'[i] = reqs[i]
      /\ reqs'[m].kind = kind /\ reqs'[m].at = "sent" /\ ~reqs'[m].old
  BY <1>10 DEF SentAt
<1>2. TypeOK'
  <2>1. mixed' \in BOOLEAN
    <3>1. CASE kind \in {"ban", "unban"}
      BY <3>1
    <3>2. CASE kind \notin {"ban", "unban"}
      BY <1>0, <3>2 DEF TypeOK
    <3> QED
      BY <3>1, <3>2
  <2> QED
    BY <1>0, <1>1, <2>1 DEF TypeOK
<1>3. \A k \in DOMAIN reqs : (Mine(k)' <=> Mine(k)) /\ (Bans(k)' <=> Bans(k))
  BY <1>1 DEF Mine, Bans
<1>4. ~Mine(m)' /\ (Bans(m)' <=> kind \in {"ban", "unban"})
  BY <1>1 DEF Mine, Bans
<1>5. SavesTrue'
  BY <1>0, <1>1, <1>3, <1>4 DEF SavesTrue, Stored
<1>6. SaveIsShown'
  BY <1>0, <1>1, <1>3, <1>4 DEF SaveIsShown, Mine
<1>7. ~mixed' => ~mixed
  <2>1. CASE kind \in {"ban", "unban"}
    BY <2>1
  <2>2. CASE kind \notin {"ban", "unban"}
    BY <2>2
  <2> QED
    BY <2>1, <2>2
<1>8. ~mixed' /\ kind \in {"ban", "unban"} => \A k \in DOMAIN reqs : Bans(k) => reqs[k].kind = kind
  BY DEF Bans
<1>9. BansTrue'
  <2> SUFFICES ASSUME server.exists, ~lost, ~mixed'
               PROVE  /\ \A j, k \in DOMAIN reqs' : Bans(j)' /\ Bans(k)' => reqs'[j].kind = reqs'[k].kind
                      /\ \A k \in DOMAIN reqs' : Bans(k)' /\ reqs'[k].at = "done" =>
                            server.banned = (reqs'[k].kind = "ban")
                      /\ (\A k \in DOMAIN reqs' : Bans(k)' => reqs'[k].at # "done") =>
                            copy.banned = server.banned
    BY DEF BansTrue
  <2>1. /\ \A j, k \in DOMAIN reqs : Bans(j) /\ Bans(k) => reqs[j].kind = reqs[k].kind
        /\ \A k \in DOMAIN reqs : Bans(k) /\ reqs[k].at = "done" =>
              server.banned = (reqs[k].kind = "ban")
        /\ (\A k \in DOMAIN reqs : Bans(k) => reqs[k].at # "done") => copy.banned = server.banned
    BY <1>0, <1>7 DEF BansTrue
  <2>2. \A j, k \in DOMAIN reqs' : Bans(j)' /\ Bans(k)' => reqs'[j].kind = reqs'[k].kind
    BY <1>1, <1>3, <1>4, <1>8, <2>1
  <2> QED
    BY <1>1, <1>3, <1>4, <2>1, <2>2
<1> QED
  BY <1>2, <1>5, <1>6, <1>9 DEF EditInv

\* Ban, export, and a delete that is confirmed.
LEMMA EditPage ==
    ASSUME EditorsAssumption, EditInv,
           \/ \E h \in Hits : banUnbanAccount(h) \/ exportAccount(h) \/ exportGroup(h)
           \/ \E d \in DOMAIN dialogs : Confirm(d)
    PROVE  EditInv'
<1>0. off \subseteq {"ban", "export"} \cup Deletes /\ dialogs \in Seq(Dialog)
  BY DEF EditInv, TypeOK
<1>1. ASSUME NEW h \in Hits, banUnbanAccount(h) PROVE EditInv'
  <2> DEFINE kind == IF copy.banned THEN "unban" ELSE "ban"
  <2>1. /\ SendOfPage(kind, h) /\ pageError' = FALSE /\ off' = Off("ban", h)
        /\ mixed' = (mixed \/ \E k \in DOMAIN reqs : reqs[k].kind \in {"ban", "unban"} \ {kind})
        /\ UNCHANGED <<view, role, server, copy, page, tab, form, updating, updated, error,
                       dialogs, saved, crowd, lost>>
    BY <1>1 DEF banUnbanAccount, Press, fixed, object
  <2>2. kind \in {"ban", "unban"} /\ kind = (IF copy.banned THEN "unban" ELSE "ban")
    OBVIOUS
  <2> HIDE DEF kind
  <2>3. kind \in {"ban", "unban", "export", "delete"}
    BY <2>2
  <2>4. off' \subseteq {"ban", "export"} \cup Deletes
    BY <1>0, <2>1 DEF Off
  <2>5. dialogs' \in Seq(Dialog)
    BY <1>0, <2>1
  <2> QED
    BY <2>1, <2>2, <2>3, <2>4, <2>5, EditPageSends
<1>2. ASSUME NEW h \in Hits, exportAccount(h) \/ exportGroup(h) PROVE EditInv'
  <2>1. /\ SendOfPage("export", h) /\ pageError' = FALSE /\ off' = Off("export", h)
        /\ UNCHANGED <<view, role, server, copy, page, tab, form, updating, updated, error,
                       dialogs, saved, crowd, mixed, lost>>
    BY <1>2 DEF exportAccount, exportGroup, Export, Press, fixed, object
  <2>2. off' \subseteq {"ban", "export"} \cup Deletes
    BY <1>0, <2>1 DEF Off
  <2>3. dialogs' \in Seq(Dialog)
    BY <1>0, <2>1
  <2> QED
    BY <2>1, <2>2, <2>3, EditPageSends
<1>3. ASSUME NEW d \in DOMAIN dialogs, Confirm(d) PROVE EditInv'
  <2>1. /\ SendOfPage("delete", dialogs[d].hit) /\ pageError' = FALSE
        /\ dialogs' = RemoveAt(dialogs, d) /\ off' = Off(dialogs[d].button, dialogs[d].hit)
        /\ UNCHANGED <<view, role, server, copy, page, tab, form, updating, updated, error,
                       saved, crowd, mixed, lost>>
    BY <1>3 DEF Confirm, fixed, object
  <2>2. dialogs[d] \in Dialog
    BY <1>0
  <2>3. dialogs[d].hit \in Hits /\ dialogs[d].button \in Deletes
    BY <2>2 DEF Dialog
  <2>4. off' \subseteq {"ban", "export"} \cup Deletes
    BY <1>0, <2>1, <2>3 DEF Off
  <2>5. dialogs' \in Seq(Dialog)
    BY <1>0, <2>1, RemoveAtRest
  <2> QED
    BY <2>1, <2>3, <2>4, <2>5, EditPageSends
<1> QED
  BY <1>1, <1>2, <1>3

\* What the server does with a request: the object keeps its type, and it is not made
\* again; a save of something not skipped changes the tab it names and no other.
LEMMA Done ==
    ASSUME TypeOK, NEW k \in DOMAIN reqs, Does(reqs[k])
    PROVE  /\ server' \in [data: Object, banned: BOOLEAN, exists: BOOLEAN]
           /\ server'.exists => server.exists
           /\ reqs[k].kind # "save" => server'.data = server.data
           /\ server.exists /\ reqs[k].kind = "save" =>
                 \A t \in AllTabs :
                    server'.data[t] = IF t = reqs[k].tab /\ ~Skips(reqs[k].tab, reqs[k].val)
                                      THEN reqs[k].val ELSE server.data[t]
           /\ ~Bans(k) => server'.banned = server.banned
           /\ server.exists /\ Bans(k) => server'.banned = (reqs[k].kind = "ban")
<1>1. /\ server \in [data: Object, banned: BOOLEAN, exists: BOOLEAN]
      /\ reqs[k].kind \in Kinds /\ reqs[k].tab \in AllTabs /\ reqs[k].val \in Values
  BY ReqTyped DEF TypeOK
<1>2. CASE server.exists /\ reqs[k].kind = "save" /\ ~Skips(reqs[k].tab, reqs[k].val)
  <2>1. server' = [server EXCEPT !.data[reqs[k].tab] = reqs[k].val]
    BY <1>2 DEF Does
  <2> DEFINE d == [server.data EXCEPT ![reqs[k].tab] = reqs[k].val]
  <2>2. server' = [server EXCEPT !.data = d]
    BY <2>1
  <2>3. server.data \in Object
    BY <1>1
  <2>4. d \in Object
    BY <1>1, <2>3 DEF Object
  <2>5. \A t \in AllTabs : d[t] = IF t = reqs[k].tab THEN reqs[k].val ELSE server.data[t]
    BY <2>3 DEF Object
  <2> HIDE DEF d
  <2>6. /\ server' \in [data: Object, banned: BOOLEAN, exists: BOOLEAN]
        /\ server'.data = d /\ server'.banned = server.banned /\ server'.exists = server.exists
    BY <1>1, <2>2, <2>4
  <2> QED
    BY <1>2, <2>5, <2>6 DEF Bans
<1>3. CASE server.exists /\ reqs[k].kind = "ban"
  <2>1. server' = [server EXCEPT !.banned = TRUE]
    BY <1>3 DEF Does
  <2> QED
    BY <1>1, <1>3, <2>1 DEF Bans
<1>4. CASE server.exists /\ reqs[k].kind = "unban"
  <2>1. server' = [server EXCEPT !.banned = FALSE]
    BY <1>4 DEF Does
  <2> QED
    BY <1>1, <1>4, <2>1 DEF Bans
<1>5. CASE server.exists /\ reqs[k].kind = "delete"
  <2>1. server' = [server EXCEPT !.exists = FALSE]
    BY <1>5 DEF Does
  <2> QED
    BY <1>1, <1>5, <2>1 DEF Bans
<1>6. CASE ~server.exists \/ reqs[k].kind = "export"
  <2>1. server' = server
    BY <1>6 DEF Does
  <2> QED
    BY <1>1, <1>6, <2>1 DEF Bans
<1>7. CASE server.exists /\ reqs[k].kind = "save" /\ Skips(reqs[k].tab, reqs[k].val)
  <2>1. server' = server
    BY <1>7 DEF Does
  <2> QED
    BY <1>1, <1>7, <2>1 DEF Bans
<1> QED
  BY <1>1, <1>2, <1>3, <1>4, <1>5, <1>6, <1>7 DEF Kinds

\* The server does a request, or refuses it, or its answer is lost.
LEMMA EditServed ==
    ASSUME EditorsAssumption, EditInv, NEW k \in DOMAIN reqs, Serve(k) \/ Lose(k)
    PROVE  EditInv'
<1>0. TypeOK /\ SavesTrue /\ SaveIsShown /\ BansTrue
  BY DEF EditInv
<1>1. PICK a \in {"done", "refused"} :
        /\ reqs' = [reqs EXCEPT ![k].at = a]
        /\ a = "done" => Does(reqs[k]) /\ reqs[k].at = "sent"
        /\ a = "refused" => /\ UNCHANGED server
                            /\ reqs[k].at = "done" => lost'
  BY DEF Serve, Lose, object
<1>2. /\ UNCHANGED <<view, role, copy, page, tab, form, updating, updated, error,
                     pageError, off, dialogs, sent, saved, crowd, mixed>>
      /\ lost' = lost \/ lost' = TRUE
  BY DEF Serve, Lose, fixed, object, alert
<1>3. /\ reqs' \in Seq(Req) /\ DOMAIN reqs' = DOMAIN reqs
      /\ reqs'[k].at = a /\ reqs'[k].kind = reqs[k].kind /\ reqs'[k].tab = reqs[k].tab
      /\ reqs'[k].val = reqs[k].val /\ reqs'[k].old = reqs[k].old
      /\ \A i \in DOMAIN reqs : i # k => reqs'[i] = reqs[i]
  BY <1>0, <1>1, ReqMoved
<1>4. \A i \in DOMAIN reqs : (Mine(i)' <=> Mine(i)) /\ (Bans(i)' <=> Bans(i))
  BY <1>3 DEF Mine, Bans
<1>5. \A i \in DOMAIN reqs : /\ reqs'[i].kind = reqs[i].kind /\ reqs'[i].tab = reqs[i].tab
                             /\ reqs'[i].val = reqs[i].val /\ reqs'[i].old = reqs[i].old
  BY <1>3
<1>6. tab \in AllTabs
  BY <1>0 DEF TypeOK, Tabs, AllTabs
<1>7. TypeOK'
  <2>1. server' \in [data: Object, banned: BOOLEAN, exists: BOOLEAN]
    BY <1>0, <1>1, Done DEF TypeOK
  <2>2. lost' \in BOOLEAN
    BY <1>0, <1>2 DEF TypeOK
  <2> QED
    BY <1>0, <1>2, <1>3, <2>1, <2>2 DEF TypeOK
<1>71. server'.exists => server.exists
  BY <1>0, <1>1, Done
\* A save that is done now is this tab's own, of another tab, or known to crowd.
<1>8. tab \notin crowd /\ server.exists /\ Stored => Stored'
  <2> SUFFICES ASSUME tab \notin crowd, server.exists, Stored, ~Skips(tab, saved)
               PROVE  server'.data[tab] = saved
    BY <1>2 DEF Stored, Skips
  <2>0. server.data[tab] = saved
    BY DEF Stored
  <2>1. CASE a = "refused"
    BY <1>1, <2>0, <2>1
  <2>2. CASE a = "done" /\ reqs[k].kind # "save"
    BY <1>0, <1>1, <2>0, <2>2, Done
  <2>3. CASE a = "done" /\ reqs[k].kind = "save"
    <3>1. \/ server'.data[tab] = server.data[tab]
          \/ server'.data[tab] = reqs[k].val /\ tab = reqs[k].tab
      BY <1>0, <1>1, <1>6, <2>3, Done
    <3>2. reqs[k].old => reqs[k].tab \in crowd
      BY <1>0 DEF SavesTrue
    <3>3. ~reqs[k].old => reqs[k].val = saved
      BY <1>0, <2>3 DEF SavesTrue, Mine
    <3> QED
      BY <2>0, <3>1, <3>2, <3>3
  <2> QED
    BY <2>1, <2>2, <2>3
<1>9. Mine(k) /\ a = "done" /\ server.exists => Stored'
  <2> SUFFICES ASSUME Mine(k), a = "done", server.exists, ~Skips(tab, saved)
               PROVE  server'.data[tab] = saved
    BY <1>2 DEF Stored, Skips
  <2>1. reqs[k].kind = "save" /\ reqs[k].tab = tab /\ reqs[k].val = saved
    BY <1>0 DEF SavesTrue, Mine
  <2> QED
    BY <1>0, <1>1, <1>6, <2>1, Done
<1>10. SavesTrue'
  <2>1. \A i \in DOMAIN reqs' : reqs'[i].old => reqs'[i].kind = "save" /\ reqs'[i].tab \in crowd'
    BY <1>0, <1>2, <1>3, <1>5 DEF SavesTrue
  <2>2. ASSUME NEW i \in DOMAIN reqs, Mine(i)
        PROVE  /\ reqs'[i].tab = tab /\ reqs'[i].val = saved
               /\ reqs'[i].at = "done" /\ tab \notin crowd /\ server'.exists => Stored'
    <3>1. CASE i = k
      BY <1>0, <1>1, <1>3, <1>71, <1>9, <2>2, <3>1 DEF SavesTrue
    <3>2. CASE i # k
      BY <1>0, <1>3, <1>71, <1>8, <2>2, <3>2 DEF SavesTrue
    <3> QED
      BY <3>1, <3>2
  <2>3. \A i, j \in DOMAIN reqs' : Mine(i)' /\ Mine(j)' => i = j
    BY <1>0, <1>3, <1>4 DEF SavesTrue
  <2> QED
    BY <1>2, <1>3, <1>4, <2>1, <2>2, <2>3 DEF SavesTrue
<1>11. SaveIsShown'
  <2>1. updated /\ tab \notin crowd /\ server'.exists => Stored'
    BY <1>0, <1>71, <1>8 DEF SaveIsShown, Stored
  <2>2. updating <=> \E i \in DOMAIN reqs' : reqs'[i].kind = "save" /\ ~reqs'[i].old
    BY <1>0, <1>3, <1>5 DEF SaveIsShown
  <2> QED
    BY <1>2, <2>1, <2>2 DEF SaveIsShown, Stored
<1>12. ~Bans(k) => server'.banned = server.banned
  BY <1>0, <1>1, Done
<1>13. BansTrue'
  <2> SUFFICES ASSUME server'.exists, ~lost', ~mixed
               PROVE  /\ \A i, j \in DOMAIN reqs : Bans(i) /\ Bans(j) => reqs'[i].kind = reqs'[j].kind
                      /\ \A i \in DOMAIN reqs : Bans(i) /\ reqs'[i].at = "done" =>
                            server'.banned = (reqs'[i].kind = "ban")
                      /\ (\A i \in DOMAIN reqs : Bans(i) => reqs'[i].at # "done") =>
                            copy.banned = server'.banned
    BY <1>2, <1>3, <1>4 DEF BansTrue
  <2>0. server.exists /\ ~lost
    BY <1>2, <1>71
  <2>1. /\ \A i, j \in DOMAIN reqs : Bans(i) /\ Bans(j) => reqs[i].kind = reqs[j].kind
        /\ \A i \in DOMAIN reqs : Bans(i) /\ reqs[i].at = "done" =>
              server.banned = (reqs[i].kind = "ban")
        /\ (\A i \in DOMAIN reqs : Bans(i) => reqs[i].at # "done") => copy.banned = server.banned
    BY <1>0, <2>0 DEF BansTrue
  <2>2. CASE ~Bans(k)
    BY <1>3, <1>5, <1>12, <2>1, <2>2
  <2>3. CASE Bans(k) /\ a = "done"
    <3>1. server'.banned = (reqs[k].kind = "ban")
      BY <1>0, <1>1, <2>0, <2>3, Done
    <3> QED
      BY <1>3, <1>5, <2>1, <2>3, <3>1
  <2>4. CASE Bans(k) /\ a = "refused"
    <3>1. server' = server /\ reqs[k].at # "done"
      BY <1>1, <2>4
    <3> QED
      BY <1>3, <1>5, <2>1, <2>4, <3>1
  <2> QED
    BY <2>2, <2>3, <2>4
<1> QED
  BY <1>7, <1>10, <1>11, <1>13 DEF EditInv

\* A request other than the tab's own save, and other than a ban, is answered.
LEMMA EditOther ==
    ASSUME EditorsAssumption, EditInv, TypeOK', NEW k \in DOMAIN reqs,
           reqs' = RemoveAt(reqs, k), ~Mine(k), ~Bans(k),
           UNCHANGED <<server, copy, tab, updating, updated, saved, crowd, mixed, lost>>
    PROVE  EditInv'
<1>0. TypeOK /\ SavesTrue /\ SaveIsShown /\ BansTrue
  BY DEF EditInv
<1>1. /\ \A i \in DOMAIN reqs' : \E j \in DOMAIN reqs : j # k /\ reqs'[i] = reqs[j]
      /\ \A j \in DOMAIN reqs : j # k => \E i \in DOMAIN reqs' : reqs'[i] = reqs[j]
      /\ \A h, i \in DOMAIN reqs' : h # i =>
            \E m, n \in DOMAIN reqs : m # n /\ reqs'[h] = reqs[m] /\ reqs'[i] = reqs[n]
  BY <1>0, ReqGone
<1>2. SavesTrue'
  BY <1>0, <1>1 DEF SavesTrue, Mine, Stored
<1>3. SaveIsShown'
  BY <1>0, <1>1 DEF SaveIsShown, Mine
<1>4. BansTrue'
  BY <1>0, <1>1 DEF BansTrue, Bans
<1> QED
  BY <1>2, <1>3, <1>4 DEF EditInv

\* The tab's own save is answered, well or not.
LEMMA EditSaved ==
    ASSUME EditorsAssumption, EditInv, NEW k \in DOMAIN reqs, Saved(k) \/ SaveFailed(k)
    PROVE  EditInv'
<1>0. TypeOK /\ SavesTrue /\ SaveIsShown /\ BansTrue
  BY DEF EditInv
<1>1. /\ reqs[k].kind = "save" /\ ~reqs[k].old /\ reqs' = RemoveAt(reqs, k) /\ updating' = FALSE
      /\ UNCHANGED <<view, role, server, copy, page, tab, form, pageError, off, dialogs,
                     sent, saved, crowd, mixed, lost>>
  BY DEF Saved, SaveFailed, Answered, fixed
<1>2. \/ updated' = updated /\ error' = TRUE
      \/ updated' = TRUE /\ error' = error /\ reqs[k].at = "done"
  BY DEF Saved, SaveFailed, Answered
<1>3. /\ reqs' \in Seq(Req)
      /\ \A i \in DOMAIN reqs' : \E j \in DOMAIN reqs : j # k /\ reqs'[i] = reqs[j]
      /\ \A j \in DOMAIN reqs : j # k => \E i \in DOMAIN reqs' : reqs'[i] = reqs[j]
      /\ \A h, i \in DOMAIN reqs' : h # i =>
            \E m, n \in DOMAIN reqs : m # n /\ reqs'[h] = reqs[m] /\ reqs'[i] = reqs[n]
  BY <1>0, <1>1, ReqGone
<1>4. TypeOK'
  <2>1. updated' \in BOOLEAN /\ error' \in BOOLEAN
    BY <1>0, <1>2 DEF TypeOK
  <2> QED
    BY <1>0, <1>1, <1>3, <2>1 DEF TypeOK
<1>5. Mine(k) /\ ~Bans(k)
  BY <1>1 DEF Mine, Bans
<1>6. \A i \in DOMAIN reqs' : ~Mine(i)'
  BY <1>0, <1>3, <1>5 DEF SavesTrue, Mine
<1>7. SavesTrue'
  <2>1. \A i \in DOMAIN reqs' : reqs'[i].old => reqs'[i].kind = "save" /\ reqs'[i].tab \in crowd'
    BY <1>0, <1>1, <1>3 DEF SavesTrue
  <2> QED
    BY <1>6, <2>1 DEF SavesTrue
<1>8. SaveIsShown'
  <2>1. updated' /\ tab \notin crowd /\ server.exists => Stored
    BY <1>0, <1>2, <1>5 DEF SavesTrue, SaveIsShown, Stored
  <2> QED
    BY <1>1, <1>6, <2>1 DEF SaveIsShown, Mine, Stored
<1>9. BansTrue'
  BY <1>0, <1>1, <1>3 DEF BansTrue, Bans
<1> QED
  BY <1>4, <1>7, <1>8, <1>9 DEF EditInv

\* A ban or an unban is answered, well or not.
LEMMA EditBanned ==
    ASSUME EditorsAssumption, EditInv, NEW k \in DOMAIN reqs, Banned(k) \/ BanFailed(k)
    PROVE  EditInv'
<1>0. TypeOK /\ SavesTrue /\ SaveIsShown /\ BansTrue
  BY DEF EditInv
<1>1. /\ Bans(k) /\ reqs' = RemoveAt(reqs, k) /\ off' \subseteq off
      /\ UNCHANGED <<view, role, server, page, tab, form, updating, updated, error,
                     dialogs, sent, saved, crowd, mixed, lost>>
  BY DEF Banned, BanFailed, Answered, On, fixed, Bans
<1>2. \/ /\ copy' = [copy EXCEPT !.banned = (reqs[k].kind = "ban")]
         /\ pageError' = FALSE /\ reqs[k].at = "done"
      \/ copy' = copy /\ pageError' = TRUE /\ reqs[k].at = "refused"
  BY DEF Banned, BanFailed, Answered
<1>3. /\ reqs' \in Seq(Req)
      /\ \A i \in DOMAIN reqs' : \E j \in DOMAIN reqs : j # k /\ reqs'[i] = reqs[j]
      /\ \A j \in DOMAIN reqs : j # k => \E i \in DOMAIN reqs' : reqs'[i] = reqs[j]
      /\ \A h, i \in DOMAIN reqs' : h # i =>
            \E m, n \in DOMAIN reqs : m # n /\ reqs'[h] = reqs[m] /\ reqs'[i] = reqs[n]
  BY <1>0, <1>1, ReqGone
<1>4. copy \in [data: Object, banned: BOOLEAN]
  BY <1>0 DEF TypeOK
<1>5. copy' \in [data: Object, banned: BOOLEAN]
  BY <1>2, <1>4
<1>6. TypeOK'
  <2>1. pageError' \in BOOLEAN
    BY <1>2
  <2>2. off' \subseteq {"ban", "export"} \cup Deletes
    BY <1>0, <1>1 DEF TypeOK
  <2> QED
    BY <1>0, <1>1, <1>3, <1>5, <2>1, <2>2 DEF TypeOK
<1>7. ~Mine(k)
  BY <1>1 DEF Mine, Bans
<1>8. SavesTrue'
  BY <1>0, <1>1, <1>3 DEF SavesTrue, Mine, Stored
<1>9. SaveIsShown'
  BY <1>0, <1>1, <1>3, <1>7 DEF SaveIsShown, Mine
<1>10. BansTrue'
  <2> SUFFICES ASSUME server.exists, ~lost, ~mixed
               PROVE  /\ \A i, j \in DOMAIN reqs' : Bans(i)' /\ Bans(j)' => reqs'[i].kind = reqs'[j].kind
                      /\ \A i \in DOMAIN reqs' : Bans(i)' /\ reqs'[i].at = "done" =>
                            server.banned = (reqs'[i].kind = "ban")
                      /\ (\A i \in DOMAIN reqs' : Bans(i)' => reqs'[i].at # "done") =>
                            copy'.banned = server.banned
    BY <1>1 DEF BansTrue
  <2>1. /\ \A i, j \in DOMAIN reqs : Bans(i) /\ Bans(j) => reqs[i].kind = reqs[j].kind
        /\ \A i \in DOMAIN reqs : Bans(i) /\ reqs[i].at = "done" =>
              server.banned = (reqs[i].kind = "ban")
        /\ (\A i \in DOMAIN reqs : Bans(i) => reqs[i].at # "done") => copy.banned = server.banned
    BY <1>0 DEF BansTrue
  <2>2. /\ \A i, j \in DOMAIN reqs' : Bans(i)' /\ Bans(j)' => reqs'[i].kind = reqs'[j].kind
        /\ \A i \in DOMAIN reqs' : Bans(i)' /\ reqs'[i].at = "done" =>
              server.banned = (reqs'[i].kind = "ban")
    BY <1>3, <2>1 DEF Bans
  <2>3. CASE copy' = copy /\ reqs[k].at = "refused"
    <3>1. (\A i \in DOMAIN reqs' : Bans(i)' => reqs'[i].at # "done") =>
             \A j \in DOMAIN reqs : Bans(j) => reqs[j].at # "done"
      BY <1>3, <2>3 DEF Bans
    <3> QED
      BY <2>1, <2>2, <2>3, <3>1
  <2>4. CASE copy' = [copy EXCEPT !.banned = (reqs[k].kind = "ban")] /\ reqs[k].at = "done"
    <3>1. copy'.banned = (reqs[k].kind = "ban")
      BY <1>4, <2>4
    <3> QED
      BY <1>1, <2>1, <2>2, <2>4, <3>1
  <2> QED
    BY <1>2, <2>3, <2>4
<1> QED
  BY <1>6, <1>8, <1>9, <1>10 DEF EditInv

\* The remaining answers: exports, deletes, and what comes for a tab that is gone.
LEMMA EditAnswered ==
    ASSUME EditorsAssumption, EditInv, NEW k \in DOMAIN reqs,
           AnsweredLate(k) \/ Exported(k) \/ Deleted(k) \/ DeleteFailed(k)
    PROVE  EditInv'
<1>0. TypeOK /\ SavesTrue
  BY DEF EditInv
<1>1. reqs' \in Seq(Req)
  <2>1. reqs' = RemoveAt(reqs, k)
    BY DEF AnsweredLate, Exported, Deleted, DeleteFailed, Answered
  <2> QED
    BY <1>0, <2>1, ReqGone
<1>2. CASE AnsweredLate(k)
  <2>1. /\ reqs[k].old /\ reqs' = RemoveAt(reqs, k)
        /\ UNCHANGED <<view, role, server, copy, page, tab, form, updating, updated, error,
                       pageError, off, dialogs, sent, saved, crowd, mixed, lost>>
    BY <1>2 DEF AnsweredLate, fixed, object, alert
  <2>2. ~Mine(k) /\ ~Bans(k)
    BY <1>0, <2>1 DEF SavesTrue, Mine, Bans
  <2>3. TypeOK'
    BY <1>0, <1>1, <2>1 DEF TypeOK
  <2> QED
    BY <2>1, <2>2, <2>3, EditOther
<1>3. CASE Exported(k)
  <2>1. /\ reqs[k].kind = "export" /\ reqs' = RemoveAt(reqs, k) /\ off' \subseteq off
        /\ UNCHANGED <<view, role, server, copy, page, tab, form, updating, updated, error,
                       dialogs, sent, saved, crowd, mixed, lost>>
    BY <1>3 DEF Exported, Answered, On, fixed
  <2>2. pageError' \in BOOLEAN
    BY <1>3 DEF Exported
  <2>3. ~Mine(k) /\ ~Bans(k)
    BY <2>1 DEF Mine, Bans
  <2>4. TypeOK'
    <3>1. off' \subseteq {"ban", "export"} \cup Deletes
      BY <1>0, <2>1 DEF TypeOK
    <3> QED
      BY <1>0, <1>1, <2>1, <2>2, <3>1 DEF TypeOK
  <2> QED
    BY <2>1, <2>3, <2>4, EditOther
<1>4. CASE Deleted(k) \/ DeleteFailed(k)
  <2>1. /\ reqs[k].kind = "delete" /\ reqs' = RemoveAt(reqs, k)
        /\ UNCHANGED <<view, role, server, copy, tab, form, off, updating, updated, error,
                       dialogs, sent, saved, crowd, mixed, lost>>
    BY <1>4 DEF Deleted, DeleteFailed, Answered, fixed
  <2>2. \/ page' = "left" /\ pageError' = FALSE
        \/ page' = page /\ pageError' = TRUE
    BY <1>4 DEF Deleted, DeleteFailed
  <2>3. pageError' \in BOOLEAN /\ page' \in {"open", "left"}
    BY <1>0, <2>2 DEF TypeOK
  <2>4. ~Mine(k) /\ ~Bans(k)
    BY <2>1 DEF Mine, Bans
  <2>5. TypeOK'
    BY <1>0, <1>1, <2>1, <2>3 DEF TypeOK
  <2> QED
    BY <2>1, <2>4, <2>5, EditOther
<1> QED
  BY <1>2, <1>3, <1>4

\* The object pages stay in their invariant.
LEMMA EditInvariance == Spec => []EditInv
<1>1. Init => EditInv
  BY EditInit, EditorsAssumption
<1>2. EditInv /\ [Next]_vars => EditInv'
  <2> SUFFICES ASSUME EditInv, [Next]_vars PROVE EditInv'
    OBVIOUS
  <2> USE EditorsAssumption
  <2>1. CASE ProfileInit \/ WalletInit \/ AuthenticationInit \/ GroupDetailsInit
             \/ LeaderboardDetailsInit
    BY <2>1, EditOpen
    DEF ProfileInit, WalletInit, AuthenticationInit, GroupDetailsInit, LeaderboardDetailsInit
  <2>2. CASE ProfileUpdateAccount \/ updateWallet \/ AuthenticationUpdateAccount \/ updateGroup
    <3>1. \E t \in AllTabs : Save(t) \/ SaveInvalid(t)
      BY <2>2 DEF ProfileUpdateAccount, updateWallet, AuthenticationUpdateAccount, updateGroup,
                  AllTabs
    <3> QED
      BY <3>1, EditSave, EditLight
  <2>3. CASE (\E v \in Values : Type(v)) \/ Confirmations
    BY <2>3, EditLight
  <2>4. CASE \/ \E h \in Hits : banUnbanAccount(h) \/ exportAccount(h) \/ exportGroup(h)
             \/ \E d \in DOMAIN dialogs : Confirm(d)
    BY <2>4, EditPage
  <2>5. ASSUME NEW k \in DOMAIN reqs,
               \/ Serve(k) \/ Lose(k) \/ AnsweredLate(k)
               \/ Saved(k) \/ SaveFailed(k) \/ Banned(k) \/ BanFailed(k) \/ Exported(k)
               \/ Deleted(k) \/ DeleteFailed(k)
        PROVE  EditInv'
    BY <2>5, EditServed, EditSaved, EditBanned, EditAnswered
  <2>6. CASE UNCHANGED vars
    <3>1. UNCHANGED <<view, role, server, copy, page, tab, form, updating, updated, error,
                      pageError, off, dialogs, reqs, sent, saved, crowd, mixed, lost>>
      BY <2>6 DEF vars, fixed, object, alert
    <3>2. TypeOK'
      BY <3>1 DEF EditInv, TypeOK
    <3> QED
      BY <3>1, <3>2, EditFrame
  <2> QED
    BY <2>1, <2>2, <2>3, <2>4, <2>5, <2>6 DEF Next, Confirmations
<1> QED
  BY <1>1, <1>2, PTL DEF Spec

\* The object, the page's copy, the forms, buttons, dialogs and requests of the pages of
\* one account, group or leaderboard stay in their domains.
THEOREM EditorsTypeCorrect == Spec => []TypeOK
<1>1. EditInv => TypeOK
  BY DEF EditInv
<1> QED
  BY <1>1, EditInvariance, PTL

\* However saves, tab changes, bans and deletes are interleaved, served and answered:
\* "modified successfully" is shown only if the server has what the tab saved last
\* (unless an earlier visit of the same tab left a save behind, the object is gone, or
\* the server skipped an empty wallet or empty metadata), and the save button is off
\* exactly while the tab's save is under way.
THEOREM SavedIsShown == Spec => []SaveIsShown
<1>1. EditInv => SaveIsShown
  BY DEF EditInv
<1> QED
  BY <1>1, EditInvariance, PTL

\* With no ban under way the page of an account knows whether it is banned: however often
\* banUnbanAccount ran, whatever of the button was hit, in whatever order its requests
\* were served, refused and answered, as long as no answer was lost and no unban was
\* sent while a ban was under way.
THEOREM BannedIsShown == Spec => []BanIsShown
<1>1. EditInv => BanIsShown
  BY DEF EditInv, BansTrue, BanIsShown, Bans
<1> QED
  BY <1>1, EditInvariance, PTL

-----------------------------------------------------------------------------
(* NftForms: a form, its image and the requests under way.                 *)

FormReq == [kind: Forms!Kinds, rec: Forms!Record, at: {"sent", "done", "refused"}]
UnservedSave == {r \in FormReq : r.kind = "save" /\ r.at = "sent"}
UnservedSaves(q) == Places(q, UnservedSave)

\* Every record that was made, and every one that is still to be made, was asked for.
MadeOnRequest == nMade + Cardinality(UnservedSaves(nReqs)) <= nSent

\* Only the page of a collection publishes and links; an error that is on its way is
\* known to failed.
OnThePage ==
    /\ nLink # Forms!Closed => nVisit.view = "detail"
    /\ \A k \in DOMAIN nReqs : nReqs[k].kind \in {"publish", "link"} => nVisit.view = "detail"
    /\ ~nFailed => \A k \in DOMAIN nReqs : nReqs[k].at # "refused"

FormsBase == Forms!TypeOK /\ MadeOnRequest /\ OnThePage

\* An upload, or the read that fills the dialog.
Loads(k) == nReqs[k].kind \in {"upload", "read"}

\* The image that is shown, or will be once its file is read.
Shown == IF nReaders = <<>> THEN nPreview ELSE nReaders[1]

\* At most one file is being read and at most one answer with an image is to come; an
\* upload brings the image that is shown, and when none is to come the form has it.
ImageUnderWay ==
    nVisit.view # "detail" /\ ~nFailed /\ ~nRaced =>
        /\ Len(nReaders) <= 1
        /\ \A j, k \in DOMAIN nReqs : Loads(j) /\ Loads(k) => j = k
        /\ \A k \in DOMAIN nReqs : nReqs[k].kind = "upload" => nReqs[k].rec.image = Shown
        /\ \A k \in DOMAIN nReqs : nReqs[k].kind = "read" => nReaders = <<>>
        /\ (\A k \in DOMAIN nReqs : ~Loads(k)) => nForm.image = Shown

\* A user who waits has at most one request under way, and none once the form is closed.
OneAtATime ==
    nVisit.serial => Len(nReqs) <= 1 /\ (~nFailed /\ ~nOpen => nReqs = <<>>)

\* Two records that differ in the contract or in public only.
Agree(a, b) == a.name = b.name /\ a.image = b.image /\ a.attrs = b.attrs

\* A save that was served, or the way to the list: the page is about to be left.
Leaves(k) == (nReqs[k].kind = "save" /\ nReqs[k].at = "done") \/ nReqs[k].kind = "navigate"

\* Under such a user the page's copy of a collection agrees with the portal's record,
\* unless the page is about to be left; so do the record that a link sends and the one
\* that a read returns.
CopyAgrees ==
    nVisit.serial /\ nVisit.view = "detail" /\ ~nFailed =>
        /\ nOpen /\ (\A k \in DOMAIN nReqs : ~Leaves(k)) => Agree(nCopy, nItem)
        /\ \A k \in DOMAIN nReqs :
              nReqs[k].kind = "link" \/ (nReqs[k].kind = "read" /\ nReqs[k].at = "done")
                 => Agree(nReqs[k].rec, nItem)

FormsInv == FormsBase /\ ImageUnderWay /\ OneAtATime /\ CopyAgrees

-----------------------------------------------------------------------------
(* How many saves are still to be served.                                  *)

\* The saves that are not yet served can be counted.
LEMMA UnservedFinite ==
    ASSUME NEW q \in Seq(FormReq)
    PROVE  /\ IsFiniteSet(UnservedSaves(q)) /\ Cardinality(UnservedSaves(q)) \in Nat
           /\ UnservedSaves(q) \subseteq DOMAIN q
<1>1. Len(q) \in Nat /\ DOMAIN q = 1..Len(q)
  OBVIOUS
<1>2. IsFiniteSet(1..Len(q))
  BY <1>1, FS_Interval
<1>3. UnservedSaves(q) \in SUBSET (1..Len(q))
  BY <1>1 DEF UnservedSaves, Places
<1>4. IsFiniteSet(UnservedSaves(q))
  BY <1>2, <1>3, FS_Subset
<1> QED
  BY <1>1, <1>3, <1>4, FS_CardinalityType

\* A request that is sent adds at most one to them.
LEMMA UnservedAdded ==
    ASSUME NEW q \in Seq(FormReq), NEW r \in FormReq
    PROVE  Cardinality(UnservedSaves(Append(q, r)))
             = Cardinality(UnservedSaves(q)) + (IF r \in UnservedSave THEN 1 ELSE 0)
<1> DEFINE a == Append(q, r)
           m == Len(q) + 1
<1>1. /\ DOMAIN a = DOMAIN q \cup {m} /\ m \notin DOMAIN q
      /\ \A i \in DOMAIN q : a[i] = q[i]
      /\ a[m] = r
  BY AppendRest
<1> HIDE DEF a, m
<1>2. IsFiniteSet(UnservedSaves(q)) /\ UnservedSaves(q) \subseteq DOMAIN q
      /\ Cardinality(UnservedSaves(q)) \in Nat
  BY UnservedFinite
<1>3. CASE r \in UnservedSave
  <2>1. UnservedSaves(a) = UnservedSaves(q) \cup {m} /\ m \notin UnservedSaves(q)
    BY <1>1, <1>2, <1>3 DEF UnservedSaves, Places
  <2>2. Cardinality(UnservedSaves(q) \cup {m}) = Cardinality(UnservedSaves(q)) + 1
    BY <1>2, <2>1, FS_AddElement
  <2> QED
    BY <1>3, <2>1, <2>2 DEF a
<1>4. CASE r \notin UnservedSave
  <2>1. UnservedSaves(a) = UnservedSaves(q)
    BY <1>1, <1>2, <1>4 DEF UnservedSaves, Places
  <2> QED
    BY <1>2, <1>4, <2>1 DEF a
<1> QED
  BY <1>3, <1>4

\* An answer takes no unserved save away.
LEMMA UnservedDropped ==
    ASSUME NEW q \in Seq(FormReq), NEW k \in DOMAIN q, q[k].at # "sent"
    PROVE  Cardinality(UnservedSaves(RemoveAt(q, k))) = Cardinality(UnservedSaves(q))
<1>1. q[k] \notin UnservedSave
  BY DEF UnservedSave
<1> QED
  BY <1>1, RemoveAtCount DEF UnservedSaves

\* Serving a save takes it out of the count.
LEMMA UnservedServed ==
    ASSUME NEW q \in Seq(FormReq), NEW k \in DOMAIN q, q[k].at = "sent",
           NEW w \in Seq(FormReq), DOMAIN w = DOMAIN q, w[k].at # "sent",
           \A i \in DOMAIN q : i # k => w[i] = q[i]
    PROVE  Cardinality(UnservedSaves(w))
             = Cardinality(UnservedSaves(q)) - (IF q[k].kind = "save" THEN 1 ELSE 0)
<1>0. q[k] \in FormReq /\ w[k] \notin UnservedSave /\ k \in DOMAIN w
  BY DEF UnservedSave
<1>1. IsFiniteSet(UnservedSaves(q)) /\ Cardinality(UnservedSaves(q)) \in Nat
  BY UnservedFinite
<1>2. CASE q[k].kind = "save"
  <2>1. k \in UnservedSaves(q)
    BY <1>0, <1>2 DEF UnservedSaves, Places, UnservedSave
  <2>3. UnservedSaves(w) = UnservedSaves(q) \ {k}
    BY <1>0 DEF UnservedSaves, Places
  <2>2. Cardinality(UnservedSaves(q) \ {k}) = Cardinality(UnservedSaves(q)) - 1
    BY <1>1, <2>1, FS_RemoveElement
  <2> QED
    BY <1>2, <2>2, <2>3
<1>3. CASE q[k].kind # "save"
  <2>1. UnservedSaves(w) = UnservedSaves(q)
    <3>1. q[k] \notin UnservedSave
      BY <1>3 DEF UnservedSave
    <3> QED
      BY <1>0, <3>1 DEF UnservedSaves, Places
  <2> QED
    BY <1>1, <1>3, <2>1
<1> QED
  BY <1>2, <1>3

-----------------------------------------------------------------------------
(* The shapes of a step of a form.                                         *)

\* Typing, attributes and the dialog of the contract.
Fills ==
    /\ nForm' \in Forms!Form /\ nForm'.image = nForm.image
    /\ nLink' \in Contracts \cup {Forms!Closed, Forms!Empty}
    /\ nLink' # Forms!Closed => nVisit.view = "detail"
    /\ UNCHANGED <<nVisit, nOpen, nItem, nMade, nCopy, nPreview, nReaders, nError, nReqs,
                   nSent, nRaced, nFailed>>

\* A file is read: the preview.
Shows(f) ==
    /\ nPreview' = nReaders[f] /\ nReaders' = RemoveAt(nReaders, f)
    /\ UNCHANGED <<nVisit, nOpen, nItem, nMade, nCopy, nForm, nError, nLink, nReqs, nSent,
                   nRaced, nFailed>>

\* A request of a button.
Asks(kind, rec) ==
    /\ kind \in Forms!Kinds /\ kind # "read" /\ rec \in Forms!Record
    /\ kind \in {"publish", "link"} => nVisit.view = "detail"
    /\ nOpen /\ (nVisit.serial => nReqs = <<>>)
    /\ nReqs' = Append(nReqs, [kind |-> kind, rec |-> rec, at |-> "sent"])
    /\ nSent < nVisit.maxSent /\ nSent' = nSent + 1
    /\ nError' \in BOOLEAN /\ nRaced' \in BOOLEAN
    /\ \/ /\ kind = "upload" /\ rec.image \in Images /\ nReaders' = Append(nReaders, rec.image)
          /\ ~nRaced' => ~nRaced /\ nReaders = <<>> /\ \A k \in DOMAIN nReqs : ~Loads(k)
       \/ kind # "upload" /\ UNCHANGED <<nReaders, nRaced>>
    /\ kind = "link" => Agree(rec, nCopy)
    /\ UNCHANGED <<nVisit, nOpen, nItem, nMade, nCopy, nForm, nPreview, nLink, nFailed>>

\* A request whose answer is shown.
Ends(k) ==
    /\ nReqs[k].at # "sent"
    /\ nReqs' = RemoveAt(nReqs, k)
    /\ nForm' \in Forms!Form /\ nPreview' \in Images \cup {Forms!Empty} /\ nError' \in BOOLEAN
    /\ nLink' \in {nLink, Forms!Closed}
    /\ nOpen' = (nOpen /\ ~(nReqs[k].kind \in {"save", "navigate"} /\ nReqs[k].at = "done"))
    /\ \/ nVisit.view = "detail" /\ nReqs[k].kind = "read" /\ nReqs[k].at = "done"
          /\ nCopy' = nReqs[k].rec
       \/ nCopy' = nCopy
    /\ \/ nReqs[k].at = "refused" \/ nVisit.view = "detail"
       \/ nReqs[k].kind = "upload" /\ nForm'.image = nReqs[k].rec.image /\ nPreview' = nPreview
       \/ nReqs[k].kind = "read" /\ nForm'.image = nPreview'
       \/ ~Loads(k) /\ UNCHANGED <<nForm, nPreview>>
    /\ UNCHANGED <<nVisit, nItem, nMade, nReaders, nSent, nRaced, nFailed>>

\* A request whose answer leads to another one: a publication to a read, the save of a
\* page to the list.
Leads(k, r) ==
    /\ nReqs[k].at = "done" /\ r \in FormReq /\ r.at = "sent"
    /\ \/ nReqs[k].kind = "publish" /\ r.kind = "read"
       \/ nReqs[k].kind = "save" /\ r.kind = "navigate"
    /\ nReqs' = Append(RemoveAt(nReqs, k), r)
    /\ UNCHANGED <<nVisit, nOpen, nItem, nMade, nCopy, nForm, nPreview, nReaders, nError, nLink,
                   nSent, nRaced, nFailed>>

\* The parts of a request of a form.
LEMMA FormReqTyped ==
    ASSUME Forms!TypeOK, NEW k \in DOMAIN nReqs
    PROVE  /\ nReqs \in Seq(FormReq) /\ nReqs[k] \in FormReq
           /\ nReqs[k].kind \in Forms!Kinds /\ nReqs[k].rec \in Forms!Record
           /\ nReqs[k].at \in {"sent", "done", "refused"}
<1>1. nReqs \in Seq(FormReq)
  BY DEF Forms!TypeOK, FormReq
<1>2. nReqs[k] \in FormReq
  BY <1>1
<1> QED
  BY <1>1, <1>2 DEF FormReq

\* Typing, attributes and the dialog are Fills steps.
LEMMA FormFills ==
    ASSUME FormsConstants, FormsBase,
           \/ \E n \in Names \cup {Forms!Empty} : Forms!Type(n)
           \/ Forms!addAttribute \/ Forms!removeAttribute
           \/ Forms!openLinkContractModal \/ Forms!dismiss
           \/ \E c \in Contracts \cup {Forms!Empty} : Forms!TypeContract(c)
    PROVE  Fills
<1>0. /\ nForm \in Forms!Form /\ nCopy \in Forms!Record
      /\ nLink \in Contracts \cup {Forms!Closed, Forms!Empty}
      /\ nLink # Forms!Closed => nVisit.view = "detail"
  BY DEF FormsBase, Forms!TypeOK, OnThePage
<1>1. CASE \E n \in Names \cup {Forms!Empty} : Forms!Type(n)
  BY <1>0, <1>1 DEF Fills, Forms!Type, Forms!Form
<1>2. CASE Forms!addAttribute
  BY <1>0, <1>2 DEF Fills, Forms!addAttribute, Forms!Form, FormsConstants
<1>3. CASE Forms!removeAttribute
  BY <1>0, <1>3 DEF Fills, Forms!removeAttribute, Forms!Form, FormsConstants
<1>4. CASE Forms!openLinkContractModal
  BY <1>0, <1>4 DEF Fills, Forms!openLinkContractModal, Forms!Record, Forms!view
<1>5. CASE Forms!dismiss
  BY <1>0, <1>5 DEF Fills, Forms!dismiss
<1>6. CASE \E c \in Contracts \cup {Forms!Empty} : Forms!TypeContract(c)
  BY <1>0, <1>6 DEF Fills, Forms!TypeContract
<1> QED
  BY <1>1, <1>2, <1>3, <1>4, <1>5, <1>6

\* The buttons and files that send a request are Asks steps.
LEMMA FormAsks ==
    ASSUME FormsConstants, FormsBase,
           \/ \E i \in Images : \/ Forms!CreateFileSelected(i) \/ Forms!DetailFileSelected(i)
                                \/ Forms!CreateNftFileSelected(i) \/ Forms!UpdateNftFileSelected(i)
           \/ Forms!createCollection \/ Forms!updateCollection
           \/ Forms!createCollectible \/ Forms!updateCollectible
           \/ Forms!publicCollection \/ Forms!updateLinkContract \/ Forms!handleBack
    PROVE  \E kind, rec : Asks(kind, rec)
<1>0. /\ nForm \in Forms!Form /\ nCopy \in Forms!Record /\ nError \in BOOLEAN
      /\ nRaced \in BOOLEAN /\ nPreview \in Images \cup {Forms!Empty}
      /\ nLink # Forms!Closed => nVisit.view = "detail"
  BY DEF FormsBase, Forms!TypeOK, OnThePage
<1>1. ASSUME NEW i \in Images, Forms!onFileSelected(i)
      PROVE  Asks("upload", [nCopy EXCEPT !.image = i])
  <2>1. /\ [nCopy EXCEPT !.image = i] \in Forms!Record
        /\ [nCopy EXCEPT !.image = i].image = i
    BY <1>0 DEF Forms!Record
  <2>2. /\ nOpen /\ (nVisit.serial => nReqs = <<>>)
        /\ nReqs' = Append(nReqs, [kind |-> "upload", rec |-> [nCopy EXCEPT !.image = i], at |-> "sent"])
        /\ nSent < nVisit.maxSent /\ nSent' = nSent + 1
        /\ nReaders' = Append(nReaders, i)
        /\ nRaced' = (nRaced \/ nReaders # <<>> \/ \E k \in DOMAIN nReqs : nReqs[k].kind \in {"upload", "read"})
        /\ UNCHANGED <<nVisit, nOpen, nItem, nMade, nCopy, nForm, nPreview, nError, nLink, nFailed>>
    BY <1>1 DEF Forms!onFileSelected, Forms!uploadImage, Forms!Send, Forms!MayAct,
                Forms!Serial, Forms!SendLimit
  <2>3. nRaced' \in BOOLEAN /\ (~nRaced' => ~nRaced /\ nReaders = <<>> /\ \A k \in DOMAIN nReqs : ~Loads(k))
    BY <2>2 DEF Loads
  <2> QED
    BY <1>0, <2>1, <2>2, <2>3 DEF Asks, Forms!Kinds
<1>2. ASSUME NEW v, Forms!Submit(v)
      PROVE  \E rec : Asks("save", rec)
  <2> DEFINE rec == [nCopy EXCEPT !.name = nForm.name, !.image = nForm.image,
                                  !.attrs = nForm.attrs]
  <2>1. rec \in Forms!Record
    BY <1>0 DEF Forms!Record, Forms!Form
  <2>2. /\ nOpen /\ (nVisit.serial => nReqs = <<>>)
        /\ nReqs' = Append(nReqs, [kind |-> "save", rec |-> rec, at |-> "sent"])
        /\ nSent < nVisit.maxSent /\ nSent' = nSent + 1
        /\ nError' = FALSE
        /\ UNCHANGED <<nVisit, nOpen, nItem, nMade, nCopy, nForm, nPreview, nReaders, nLink, nRaced,
                       nFailed>>
    BY <1>2 DEF Forms!Submit, Forms!Send, Forms!MayAct, Forms!Serial, Forms!SendLimit
  <2> HIDE DEF rec
  <2>3. Asks("save", rec)
    BY <1>0, <2>1, <2>2 DEF Asks, Forms!Kinds
  <2> QED
    BY <2>3
<1>3. ASSUME Forms!publicCollection
      PROVE  Asks("publish", nCopy)
  <2>1. /\ nOpen /\ (nVisit.serial => nReqs = <<>>) /\ nVisit.view = "detail"
        /\ nReqs' = Append(nReqs, [kind |-> "publish", rec |-> nCopy, at |-> "sent"])
        /\ nSent < nVisit.maxSent /\ nSent' = nSent + 1
        /\ UNCHANGED <<nVisit, nOpen, nItem, nMade, nCopy, nForm, nPreview, nReaders, nError,
                       nLink, nRaced, nFailed>>
    BY <1>3 DEF Forms!publicCollection, Forms!Send, Forms!MayAct, Forms!Serial,
                Forms!SendLimit, Forms!view
  <2> QED
    BY <1>0, <2>1 DEF Asks, Forms!Kinds
<1>4. ASSUME Forms!updateLinkContract
      PROVE  Asks("link", [nCopy EXCEPT !.contract = nLink])
  <2>0. nLink \in Contracts /\ nLink # Forms!Closed
    BY <1>4 DEF Forms!updateLinkContract, FormsConstants
  <2>1. /\ [nCopy EXCEPT !.contract = nLink] \in Forms!Record
        /\ Agree([nCopy EXCEPT !.contract = nLink], nCopy)
    BY <1>0, <2>0 DEF Forms!Record, Agree
  <2>2. /\ nOpen /\ (nVisit.serial => nReqs = <<>>)
        /\ nReqs' = Append(nReqs, [kind |-> "link", rec |-> [nCopy EXCEPT !.contract = nLink], at |-> "sent"])
        /\ nSent < nVisit.maxSent /\ nSent' = nSent + 1
        /\ UNCHANGED <<nVisit, nOpen, nItem, nMade, nCopy, nForm, nPreview, nReaders, nError,
                       nLink, nRaced, nFailed>>
    BY <1>4 DEF Forms!updateLinkContract, Forms!Send, Forms!MayAct, Forms!Serial, Forms!SendLimit
  <2> QED
    BY <1>0, <2>0, <2>1, <2>2 DEF Asks, Forms!Kinds
<1>5. ASSUME Forms!handleBack
      PROVE  Asks("navigate", nCopy)
  <2>1. /\ nOpen /\ (nVisit.serial => nReqs = <<>>)
        /\ nReqs' = Append(nReqs, [kind |-> "navigate", rec |-> nCopy, at |-> "sent"])
        /\ nSent < nVisit.maxSent /\ nSent' = nSent + 1
        /\ UNCHANGED <<nVisit, nOpen, nItem, nMade, nCopy, nForm, nPreview, nReaders, nError,
                       nLink, nRaced, nFailed>>
    BY <1>5 DEF Forms!handleBack, Forms!Send, Forms!MayAct, Forms!Serial, Forms!SendLimit
  <2> QED
    BY <1>0, <2>1 DEF Asks, Forms!Kinds
<1> QED
  BY <1>1, <1>2, <1>3, <1>4, <1>5
     DEF Forms!CreateFileSelected, Forms!DetailFileSelected, Forms!CreateNftFileSelected,
         Forms!UpdateNftFileSelected, Forms!createCollection, Forms!updateCollection,
         Forms!createCollectible, Forms!updateCollectible

\* The answers are Ends steps.
LEMMA FormEnds ==
    ASSUME FormsBase, NEW k \in DOMAIN nReqs,
           \/ Forms!Uploaded(k) \/ Forms!UploadFailed(k) \/ Forms!Left(k) \/ Forms!Refused(k)
           \/ Forms!Saved(k) /\ nVisit.view \notin Forms!Pages
           \/ Forms!handleDetail(k) \/ Forms!detailCollection(k) \/ Forms!Linked(k)
    PROVE  Ends(k)
<1>0. /\ nForm \in Forms!Form /\ nCopy \in Forms!Record /\ nError \in BOOLEAN
      /\ nPreview \in Images \cup {Forms!Empty} /\ nOpen \in BOOLEAN
      /\ \A q : Forms!RemoveAt(q, k) = RemoveAt(q, k)
  BY DEF FormsBase, Forms!TypeOK, Forms!RemoveAt, RemoveAt
<1>1. nReqs[k].kind \in Forms!Kinds /\ nReqs[k].rec \in Forms!Record
  BY FormReqTyped DEF FormsBase
<1>2. CASE Forms!Uploaded(k)
  <2>1. /\ nReqs[k].kind = "upload" /\ nReqs[k].at = "done"
        /\ nForm' = [nForm EXCEPT !.image = nReqs[k].rec.image]
        /\ nReqs' = RemoveAt(nReqs, k)
        /\ UNCHANGED <<nVisit, nOpen, nItem, nMade, nCopy, nPreview, nReaders, nError, nLink, nSent,
                       nRaced, nFailed>>
    BY <1>0, <1>2 DEF Forms!Uploaded, Forms!Answer
  <2>2. nForm' \in Forms!Form /\ nForm'.image = nReqs[k].rec.image
    BY <1>0, <1>1, <2>1 DEF Forms!Form, Forms!Record
  <2> QED
    BY <1>0, <2>1, <2>2 DEF Ends
<1>3. CASE Forms!UploadFailed(k)
  <2>1. /\ nReqs[k].at = "refused"
        /\ nReqs' = RemoveAt(nReqs, k)
        /\ UNCHANGED <<nVisit, nOpen, nItem, nMade, nCopy, nForm, nPreview, nReaders, nError, nLink,
                       nSent, nRaced, nFailed>>
    BY <1>0, <1>3 DEF Forms!UploadFailed, Forms!Answer
  <2> QED
    BY <1>0, <2>1 DEF Ends
<1>4. CASE (Forms!Saved(k) /\ nVisit.view \notin Forms!Pages) \/ Forms!Left(k)
  <2>1. /\ nReqs[k].kind \in {"save", "navigate"} /\ nReqs[k].at = "done" /\ nOpen' = FALSE
        /\ nReqs' = RemoveAt(nReqs, k)
        /\ UNCHANGED <<nVisit, nItem, nMade, nCopy, nForm, nPreview, nReaders, nError, nLink,
                       nSent, nRaced, nFailed>>
    BY <1>0, <1>4 DEF Forms!Saved, Forms!Left, Forms!Answer, Forms!view
  <2> QED
    BY <1>0, <2>1 DEF Ends, Loads
<1>5. CASE Forms!Refused(k)
  <2>1. /\ nReqs[k].at = "refused" /\ nError' = TRUE
        /\ nReqs' = RemoveAt(nReqs, k)
        /\ UNCHANGED <<nVisit, nOpen, nItem, nMade, nCopy, nForm, nPreview, nReaders, nLink,
                       nSent, nRaced, nFailed>>
    BY <1>0, <1>5 DEF Forms!Refused, Forms!Answer
  <2> QED
    BY <1>0, <2>1 DEF Ends
<1>6. CASE Forms!handleDetail(k)
  <2>1. /\ nReqs[k].kind = "read" /\ nReqs[k].at = "done"
        /\ nForm' = [name |-> nReqs[k].rec.name, image |-> nReqs[k].rec.image,
                     attrs |-> nReqs[k].rec.attrs]
        /\ nPreview' = nReqs[k].rec.image
        /\ nReqs' = RemoveAt(nReqs, k)
        /\ UNCHANGED <<nVisit, nOpen, nItem, nMade, nCopy, nReaders, nError, nLink, nSent, nRaced, nFailed>>
    BY <1>0, <1>6 DEF Forms!handleDetail, Forms!Answer
  <2>2. nForm' \in Forms!Form /\ nForm'.image = nPreview' /\ nPreview' \in Images \cup {Forms!Empty}
    BY <1>0, <1>1, <2>1 DEF Forms!Form, Forms!Record
  <2> QED
    BY <1>0, <2>1, <2>2 DEF Ends
<1>7. CASE Forms!detailCollection(k)
  <2>1. /\ nReqs[k].kind = "read" /\ nReqs[k].at = "done" /\ nVisit.view = "detail"
        /\ nCopy' = nReqs[k].rec
        /\ nForm' = [nForm EXCEPT !.name = nReqs[k].rec.name, !.image = nReqs[k].rec.image]
        /\ nReqs' = RemoveAt(nReqs, k)
        /\ UNCHANGED <<nVisit, nOpen, nItem, nMade, nPreview, nReaders, nError, nLink, nSent, nRaced, nFailed>>
    BY <1>0, <1>7 DEF Forms!detailCollection, Forms!Answer, Forms!view
  <2>2. nForm' \in Forms!Form
    BY <1>0, <1>1, <2>1 DEF Forms!Form, Forms!Record
  <2> QED
    BY <1>0, <2>1, <2>2 DEF Ends
<1>8. CASE Forms!Linked(k)
  <2>1. /\ nReqs[k].kind = "link" /\ nReqs[k].at = "done" /\ nLink' = Forms!Closed
        /\ nReqs' = RemoveAt(nReqs, k)
        /\ UNCHANGED <<nVisit, nOpen, nItem, nMade, nCopy, nForm, nPreview, nReaders, nError,
                       nSent, nRaced, nFailed>>
    BY <1>0, <1>8 DEF Forms!Linked, Forms!Answer
  <2> QED
    BY <1>0, <2>1 DEF Ends, Loads
<1> QED
  BY <1>2, <1>3, <1>4, <1>5, <1>6, <1>7, <1>8

\* Published and, on a page, Saved are Leads steps.
LEMMA FormLeads ==
    ASSUME FormsBase, NEW k \in DOMAIN nReqs,
           Forms!Published(k) \/ (Forms!Saved(k) /\ nVisit.view \in Forms!Pages)
    PROVE  \E r : Leads(k, r)
<1>0. /\ nCopy \in Forms!Record /\ nOpen \in BOOLEAN
      /\ \A q : Forms!RemoveAt(q, k) = RemoveAt(q, k)
  BY DEF FormsBase, Forms!TypeOK, Forms!RemoveAt, RemoveAt
<1>1. CASE Forms!Published(k)
  <2> DEFINE r == [kind |-> "read", rec |-> nCopy, at |-> "sent"]
  <2>1. r \in FormReq /\ r.kind = "read" /\ r.at = "sent"
    BY <1>0 DEF FormReq, Forms!Kinds
  <2>2. /\ nReqs[k].kind = "publish" /\ nReqs[k].at = "done"
        /\ nReqs' = Append(RemoveAt(nReqs, k), r)
        /\ UNCHANGED <<nVisit, nOpen, nItem, nMade, nCopy, nForm, nPreview, nReaders, nError,
                       nLink, nSent, nRaced, nFailed>>
    BY <1>0, <1>1 DEF Forms!Published, Forms!Answer
  <2> HIDE DEF r
  <2>3. Leads(k, r)
    BY <2>1, <2>2 DEF Leads
  <2> QED
    BY <2>3
<1>2. CASE Forms!Saved(k) /\ nVisit.view \in Forms!Pages
  <2> DEFINE r == [kind |-> "navigate", rec |-> nCopy, at |-> "sent"]
  <2>1. r \in FormReq /\ r.kind = "navigate" /\ r.at = "sent"
    BY <1>0 DEF FormReq, Forms!Kinds
  <2>2. /\ nReqs[k].kind = "save" /\ nReqs[k].at = "done"
        /\ nReqs' = Append(RemoveAt(nReqs, k), r) /\ nOpen' = nOpen
        /\ UNCHANGED <<nVisit, nItem, nMade, nCopy, nForm, nPreview, nReaders, nError,
                       nLink, nSent, nRaced, nFailed>>
    BY <1>0, <1>2 DEF Forms!Saved, Forms!Answer, Forms!Navigate, Forms!view
  <2> HIDE DEF r
  <2>3. Leads(k, r)
    BY <2>1, <2>2 DEF Leads
  <2> QED
    BY <2>3
<1> QED
  BY <1>1, <1>2

\* onload is a Shows step.
LEMMA FormShows ==
    ASSUME NEW f \in DOMAIN nReaders, Forms!onload(f)
    PROVE  Shows(f)
<1>1. \A q : Forms!RemoveAt(q, f) = RemoveAt(q, f)
  BY DEF Forms!RemoveAt, RemoveAt
<1> QED
  BY <1>1 DEF Forms!onload, Shows

\* The steps of a form.
LEMMA FormSteps ==
    ASSUME FormsConstants, FormsBase, Forms!Next
    PROVE  \/ Fills
           \/ \E f \in DOMAIN nReaders : Shows(f)
           \/ \E kind, rec : Asks(kind, rec)
           \/ \E k \in DOMAIN nReqs : Ends(k) \/ Forms!Serve(k) \/ \E r : Leads(k, r)
<1>1. ASSUME NEW k \in DOMAIN nReqs, Forms!Saved(k)
      PROVE  Ends(k) \/ \E r : Leads(k, r)
  BY <1>1, FormEnds, FormLeads
<1>2. ASSUME NEW f \in DOMAIN nReaders, Forms!onload(f)
      PROVE  Shows(f)
  BY <1>2, FormShows
<1> QED
  BY <1>1, <1>2, FormFills, FormAsks, FormEnds, FormLeads DEF Forms!Next

\* What the portal does with a request.
LEMMA FormDoes ==
    ASSUME Forms!TypeOK, NEW k \in DOMAIN nReqs, Forms!Does(nReqs[k])
    PROVE  /\ nItem' \in Forms!Record
           /\ nMade' = nMade \/ (nMade' = nMade + 1 /\ nReqs[k].kind = "save")
           /\ nReqs[k].kind \notin {"save", "link"} => Agree(nItem', nItem)
           /\ nReqs[k].kind = "link" => nItem' = [nReqs[k].rec EXCEPT !.public = nItem.public]
<1>1. /\ nReqs[k].kind \in Forms!Kinds /\ nReqs[k].rec \in Forms!Record /\ nItem \in Forms!Record
  BY FormReqTyped DEF Forms!TypeOK
<1>2. CASE nReqs[k].kind = "save" /\ nVisit.view \in Forms!Existing
  <2>1. /\ nItem' = [nReqs[k].rec EXCEPT !.contract = nItem.contract, !.public = nItem.public]
        /\ nMade' = nMade
    BY <1>2 DEF Forms!Does, Forms!view
  <2>2. nItem' \in Forms!Record
    BY <1>1, <2>1 DEF Forms!Record
  <2> QED
    BY <1>2, <2>1, <2>2
<1>3. CASE nReqs[k].kind = "save" /\ nVisit.view \notin Forms!Existing
  BY <1>1, <1>3 DEF Forms!Does, Forms!view
<1>4. CASE nReqs[k].kind = "link"
  <2>1. nItem' = [nReqs[k].rec EXCEPT !.public = nItem.public] /\ nMade' = nMade
    BY <1>4 DEF Forms!Does
  <2>2. nItem' \in Forms!Record
    BY <1>1, <2>1 DEF Forms!Record
  <2> QED
    BY <1>4, <2>1, <2>2
<1>5. CASE nReqs[k].kind = "publish"
  <2>1. nItem' = [nItem EXCEPT !.public = TRUE] /\ nMade' = nMade
    BY <1>5 DEF Forms!Does
  <2>2. nItem' \in Forms!Record /\ Agree(nItem', nItem)
    BY <1>1, <2>1 DEF Forms!Record, Agree
  <2> QED
    BY <1>5, <2>1, <2>2
<1>6. CASE nReqs[k].kind \notin {"save", "link", "publish"}
  <2>1. nItem' = nItem /\ nMade' = nMade
    BY <1>6 DEF Forms!Does
  <2> QED
    BY <1>1, <1>6, <2>1 DEF Agree
<1> QED
  BY <1>1, <1>2, <1>3, <1>4, <1>5, <1>6 DEF Forms!Kinds

\* What the portal does with a request.
LEMMA FormServed ==
    ASSUME Forms!TypeOK, NEW k \in DOMAIN nReqs, Forms!Serve(k)
    PROVE  /\ nReqs[k].at = "sent"
           /\ nReqs' \in Seq(FormReq) /\ Len(nReqs') = Len(nReqs) /\ DOMAIN nReqs' = DOMAIN nReqs
           /\ \A i \in DOMAIN nReqs : i # k => nReqs'[i] = nReqs[i]
           /\ nReqs'[k].kind = nReqs[k].kind
           /\ nReqs[k].kind # "read" => nReqs'[k].rec = nReqs[k].rec
           /\ \/ /\ nReqs'[k].at = "done" /\ nFailed' = nFailed
                 /\ nReqs[k].kind = "read" => nReqs'[k].rec = nItem
                 /\ nReqs[k].kind \notin {"save", "link"} => Agree(nItem', nItem)
                 /\ nReqs[k].kind = "link" => nItem' = [nReqs[k].rec EXCEPT !.public = nItem.public]
              \/ nReqs'[k].at = "refused" /\ nFailed' = TRUE
           /\ nItem' \in Forms!Record
           /\ nMade' = nMade \/ (nMade' = nMade + 1 /\ nReqs[k].kind = "save")
           /\ UNCHANGED <<nVisit, nOpen, nCopy, nForm, nPreview, nReaders, nError, nLink, nSent, nRaced>>
<1>1. /\ nReqs[k] \in FormReq /\ nReqs \in Seq(FormReq) /\ nItem \in Forms!Record
  BY FormReqTyped DEF Forms!TypeOK
<1>2. /\ nReqs[k].at = "sent"
      /\ UNCHANGED <<nVisit, nOpen, nCopy, nForm, nPreview, nReaders, nError, nLink, nSent, nRaced>>
  BY DEF Forms!Serve
<1>3. CASE /\ Forms!Does(nReqs[k]) /\ nFailed' = nFailed
           /\ nReqs' = [nReqs EXCEPT ![k].at = "done",
                                     ![k].rec = IF nReqs[k].kind = "read" THEN nItem ELSE @]
  <2> DEFINE r == [nReqs[k] EXCEPT !.at = "done",
                                   !.rec = IF nReqs[k].kind = "read" THEN nItem ELSE @]
  <2>1. r \in FormReq /\ r.kind = nReqs[k].kind /\ r.at = "done"
        /\ r.rec = IF nReqs[k].kind = "read" THEN nItem ELSE nReqs[k].rec
    BY <1>1 DEF FormReq
  <2>2. nReqs' = [nReqs EXCEPT ![k] = r]
    BY <1>1, <1>3
  <2> HIDE DEF r
  <2>3. /\ nReqs' \in Seq(FormReq) /\ Len(nReqs') = Len(nReqs) /\ DOMAIN nReqs' = DOMAIN nReqs
        /\ nReqs'[k] = r /\ \A i \in DOMAIN nReqs : i # k => nReqs'[i] = nReqs[i]
    BY <1>1, <2>1, <2>2
  <2> QED
    BY <1>2, <1>3, <2>1, <2>3, FormDoes
<1>4. CASE /\ nReqs' = [nReqs EXCEPT ![k].at = "refused"] /\ nFailed' = TRUE
           /\ Forms!Does(nReqs[k]) \/ UNCHANGED <<nItem, nMade>>
  <2> DEFINE r == [nReqs[k] EXCEPT !.at = "refused"]
  <2>1. r \in FormReq /\ r.kind = nReqs[k].kind /\ r.at = "refused" /\ r.rec = nReqs[k].rec
    BY <1>1 DEF FormReq
  <2>2. nReqs' = [nReqs EXCEPT ![k] = r]
    BY <1>4
  <2> HIDE DEF r
  <2>3. /\ nReqs' \in Seq(FormReq) /\ Len(nReqs') = Len(nReqs) /\ DOMAIN nReqs' = DOMAIN nReqs
        /\ nReqs'[k] = r /\ \A i \in DOMAIN nReqs : i # k => nReqs'[i] = nReqs[i]
    BY <1>1, <2>1, <2>2
  <2>4. /\ nItem' \in Forms!Record
        /\ nMade' = nMade \/ (nMade' = nMade + 1 /\ nReqs[k].kind = "save")
    BY <1>1, <1>4, FormDoes
  <2> QED
    BY <1>2, <1>4, <2>1, <2>3, <2>4
<1> QED
  BY <1>3, <1>4 DEF Forms!Serve

\* The requests after one more was sent, at position m.
FormSentAt(m, r) ==
    /\ nReqs' \in Seq(FormReq) /\ Len(nReqs') = Len(nReqs) + 1
    /\ m \in DOMAIN nReqs' /\ m \notin DOMAIN nReqs /\ nReqs'[m] = r
    /\ \A i \in DOMAIN nReqs' : i = m \/ (i \in DOMAIN nReqs /\ nReqs'[i] = nReqs[i])

\* The requests after an Asks step.
LEMMA FormAsked ==
    ASSUME Forms!TypeOK, NEW kind, NEW rec, Asks(kind, rec)
    PROVE  LET r == [kind |-> kind, rec |-> rec, at |-> "sent"]
           IN  /\ r \in FormReq /\ nReqs' = Append(nReqs, r) /\ \E m \in Nat : FormSentAt(m, r)
<1> DEFINE r == [kind |-> kind, rec |-> rec, at |-> "sent"]
<1>1. r \in FormReq
  BY DEF Asks, FormReq
<1>2. nReqs' = Append(nReqs, r)
  BY DEF Asks
<1> HIDE DEF r
<1>3. nReqs \in Seq(FormReq)
  BY DEF Forms!TypeOK, FormReq
<1>4. /\ nReqs' \in Seq(FormReq) /\ Len(nReqs') = Len(nReqs) + 1
      /\ DOMAIN nReqs' = DOMAIN nReqs \cup {Len(nReqs) + 1} /\ Len(nReqs) + 1 \notin DOMAIN nReqs
      /\ \A i \in DOMAIN nReqs : nReqs'[i] = nReqs[i]
      /\ nReqs'[Len(nReqs) + 1] = r
  BY <1>1, <1>2, <1>3, AppendRest
<1>5. Len(nReqs) + 1 \in Nat
  BY <1>3
<1>6. FormSentAt(Len(nReqs) + 1, r)
  BY <1>4 DEF FormSentAt
<1> QED
  BY <1>1, <1>2, <1>5, <1>6 DEF r

\* The requests after an Ends step.
LEMMA FormDropped ==
    ASSUME Forms!TypeOK, NEW k \in DOMAIN nReqs, nReqs' = RemoveAt(nReqs, k)
    PROVE  /\ nReqs' \in Seq(FormReq) /\ Len(nReqs') = Len(nReqs) - 1
           /\ \A i \in DOMAIN nReqs' : \E j \in DOMAIN nReqs : j # k /\ nReqs'[i] = nReqs[j]
           /\ \A j \in DOMAIN nReqs : j # k => \E i \in DOMAIN nReqs' : nReqs'[i] = nReqs[j]
           /\ \A h, i \in DOMAIN nReqs' : h # i =>
                 \E m, n \in DOMAIN nReqs : m # n /\ nReqs'[h] = nReqs[m] /\ nReqs'[i] = nReqs[n]
<1>1. nReqs \in Seq(FormReq)
  BY DEF Forms!TypeOK, FormReq
<1>2. /\ RemoveAt(nReqs, k) \in Seq(FormReq) /\ Len(RemoveAt(nReqs, k)) = Len(nReqs) - 1
      /\ \A i \in DOMAIN RemoveAt(nReqs, k) :
            \E j \in DOMAIN nReqs : j # k /\ RemoveAt(nReqs, k)[i] = nReqs[j]
      /\ \A j \in DOMAIN nReqs : j # k =>
            \E i \in DOMAIN RemoveAt(nReqs, k) : RemoveAt(nReqs, k)[i] = nReqs[j]
  BY <1>1, RemoveAtRest
<1>3. \A h, i \in DOMAIN RemoveAt(nReqs, k) : h # i =>
         \E m, n \in DOMAIN nReqs :
            m # n /\ RemoveAt(nReqs, k)[h] = nReqs[m] /\ RemoveAt(nReqs, k)[i] = nReqs[n]
  BY <1>1, RemoveAtTwo
<1> QED
  BY <1>2, <1>3

\* After a Leads step: one request less, and the one it leads to.
LEMMA FormReread ==
    ASSUME Forms!TypeOK, NEW k \in DOMAIN nReqs, NEW r \in FormReq, nReqs[k].at # "sent",
           nReqs' = Append(RemoveAt(nReqs, k), r)
    PROVE  /\ nReqs' \in Seq(FormReq) /\ Len(nReqs') = Len(nReqs)
           /\ \A i \in DOMAIN nReqs' :
                 nReqs'[i] = r \/ \E j \in DOMAIN nReqs : j # k /\ nReqs'[i] = nReqs[j]
           /\ \A j \in DOMAIN nReqs : j # k => \E i \in DOMAIN nReqs' : nReqs'[i] = nReqs[j]
           /\ \A h, i \in DOMAIN nReqs' : h # i =>
                 \/ nReqs'[h] = r \/ nReqs'[i] = r
                 \/ \E m, n \in DOMAIN nReqs : m # n /\ nReqs'[h] = nReqs[m] /\ nReqs'[i] = nReqs[n]
           /\ r \notin UnservedSave =>
                 Cardinality(UnservedSaves(nReqs')) = Cardinality(UnservedSaves(nReqs))
<1> DEFINE w == RemoveAt(nReqs, k)
<1>1. nReqs \in Seq(FormReq)
  BY DEF Forms!TypeOK, FormReq
<1>2. /\ w \in Seq(FormReq) /\ Len(w) = Len(nReqs) - 1
      /\ \A i \in DOMAIN w : \E j \in DOMAIN nReqs : j # k /\ w[i] = nReqs[j]
      /\ \A j \in DOMAIN nReqs : j # k => \E i \in DOMAIN w : w[i] = nReqs[j]
      /\ \A h, i \in DOMAIN w : h # i =>
            \E m, n \in DOMAIN nReqs : m # n /\ w[h] = nReqs[m] /\ w[i] = nReqs[n]
  BY <1>1, RemoveAtRest, RemoveAtTwo
<1>3. Cardinality(UnservedSaves(w)) = Cardinality(UnservedSaves(nReqs))
  BY <1>1, UnservedDropped
<1>4. nReqs' = Append(w, r)
  OBVIOUS
<1> HIDE DEF w
<1>5. /\ nReqs' \in Seq(FormReq) /\ Len(nReqs') = Len(w) + 1
      /\ DOMAIN nReqs' = DOMAIN w \cup {Len(w) + 1}
      /\ \A i \in DOMAIN w : nReqs'[i] = w[i]
      /\ nReqs'[Len(w) + 1] = r
  BY <1>2, <1>4, AppendRest
<1>6. r \notin UnservedSave => Cardinality(UnservedSaves(nReqs')) = Cardinality(UnservedSaves(w))
  <2>1. Cardinality(UnservedSaves(w)) \in Nat
    BY <1>2, UnservedFinite
  <2>2. Cardinality(UnservedSaves(Append(w, r)))
          = Cardinality(UnservedSaves(w)) + (IF r \in UnservedSave THEN 1 ELSE 0)
    BY <1>2, UnservedAdded
  <2> QED
    BY <1>4, <2>1, <2>2
<1>7. Len(nReqs') = Len(nReqs)
  <2>1. Len(nReqs) \in Nat
    BY <1>1
  <2> QED
    BY <1>2, <1>5, <2>1
<1>8. \A i \in DOMAIN nReqs' : nReqs'[i] = r \/ (i \in DOMAIN w /\ nReqs'[i] = w[i])
  BY <1>5
<1>9. \A i \in DOMAIN nReqs' :
         nReqs'[i] = r \/ \E j \in DOMAIN nReqs : j # k /\ nReqs'[i] = nReqs[j]
  BY <1>2, <1>8
<1>10. \A j \in DOMAIN nReqs : j # k => \E i \in DOMAIN nReqs' : nReqs'[i] = nReqs[j]
  <2> SUFFICES ASSUME NEW j \in DOMAIN nReqs, j # k PROVE \E i \in DOMAIN nReqs' : nReqs'[i] = nReqs[j]
    OBVIOUS
  <2>1. PICK i \in DOMAIN w : w[i] = nReqs[j]
    BY <1>2
  <2> QED
    BY <1>5, <2>1
<1>11. \A h, i \in DOMAIN nReqs' : h # i =>
          \/ nReqs'[h] = r \/ nReqs'[i] = r
          \/ \E m, n \in DOMAIN nReqs : m # n /\ nReqs'[h] = nReqs[m] /\ nReqs'[i] = nReqs[n]
  <2> SUFFICES ASSUME NEW h \in DOMAIN nReqs', NEW i \in DOMAIN nReqs', h # i,
                      h \in DOMAIN w, nReqs'[h] = w[h], i \in DOMAIN w, nReqs'[i] = w[i]
               PROVE  \E m, n \in DOMAIN nReqs : m # n /\ nReqs'[h] = nReqs[m] /\ nReqs'[i] = nReqs[n]
    BY <1>8
  <2>1. \E m, n \in DOMAIN nReqs : m # n /\ w[h] = nReqs[m] /\ w[i] = nReqs[n]
    BY <1>2
  <2> QED
    BY <2>1
<1> QED
  BY <1>3, <1>5, <1>6, <1>7, <1>9, <1>10, <1>11

\* Types, counts and errors are kept.
LEMMA FormsBaseStep ==
    ASSUME FormsConstants, FormsBase, Forms!Next
    PROVE  FormsBase'
<1>0. /\ Forms!TypeOK /\ MadeOnRequest /\ OnThePage
      /\ nReqs \in Seq(FormReq)
      /\ nVisit.maxSent \in Nat /\ nMade \in Nat /\ nSent \in 0..nVisit.maxSent
      /\ nLink \in Contracts \cup {Forms!Closed, Forms!Empty}
  <2>1. nVisit.maxSent \in Nat
    BY DEF FormsBase, Forms!TypeOK, FormsConstants
  <2> QED
    BY <2>1 DEF FormsBase, Forms!TypeOK, FormReq, Forms!SendLimit
<1> DEFINE c == Cardinality(UnservedSaves(nReqs))
<1>1. c \in Nat /\ nMade + c <= nSent
  BY <1>0, UnservedFinite DEF MadeOnRequest
<1>2. ASSUME nReqs' \in Seq(FormReq), nMade' \in Nat, nVisit' = nVisit,
             nSent' \in 0..nVisit.maxSent, MadeOnRequest'
      PROVE  nMade' \in 0..nVisit.maxSent
  <2>1. Cardinality(UnservedSaves(nReqs')) \in Nat
    BY <1>2, UnservedFinite
  <2>2. nMade' + Cardinality(UnservedSaves(nReqs')) <= nSent'
    BY <1>2 DEF MadeOnRequest
  <2> HIDE DEF UnservedSaves
  <2> QED
    BY <1>0, <1>2, <2>1, <2>2
<1>3. ASSUME nReqs' \in Seq(FormReq), nMade' \in Nat, nVisit' = nVisit,
             nSent' \in 0..nVisit.maxSent, MadeOnRequest', OnThePage',
             nOpen' \in BOOLEAN, nItem' \in Forms!Record, nCopy' \in Forms!Record,
             nForm' \in Forms!Form, nPreview' \in Images \cup {Forms!Empty}, nReaders' \in Seq(Images),
             nError' \in BOOLEAN, nLink' \in Contracts \cup {Forms!Closed, Forms!Empty},
             nRaced' \in BOOLEAN, nFailed' \in BOOLEAN
      PROVE  FormsBase'
  <2>1. nMade' \in 0..nVisit.maxSent
    BY <1>2, <1>3
  <2> QED
    BY <1>0, <1>3, <2>1 DEF FormsBase, Forms!TypeOK, Forms!SendLimit, FormReq
<1> HIDE DEF c
<1>4. CASE Fills
  <2>1. MadeOnRequest' /\ OnThePage'
    BY <1>0, <1>4 DEF Fills, MadeOnRequest, OnThePage
  <2> QED
    BY <1>0, <1>3, <1>4, <2>1 DEF Fills, Forms!TypeOK
<1>40. ASSUME NEW f \in DOMAIN nReaders, Shows(f)
       PROVE  FormsBase'
  <2>1. nReaders \in Seq(Images)
    BY <1>0 DEF Forms!TypeOK
  <2>2. nReaders' \in Seq(Images) /\ nPreview' \in Images \cup {Forms!Empty}
    BY <1>40, <2>1, RemoveAtRest DEF Shows
  <2>3. MadeOnRequest' /\ OnThePage'
    BY <1>0, <1>40 DEF Shows, MadeOnRequest, OnThePage
  <2> QED
    BY <1>0, <1>3, <1>40, <2>2, <2>3 DEF Shows, Forms!TypeOK
<1>5. CASE \E kind, rec : Asks(kind, rec)
  <2> PICK kind, rec : Asks(kind, rec)
    BY <1>5
  <2> DEFINE r == [kind |-> kind, rec |-> rec, at |-> "sent"]
  <2>1. /\ r \in FormReq /\ nReqs' = Append(nReqs, r) /\ \E m \in Nat : FormSentAt(m, r)
        /\ r.kind = kind /\ r.at = "sent"
    BY <1>0, FormAsked
  <2> HIDE DEF r
  <2> PICK m \in Nat : FormSentAt(m, r)
    BY <2>1
  <2>2. /\ nSent < nVisit.maxSent /\ nSent' = nSent + 1 /\ nMade' = nMade
        /\ nVisit' = nVisit /\ nLink' = nLink /\ nFailed' = nFailed
        /\ kind \in {"publish", "link"} => nVisit.view = "detail"
    BY DEF Asks
  <2>3. Cardinality(UnservedSaves(nReqs')) = c + (IF r \in UnservedSave THEN 1 ELSE 0)
    BY <1>0, <2>1, UnservedAdded DEF c
  <2>4. MadeOnRequest'
    <3>1. Cardinality(UnservedSaves(nReqs')) <= c + 1 /\ Cardinality(UnservedSaves(nReqs')) \in Nat
      BY <1>1, <2>3
    <3>2. nMade' + Cardinality(UnservedSaves(nReqs')) <= nSent'
      BY <1>0, <1>1, <2>2, <3>1
    <3> QED
      BY <3>2 DEF MadeOnRequest
  <2>5. OnThePage'
    BY <1>0, <2>1, <2>2 DEF OnThePage, FormSentAt
  <2>6. nSent' \in 0..nVisit.maxSent /\ nReqs' \in Seq(FormReq)
    BY <1>0, <2>2 DEF FormSentAt
  <2>7. nReaders' \in Seq(Images)
    <3>1. nReaders \in Seq(Images)
      BY <1>0 DEF Forms!TypeOK
    <3>2. nReaders' = nReaders \/ (rec.image \in Images /\ nReaders' = Append(nReaders, rec.image))
      BY DEF Asks
    <3> QED
      BY <3>1, <3>2
  <2> QED
    BY <1>0, <1>3, <2>2, <2>4, <2>5, <2>6, <2>7 DEF Asks, Forms!TypeOK
<1>6. ASSUME NEW k \in DOMAIN nReqs, Ends(k)
      PROVE  FormsBase'
  <2>1. /\ nReqs[k].at # "sent" /\ nReqs' = RemoveAt(nReqs, k)
        /\ UNCHANGED <<nVisit, nMade, nReaders, nSent, nFailed, nItem, nRaced>>
        /\ nLink' \in {nLink, Forms!Closed}
        /\ nForm' \in Forms!Form /\ nPreview' \in Images \cup {Forms!Empty} /\ nError' \in BOOLEAN
        /\ nCopy' \in {nCopy, nReqs[k].rec} /\ nOpen' \in BOOLEAN
    BY <1>6 DEF Ends
  <2>2. /\ nReqs' \in Seq(FormReq)
        /\ \A i \in DOMAIN nReqs' : \E j \in DOMAIN nReqs : nReqs'[i] = nReqs[j]
    BY <1>0, <2>1, FormDropped
  <2>3. MadeOnRequest'
    <3>1. Cardinality(UnservedSaves(nReqs')) = c
      BY <1>0, <2>1, UnservedDropped DEF c
    <3> QED
      BY <1>1, <2>1, <3>1 DEF MadeOnRequest
  <2>4. OnThePage'
    BY <1>0, <2>1, <2>2 DEF OnThePage
  <2>5. nCopy' \in Forms!Record
    BY <1>0, <2>1, FormReqTyped DEF Forms!TypeOK
  <2> QED
    BY <1>0, <1>3, <2>1, <2>2, <2>3, <2>4, <2>5 DEF Forms!TypeOK
<1>7. ASSUME NEW k \in DOMAIN nReqs, Forms!Serve(k)
      PROVE  FormsBase'
  <2>1. /\ nReqs[k].at = "sent"
        /\ nReqs' \in Seq(FormReq) /\ DOMAIN nReqs' = DOMAIN nReqs
        /\ \A i \in DOMAIN nReqs : i # k => nReqs'[i] = nReqs[i]
        /\ nReqs'[k].kind = nReqs[k].kind
        /\ \/ nReqs'[k].at = "done" /\ nFailed' = nFailed
           \/ nReqs'[k].at = "refused" /\ nFailed' = TRUE
        /\ nItem' \in Forms!Record
        /\ nMade' = nMade \/ (nMade' = nMade + 1 /\ nReqs[k].kind = "save")
        /\ UNCHANGED <<nVisit, nOpen, nCopy, nForm, nPreview, nReaders, nError, nLink, nSent, nRaced>>
    BY <1>0, <1>7, FormServed
  <2>2. MadeOnRequest'
    <3>1. Cardinality(UnservedSaves(nReqs')) = c - (IF nReqs[k].kind = "save" THEN 1 ELSE 0)
      <4>1. nReqs'[k].at # "sent"
        BY <2>1
      <4> QED
        BY <1>0, <2>1, <4>1, UnservedServed DEF c
    <3>2. nMade' + Cardinality(UnservedSaves(nReqs')) <= nSent'
      BY <1>0, <1>1, <2>1, <3>1
    <3> QED
      BY <3>2 DEF MadeOnRequest
  <2>3. OnThePage'
    BY <1>0, <2>1 DEF OnThePage
  <2>4. nFailed' \in BOOLEAN
    BY <1>0, <2>1 DEF Forms!TypeOK
  <2>5. nMade' \in Nat
    BY <1>0, <2>1
  <2> QED
    BY <1>0, <1>3, <2>1, <2>2, <2>3, <2>4, <2>5 DEF Forms!TypeOK
<1>8. ASSUME NEW k \in DOMAIN nReqs, NEW r, Leads(k, r)
      PROVE  FormsBase'
  <2>1. /\ nReqs[k].at = "done" /\ r \in FormReq
        /\ nReqs' = Append(RemoveAt(nReqs, k), r) /\ r.kind \in {"read", "navigate"} /\ r.at = "sent"
        /\ UNCHANGED <<nVisit, nOpen, nItem, nMade, nCopy, nForm, nPreview, nReaders, nError,
                       nLink, nSent, nRaced, nFailed>>
    BY <1>8 DEF Leads
  <2>2. r \notin UnservedSave /\ nReqs[k].at # "sent"
    BY <2>1 DEF UnservedSave
  <2>3. /\ nReqs' \in Seq(FormReq)
        /\ \A i \in DOMAIN nReqs' :
              nReqs'[i] = r \/ \E j \in DOMAIN nReqs : j # k /\ nReqs'[i] = nReqs[j]
        /\ Cardinality(UnservedSaves(nReqs')) = c
    BY <1>0, <2>1, <2>2, FormReread DEF c
  <2>4. MadeOnRequest'
    BY <1>1, <2>1, <2>3 DEF MadeOnRequest
  <2>5. OnThePage'
    BY <1>0, <2>1, <2>3 DEF OnThePage
  <2> QED
    BY <1>0, <1>3, <2>1, <2>3, <2>4, <2>5 DEF Forms!TypeOK
<1> QED
  BY <1>4, <1>40, <1>5, <1>6, <1>7, <1>8, FormSteps

\* What ImageUnderWay says, after the step: the parts to show.
ImageParts ==
    /\ Len(nReaders) <= 1
    /\ \A j, k \in DOMAIN nReqs : Loads(j) /\ Loads(k) => j = k
    /\ \A k \in DOMAIN nReqs : nReqs[k].kind = "upload" => nReqs[k].rec.image = Shown
    /\ \A k \in DOMAIN nReqs : nReqs[k].kind = "read" => nReaders = <<>>
    /\ (\A k \in DOMAIN nReqs : ~Loads(k)) => nForm.image = Shown

\* The image under way is kept to be the one that is shown.
LEMMA ImageStep ==
    ASSUME FormsConstants, FormsBase, ImageUnderWay, Forms!Next
    PROVE  ImageUnderWay'
<1>0. Forms!TypeOK /\ OnThePage /\ nReaders \in Seq(Images)
  BY DEF FormsBase, Forms!TypeOK
<1>1. CASE Fills
  <2>1. Shown' = Shown
    BY <1>1 DEF Fills, Shown
  <2> QED
    BY <1>1, <2>1 DEF Fills, ImageUnderWay, Loads
<1>10. ASSUME NEW f \in DOMAIN nReaders, Shows(f)
       PROVE  ImageUnderWay'
  <2>1. UNCHANGED <<nVisit, nForm, nReqs, nRaced, nFailed>>
    BY <1>10 DEF Shows
  <2> SUFFICES ASSUME nVisit.view # "detail", ~nFailed, ~nRaced
               PROVE  ImageParts'
    BY <2>1 DEF ImageUnderWay, ImageParts
  <2>2. ImageParts
    BY DEF ImageUnderWay, ImageParts
  <2>3. f = 1 /\ Len(nReaders) = 1 /\ nReaders # <<>>
    BY <1>0, <2>2 DEF ImageParts
  <2>4. Len(nReaders') = 0 /\ nReaders' = <<>>
    <3>1. RemoveAt(nReaders, f) \in Seq(Images) /\ Len(RemoveAt(nReaders, f)) = Len(nReaders) - 1
      BY <1>0, RemoveAtRest
    <3> QED
      BY <1>10, <2>3, <3>1 DEF Shows
  <2>5. Shown' = Shown
    BY <1>10, <2>3, <2>4 DEF Shows, Shown
  <2> QED
    BY <2>1, <2>2, <2>4, <2>5 DEF ImageParts, Loads
<1>2. CASE \E kind, rec : Asks(kind, rec)
  <2> PICK kind, rec : Asks(kind, rec)
    BY <1>2
  <2> DEFINE r == [kind |-> kind, rec |-> rec, at |-> "sent"]
  <2>1. (\E m \in Nat : FormSentAt(m, r)) /\ r.kind = kind /\ r.rec = rec
    BY <1>0, FormAsked
  <2> HIDE DEF r
  <2> PICK m \in Nat : FormSentAt(m, r)
    BY <2>1
  <2>2. /\ m \in DOMAIN nReqs' /\ nReqs'[m] = r
        /\ \A i \in DOMAIN nReqs' : i = m \/ (i \in DOMAIN nReqs /\ nReqs'[i] = nReqs[i])
    BY DEF FormSentAt
  <2>3. nVisit' = nVisit /\ nFailed' = nFailed /\ nForm' = nForm /\ nPreview' = nPreview
    BY DEF Asks
  <2> SUFFICES ASSUME nVisit.view # "detail", ~nFailed, ~nRaced'
               PROVE  ImageParts'
    BY <2>3 DEF ImageUnderWay, ImageParts
  <2>4. CASE kind = "upload"
    <3>1. /\ rec.image \in Images /\ nReaders' = Append(nReaders, rec.image) /\ nReaders = <<>>
          /\ \A k \in DOMAIN nReqs : ~Loads(k)
      BY <2>4 DEF Asks
    <3>2. \A i \in DOMAIN nReqs' : i # m => ~Loads(i)'
      BY <2>2, <3>1 DEF Loads
    <3>3. Loads(m)' /\ nReqs'[m].kind = "upload"
      BY <2>1, <2>2, <2>4 DEF Loads
    <3>4. nReaders' = <<rec.image>>
      BY <3>1
    <3>5. Len(nReaders') = 1 /\ nReaders' # <<>> /\ nReaders'[1] = rec.image
      BY <3>4
    <3>6. Shown' = rec.image
      BY <3>5 DEF Shown
    <3>7. nReqs'[m].rec.image = Shown'
      BY <2>1, <2>2, <3>6
    <3>8. Len(nReaders') <= 1
      BY <3>5
    <3> QED
      BY <2>2, <3>2, <3>3, <3>7, <3>8 DEF Loads, ImageParts
  <2>5. CASE kind # "upload"
    <3>1. nReaders' = nReaders /\ nRaced' = nRaced /\ kind # "read"
      BY <2>5 DEF Asks
    <3>10. Shown' = Shown
      BY <2>3, <3>1 DEF Shown
    <3>2. ~Loads(m)' /\ nReqs'[m].kind \notin {"upload", "read"}
      BY <2>1, <2>2, <2>5, <3>1 DEF Loads
    <3>3. \A i \in DOMAIN nReqs' : i # m => i \in DOMAIN nReqs /\ (Loads(i)' <=> Loads(i))
      BY <2>2 DEF Loads
    <3>4. \A i \in DOMAIN nReqs : i \in DOMAIN nReqs'
      <4>1. nReqs \in Seq(FormReq) /\ nReqs' \in Seq(FormReq) /\ Len(nReqs') = Len(nReqs) + 1
        BY <1>0 DEF Forms!TypeOK, FormReq, FormSentAt
      <4> QED
        BY <4>1
    <3>5. \A i \in DOMAIN nReqs : i # m
      BY DEF FormSentAt
    <3>6. ImageParts
      BY <3>1 DEF ImageUnderWay, ImageParts
    <3>7. \A i, j \in DOMAIN nReqs' : Loads(i)' /\ Loads(j)' => i = j
      BY <3>2, <3>3, <3>6 DEF ImageParts
    <3>8. \A i \in DOMAIN nReqs' :
             /\ nReqs'[i].kind = "upload" => nReqs'[i].rec.image = Shown
             /\ nReqs'[i].kind = "read" => nReaders = <<>>
      BY <2>2, <3>2, <3>6 DEF ImageParts
    <3>9. (\A i \in DOMAIN nReqs' : ~Loads(i)') => nForm.image = Shown
      BY <3>3, <3>4, <3>5, <3>6 DEF ImageParts
    <3> QED
      BY <2>3, <3>1, <3>10, <3>6, <3>7, <3>8, <3>9 DEF ImageParts
  <2> QED
    BY <2>4, <2>5
<1>3. ASSUME NEW k \in DOMAIN nReqs, Ends(k)
      PROVE  ImageUnderWay'
  <2>1. /\ nReqs' = RemoveAt(nReqs, k)
        /\ UNCHANGED <<nVisit, nReaders, nFailed, nRaced>>
    BY <1>3 DEF Ends
  <2> SUFFICES ASSUME nVisit.view # "detail", ~nFailed, ~nRaced
               PROVE  ImageParts'
    BY <2>1 DEF ImageUnderWay, ImageParts
  <2>2. ImageParts
    BY DEF ImageUnderWay, ImageParts
  <2>3. /\ \A i \in DOMAIN nReqs' : \E j \in DOMAIN nReqs : j # k /\ nReqs'[i] = nReqs[j]
        /\ \A j \in DOMAIN nReqs : j # k => \E i \in DOMAIN nReqs' : nReqs'[i] = nReqs[j]
        /\ \A h, i \in DOMAIN nReqs' : h # i =>
              \E m, n \in DOMAIN nReqs : m # n /\ nReqs'[h] = nReqs[m] /\ nReqs'[i] = nReqs[n]
    BY <1>0, <2>1, FormDropped
  <2>4. nReqs[k].at # "refused"
    BY <1>0 DEF OnThePage
  <2>5. CASE Loads(k)
    <3>1. \A i \in DOMAIN nReqs' : ~Loads(i)'
      BY <2>2, <2>3, <2>5 DEF Loads, ImageParts
    <3>2. CASE nReqs[k].kind = "upload"
      <4>1. nForm'.image = nReqs[k].rec.image /\ nPreview' = nPreview
        BY <1>3, <2>4, <3>2 DEF Ends, Loads
      <4>2. Shown' = Shown
        BY <2>1, <4>1 DEF Shown
      <4> QED
        BY <2>1, <2>2, <3>1, <3>2, <4>1, <4>2 DEF Loads, ImageParts
    <3>3. CASE nReqs[k].kind = "read"
      <4>1. nForm'.image = nPreview'
        BY <1>3, <2>4, <3>3 DEF Ends, Loads
      <4>2. nReaders' = <<>>
        BY <2>1, <2>2, <3>3 DEF ImageParts
      <4>3. nForm'.image = Shown'
        BY <4>1, <4>2 DEF Shown
      <4> QED
        BY <2>1, <2>2, <3>1, <4>3 DEF Loads, ImageParts
    <3> QED
      BY <2>5, <3>2, <3>3 DEF Loads
  <2>6. CASE ~Loads(k)
    <3>1. nForm' = nForm /\ nPreview' = nPreview
      BY <1>3, <2>4, <2>6 DEF Ends, Loads
    <3>10. Shown' = Shown
      BY <2>1, <3>1 DEF Shown
    <3>2. \A i, j \in DOMAIN nReqs' : Loads(i)' /\ Loads(j)' => i = j
      BY <2>2, <2>3 DEF Loads, ImageParts
    <3>3. \A i \in DOMAIN nReqs' :
             /\ nReqs'[i].kind = "upload" => nReqs'[i].rec.image = Shown
             /\ nReqs'[i].kind = "read" => nReaders = <<>>
      BY <2>2, <2>3 DEF ImageParts
    <3>4. (\A i \in DOMAIN nReqs' : ~Loads(i)') => nForm.image = Shown
      BY <2>2, <2>3, <2>6 DEF Loads, ImageParts
    <3> QED
      BY <2>1, <2>2, <3>1, <3>10, <3>2, <3>3, <3>4 DEF ImageParts
  <2> QED
    BY <2>5, <2>6
<1>4. ASSUME NEW k \in DOMAIN nReqs, Forms!Serve(k)
      PROVE  ImageUnderWay'
  <2>1. /\ DOMAIN nReqs' = DOMAIN nReqs
        /\ \A i \in DOMAIN nReqs : i # k => nReqs'[i] = nReqs[i]
        /\ nReqs'[k].kind = nReqs[k].kind
        /\ nReqs[k].kind # "read" => nReqs'[k].rec = nReqs[k].rec
        /\ nFailed' = nFailed \/ nFailed' = TRUE
        /\ UNCHANGED <<nVisit, nForm, nPreview, nReaders, nRaced>>
    BY <1>0, <1>4, FormServed
  <2>2. \A i \in DOMAIN nReqs : /\ nReqs'[i].kind = nReqs[i].kind
                                /\ nReqs[i].kind = "upload" => nReqs'[i].rec = nReqs[i].rec
    BY <2>1
  <2>3. Shown' = Shown
    BY <2>1 DEF Shown
  <2> QED
    BY <2>1, <2>2, <2>3 DEF ImageUnderWay, Loads
<1>5. ASSUME NEW k \in DOMAIN nReqs, NEW r, Leads(k, r)
      PROVE  ImageUnderWay'
  <2>1. /\ nReqs[k].at = "done" /\ nReqs[k].at # "sent" /\ r \in FormReq
        /\ \/ nReqs[k].kind = "publish" /\ r.kind = "read"
           \/ nReqs[k].kind = "save" /\ r.kind = "navigate"
        /\ nReqs' = Append(RemoveAt(nReqs, k), r)
        /\ UNCHANGED <<nVisit, nForm, nPreview, nReaders, nRaced, nFailed>>
    BY <1>5 DEF Leads
  <2> SUFFICES ASSUME nVisit.view # "detail", ~nFailed, ~nRaced
               PROVE  ImageParts'
    BY <2>1 DEF ImageUnderWay, ImageParts
  <2>2. ImageParts
    BY DEF ImageUnderWay, ImageParts
  <2>3. nReqs[k].kind = "save" /\ r.kind = "navigate" /\ ~Loads(k)
    BY <1>0, <2>1 DEF OnThePage, Loads
  <2>4. /\ \A i \in DOMAIN nReqs' :
              nReqs'[i] = r \/ \E j \in DOMAIN nReqs : j # k /\ nReqs'[i] = nReqs[j]
        /\ \A j \in DOMAIN nReqs : j # k => \E i \in DOMAIN nReqs' : nReqs'[i] = nReqs[j]
        /\ \A h, i \in DOMAIN nReqs' : h # i =>
              \/ nReqs'[h] = r \/ nReqs'[i] = r
              \/ \E m, n \in DOMAIN nReqs : m # n /\ nReqs'[h] = nReqs[m] /\ nReqs'[i] = nReqs[n]
    BY <1>0, <2>1, FormReread
  <2>5. Shown' = Shown
    BY <2>1 DEF Shown
  <2>6. \A i, j \in DOMAIN nReqs' : Loads(i)' /\ Loads(j)' => i = j
    BY <2>2, <2>3, <2>4 DEF Loads, ImageParts
  <2>7. \A i \in DOMAIN nReqs' :
           /\ nReqs'[i].kind = "upload" => nReqs'[i].rec.image = Shown
           /\ nReqs'[i].kind = "read" => nReaders = <<>>
    BY <2>2, <2>3, <2>4 DEF ImageParts
  <2>8. (\A i \in DOMAIN nReqs' : ~Loads(i)') => nForm.image = Shown
    BY <2>2, <2>3, <2>4 DEF Loads, ImageParts
  <2> QED
    BY <2>1, <2>2, <2>5, <2>6, <2>7, <2>8 DEF ImageParts
<1> QED
  BY <1>1, <1>10, <1>2, <1>3, <1>4, <1>5, FormSteps

\* A user who waits has one request under way at a time, after every step.
LEMMA OneAtATimeStep ==
    ASSUME FormsConstants, FormsBase, OneAtATime, Forms!Next
    PROVE  OneAtATime'
<1>0. /\ Forms!TypeOK /\ nReqs \in Seq(FormReq) /\ Len(nReqs) \in Nat /\ nOpen \in BOOLEAN
  BY DEF FormsBase, Forms!TypeOK, FormReq
<1>1. CASE Fills \/ \E f \in DOMAIN nReaders : Shows(f)
  BY <1>1 DEF Fills, Shows, OneAtATime
<1>2. CASE \E kind, rec : Asks(kind, rec)
  <2> PICK kind, rec : Asks(kind, rec)
    BY <1>2
  <2> DEFINE r == [kind |-> kind, rec |-> rec, at |-> "sent"]
  <2>1. \E m \in Nat : FormSentAt(m, r)
    BY <1>0, FormAsked
  <2> HIDE DEF r
  <2>2. Len(nReqs') = Len(nReqs) + 1
    BY <2>1 DEF FormSentAt
  <2>3. nOpen /\ (nVisit.serial => nReqs = <<>>) /\ UNCHANGED <<nVisit, nOpen, nFailed>>
    BY DEF Asks
  <2>4. nVisit.serial => Len(nReqs) = 0
    BY <2>3
  <2> QED
    BY <1>0, <2>2, <2>3, <2>4 DEF OneAtATime
<1>3. ASSUME NEW k \in DOMAIN nReqs, Ends(k)
      PROVE  OneAtATime'
  <2>1. nReqs' = RemoveAt(nReqs, k) /\ UNCHANGED nVisit
    BY <1>3 DEF Ends
  <2>2. Len(nReqs') = Len(nReqs) - 1 /\ nReqs' \in Seq(FormReq)
    BY <1>0, <2>1, FormDropped
  <2> SUFFICES ASSUME nVisit.serial
               PROVE  nReqs' = <<>> /\ Len(nReqs') <= 1
    BY <2>1 DEF OneAtATime
  <2>3. Len(nReqs) <= 1 /\ Len(nReqs) >= 1
    BY <1>0 DEF OneAtATime
  <2>4. Len(nReqs') = 0
    BY <1>0, <2>2, <2>3
  <2> QED
    BY <2>2, <2>4
<1>4. ASSUME NEW k \in DOMAIN nReqs, Forms!Serve(k)
      PROVE  OneAtATime'
  <2>0. nReqs # <<>>
    OBVIOUS
  <2>1. /\ Len(nReqs') = Len(nReqs)
        /\ nFailed' = nFailed \/ nFailed' = TRUE
        /\ UNCHANGED <<nVisit, nOpen>>
    BY <1>0, <1>4, FormServed
  <2> QED
    BY <2>0, <2>1 DEF OneAtATime
<1>5. ASSUME NEW k \in DOMAIN nReqs, NEW r, Leads(k, r)
      PROVE  OneAtATime'
  <2>1. /\ nReqs[k].at # "sent" /\ r \in FormReq /\ nReqs' = Append(RemoveAt(nReqs, k), r)
        /\ nReqs # <<>> /\ UNCHANGED <<nVisit, nOpen, nFailed>>
    BY <1>5 DEF Leads
  <2>2. Len(nReqs') = Len(nReqs)
    BY <1>0, <2>1, FormReread
  <2> QED
    BY <2>1, <2>2 DEF OneAtATime
<1> QED
  BY <1>1, <1>2, <1>3, <1>4, <1>5, FormSteps

\* The page's copy goes on agreeing with the portal's record.
LEMMA CopyAgreesStep ==
    ASSUME FormsConstants, FormsBase, OneAtATime, CopyAgrees, Forms!Next
    PROVE  CopyAgrees'
<1>0. /\ Forms!TypeOK /\ OnThePage /\ nReqs \in Seq(FormReq) /\ Len(nReqs) \in Nat
      /\ nOpen \in BOOLEAN /\ nItem \in Forms!Record
  BY DEF FormsBase, Forms!TypeOK, FormReq
\* With one request under way there is no other, and the form is open.
<1>1. ASSUME nVisit.serial, ~nFailed, NEW k \in DOMAIN nReqs
      PROVE  nOpen /\ \A i \in DOMAIN nReqs : i = k
  <2>1. Len(nReqs) <= 1 /\ nReqs # <<>> /\ (~nOpen => nReqs = <<>>)
    BY <1>1 DEF OneAtATime
  <2> QED
    BY <1>0, <2>1
<1>2. CASE Fills \/ \E f \in DOMAIN nReaders : Shows(f)
  BY <1>2 DEF Fills, Shows, CopyAgrees, Leaves
<1>3. CASE \E kind, rec : Asks(kind, rec)
  <2> PICK kind, rec : Asks(kind, rec)
    BY <1>3
  <2> DEFINE r == [kind |-> kind, rec |-> rec, at |-> "sent"]
  <2>1. (\E m \in Nat : FormSentAt(m, r)) /\ r.kind = kind /\ r.rec = rec /\ r.at = "sent"
    BY <1>0, FormAsked
  <2> HIDE DEF r
  <2> PICK m \in Nat : FormSentAt(m, r)
    BY <2>1
  <2>2. /\ nReqs'[m] = r
        /\ \A i \in DOMAIN nReqs' : i = m \/ i \in DOMAIN nReqs
    BY DEF FormSentAt
  <2>3. /\ nOpen /\ (nVisit.serial => nReqs = <<>>)
        /\ kind = "link" => Agree(rec, nCopy)
        /\ UNCHANGED <<nVisit, nOpen, nItem, nCopy, nFailed>>
    BY DEF Asks
  <2> SUFFICES ASSUME nVisit.serial, nVisit.view = "detail", ~nFailed
               PROVE  /\ Agree(nCopy, nItem)
                      /\ \A i \in DOMAIN nReqs' :
                            nReqs'[i].kind = "link" \/ (nReqs'[i].kind = "read" /\ nReqs'[i].at = "done")
                               => Agree(nReqs'[i].rec, nItem)
    BY <2>3 DEF CopyAgrees, Agree
  <2>4. Agree(nCopy, nItem)
    BY <2>3 DEF CopyAgrees, Leaves
  <2>5. \A i \in DOMAIN nReqs' : nReqs'[i] = r
    <3>1. nReqs = <<>>
      BY <2>3
    <3>2. DOMAIN nReqs = {}
      BY <3>1
    <3> QED
      BY <2>2, <3>2
  <2>6. kind = "link" => Agree(rec, nItem)
    BY <2>3, <2>4 DEF Agree
  <2> QED
    BY <2>1, <2>4, <2>5, <2>6
<1>4. ASSUME NEW k \in DOMAIN nReqs, Ends(k)
      PROVE  CopyAgrees'
  <2>1. /\ nReqs' = RemoveAt(nReqs, k) /\ nReqs[k].at # "sent"
        /\ nOpen' = (nOpen /\ ~(nReqs[k].kind \in {"save", "navigate"} /\ nReqs[k].at = "done"))
        /\ \/ nReqs[k].kind = "read" /\ nReqs[k].at = "done" /\ nCopy' = nReqs[k].rec
           \/ nCopy' = nCopy
        /\ UNCHANGED <<nVisit, nItem, nFailed>>
    BY <1>4 DEF Ends
  <2> SUFFICES ASSUME nVisit.serial, nVisit.view = "detail", ~nFailed
               PROVE  /\ nOpen' => Agree(nCopy', nItem)
                      /\ \A i \in DOMAIN nReqs' : FALSE
    BY <2>1 DEF CopyAgrees, Agree
  <2>2. \A i \in DOMAIN nReqs' : FALSE
    BY <1>0, <1>1, <2>1, FormDropped
  <2>3. CASE Leaves(k)
    <3>1. nReqs[k].at = "done"
      BY <1>0, <2>1, FormReqTyped DEF OnThePage
    <3> QED
      BY <2>1, <2>2, <2>3, <3>1 DEF Leaves
  <2>4. CASE ~Leaves(k)
    <3>1. /\ Agree(nCopy, nItem)
          /\ nReqs[k].kind = "read" /\ nReqs[k].at = "done" => Agree(nReqs[k].rec, nItem)
      BY <1>1, <2>4 DEF CopyAgrees
    <3> QED
      BY <2>1, <2>2, <3>1
  <2> QED
    BY <2>3, <2>4
<1>5. ASSUME NEW k \in DOMAIN nReqs, Forms!Serve(k)
      PROVE  CopyAgrees'
  <2>1. /\ nReqs[k].at = "sent" /\ DOMAIN nReqs' = DOMAIN nReqs
        /\ nReqs'[k].kind = nReqs[k].kind
        /\ nReqs[k].kind # "read" => nReqs'[k].rec = nReqs[k].rec
        /\ \/ /\ nReqs'[k].at = "done" /\ nFailed' = nFailed
              /\ nReqs[k].kind = "read" => nReqs'[k].rec = nItem
              /\ nReqs[k].kind \notin {"save", "link"} => Agree(nItem', nItem)
              /\ nReqs[k].kind = "link" => nItem' = [nReqs[k].rec EXCEPT !.public = nItem.public]
           \/ nReqs'[k].at = "refused" /\ nFailed' = TRUE
        /\ UNCHANGED <<nVisit, nOpen, nCopy>>
    BY <1>0, <1>5, FormServed
  <2>2. CASE ~(nVisit.serial /\ nVisit.view = "detail" /\ ~nFailed')
    BY <2>1, <2>2 DEF CopyAgrees
  <2>3. CASE nVisit.serial /\ nVisit.view = "detail" /\ ~nFailed'
    <3>1. /\ ~nFailed /\ nReqs'[k].at = "done"
          /\ nReqs[k].kind = "read" => nReqs'[k].rec = nItem
          /\ nReqs[k].kind \notin {"save", "link"} => Agree(nItem', nItem)
          /\ nReqs[k].kind = "link" => nItem' = [nReqs[k].rec EXCEPT !.public = nItem.public]
      BY <2>1, <2>3
    <3>2. nOpen /\ \A i \in DOMAIN nReqs : i = k
      BY <1>1, <2>3, <3>1
    <3>3. /\ nReqs[k].kind # "navigate" => Agree(nCopy, nItem)
          /\ nReqs[k].kind = "link" => Agree(nReqs[k].rec, nItem)
      BY <2>1, <2>3, <3>1, <3>2 DEF CopyAgrees, Leaves
    <3>4. CASE nReqs[k].kind \in {"save", "navigate"}
      BY <2>1, <3>1, <3>2, <3>4 DEF CopyAgrees, Leaves
    <3>5. CASE nReqs[k].kind = "link"
      <4>1. nReqs[k].rec \in Forms!Record
        BY <1>0, FormReqTyped
      <4>2. nItem' = [nReqs[k].rec EXCEPT !.public = nItem.public]
        BY <3>1, <3>5
      <4>3. Agree(nReqs[k].rec, nItem')
        BY <4>1, <4>2 DEF Agree, Forms!Record
      <4>4. Agree(nCopy, nItem')
        BY <3>3, <3>5, <4>3 DEF Agree
      <4>5. nReqs'[k].rec = nReqs[k].rec
        BY <2>1, <3>5
      <4> QED
        BY <2>1, <3>2, <4>3, <4>4, <4>5 DEF CopyAgrees, Agree
    <3>6. CASE nReqs[k].kind \notin {"save", "link", "navigate"}
      <4>1. Agree(nItem', nItem)
        BY <3>1, <3>6
      <4>2. Agree(nCopy, nItem')
        BY <3>3, <3>6, <4>1 DEF Agree
      <4>3. nReqs[k].kind = "read" => Agree(nReqs'[k].rec, nItem')
        BY <3>1, <4>1 DEF Agree
      <4> QED
        BY <2>1, <3>2, <3>6, <4>2, <4>3 DEF CopyAgrees, Agree
    <3> QED
      BY <3>4, <3>5, <3>6
  <2> QED
    BY <2>2, <2>3
<1>6. ASSUME NEW k \in DOMAIN nReqs, NEW r, Leads(k, r)
      PROVE  CopyAgrees'
  <2>1. /\ nReqs[k].at = "done" /\ nReqs[k].at # "sent" /\ r \in FormReq /\ r.at = "sent"
        /\ \/ nReqs[k].kind = "publish" /\ r.kind = "read"
           \/ nReqs[k].kind = "save" /\ r.kind = "navigate"
        /\ nReqs' = Append(RemoveAt(nReqs, k), r)
        /\ UNCHANGED <<nVisit, nOpen, nItem, nCopy, nFailed>>
    BY <1>6 DEF Leads
  <2>2. \A i \in DOMAIN nReqs' :
           nReqs'[i] = r \/ \E j \in DOMAIN nReqs : j # k /\ nReqs'[i] = nReqs[j]
    BY <1>0, <2>1, FormReread
  <2> SUFFICES ASSUME nVisit.serial, nVisit.view = "detail", ~nFailed
               PROVE  /\ nOpen' /\ (\A i \in DOMAIN nReqs' : ~Leaves(i)') => Agree(nCopy, nItem)
                      /\ \A i \in DOMAIN nReqs' : nReqs'[i].kind # "link" /\ nReqs'[i].at = "sent"
    BY <2>1 DEF CopyAgrees, Agree
  <2>3. \A i \in DOMAIN nReqs' : nReqs'[i] = r
    BY <1>1, <2>2
  <2>4. CASE nReqs[k].kind = "publish"
    <3>1. Agree(nCopy, nItem)
      BY <1>1, <2>1, <2>4 DEF CopyAgrees, Leaves
    <3> QED
      BY <2>1, <2>3, <3>1
  <2>5. CASE nReqs[k].kind = "save"
    <3>1. \E i \in DOMAIN nReqs' : nReqs'[i] = r
      <4>1. /\ nReqs' \in Seq(FormReq) /\ Len(nReqs') = Len(nReqs)
        BY <1>0, <2>1, FormReread
      <4>2. 1 \in DOMAIN nReqs'
        BY <1>0, <4>1
      <4> QED
        BY <2>3, <4>2
    <3> QED
      BY <2>1, <2>3, <2>5, <3>1 DEF Leaves
  <2> QED
    BY <2>1, <2>4, <2>5
<1> QED
  BY <1>2, <1>3, <1>4, <1>5, <1>6, FormSteps

\* The forms start in their invariant ...
LEMMA FormsInit ==
    ASSUME FormsConstants, Forms!Init
    PROVE  FormsInv
<1>1. /\ nVisit \in FormVisits /\ nOpen = TRUE /\ nMade = 0 /\ nSent = 0 /\ nError = FALSE
      /\ nLink = Forms!Closed /\ nRaced = FALSE /\ nFailed = FALSE
      /\ nCopy = IF nVisit.view = "detail" THEN nItem ELSE Forms!Blank
      /\ nForm = [name |-> nCopy.name, image |-> nCopy.image,
                  attrs |-> IF nVisit.view = "detail" THEN nCopy.attrs ELSE 1]
      /\ nPreview = nCopy.image /\ nReaders = <<>>
      /\ nReqs = IF nVisit.view = "updateNft"
                 THEN <<[kind |-> "read", rec |-> Forms!Blank, at |-> "sent"]>> ELSE <<>>
  BY DEF Forms!Init, Forms!view
<1>2. Forms!Blank \in Forms!Record /\ 0 \in 0..nVisit.maxSent /\ 1 \in 0..MaxAttrs
  <2>1. nVisit.maxSent \in Nat /\ MaxAttrs \in Nat \ {0}
    BY <1>1 DEF FormsConstants
  <2>2. 0 \in 0..nVisit.maxSent /\ 1 \in 0..MaxAttrs /\ 0 \in 0..MaxAttrs
    BY <2>1
  <2> QED
    BY <2>2 DEF Forms!Blank, Forms!Record
<1>3. nItem \in Forms!Record
  <2>1. \A n \in Names, i \in Images :
           [Forms!Blank EXCEPT !.name = n, !.image = i, !.attrs = 1] \in Forms!Record
    BY <1>2 DEF Forms!Record
  <2> QED
    BY <1>2, <2>1 DEF Forms!Init
<1>4. nCopy \in Forms!Record
  BY <1>1, <1>2, <1>3
<1>5. nForm \in Forms!Form /\ nForm.image = nPreview /\ nPreview \in Images \cup {Forms!Empty}
  BY <1>1, <1>2, <1>4 DEF Forms!Form, Forms!Record
<1> DEFINE r == [kind |-> "read", rec |-> Forms!Blank, at |-> "sent"]
<1>6. r \in FormReq /\ r.kind = "read" /\ r.at = "sent"
  BY <1>2 DEF FormReq, Forms!Kinds
<1>7. nReqs = IF nVisit.view = "updateNft" THEN <<r>> ELSE <<>>
  BY <1>1
<1> HIDE DEF r
<1>8. /\ nReqs \in Seq(FormReq) /\ Len(nReqs) <= 1
      /\ \A k \in DOMAIN nReqs : nReqs[k] = r /\ k = 1
      /\ nVisit.view # "updateNft" => nReqs = <<>>
      /\ nReqs # <<>> => 1 \in DOMAIN nReqs
  BY <1>6, <1>7
<1>9. FormsBase
  <2>1. Forms!TypeOK
    <3>1. nReaders \in Seq(Images)
      BY <1>1
    <3> QED
      BY <1>1, <1>2, <1>3, <1>4, <1>5, <1>8, <3>1 DEF Forms!TypeOK, Forms!SendLimit, FormReq
  <2>2. MadeOnRequest
    <3>1. UnservedSaves(nReqs) = {}
      BY <1>6, <1>8 DEF UnservedSaves, Places, UnservedSave
    <3>2. Cardinality(UnservedSaves(nReqs)) = 0
      BY <3>1, FS_EmptySet
    <3>3. nMade + Cardinality(UnservedSaves(nReqs)) <= nSent
      BY <1>1, <3>2
    <3> QED
      BY <3>3 DEF MadeOnRequest
  <2>3. OnThePage
    BY <1>1, <1>6, <1>8 DEF OnThePage
  <2> QED
    BY <2>1, <2>2, <2>3 DEF FormsBase
<1>10. ImageUnderWay
  <2>1. Len(nReaders) <= 1 /\ Shown = nPreview
    BY <1>1 DEF Shown
  <2> QED
    BY <1>1, <1>5, <1>6, <1>8, <2>1 DEF ImageUnderWay, Loads
<1>11. OneAtATime
  BY <1>1, <1>8 DEF OneAtATime
<1>12. CopyAgrees
  BY <1>1, <1>6, <1>8 DEF CopyAgrees, Agree, Leaves
<1> QED
  BY <1>9, <1>10, <1>11, <1>12 DEF FormsInv

\* ... and stay in it.
LEMMA FormsInvariance == FormsConstants => (Forms!Spec => []FormsInv)
<1> SUFFICES ASSUME FormsConstants PROVE Forms!Spec => []FormsInv
  OBVIOUS
<1>1. Forms!Init => FormsInv
  BY FormsInit
<1>2. FormsInv /\ [Forms!Next]_Forms!vars => FormsInv'
  <2> SUFFICES ASSUME FormsInv, [Forms!Next]_Forms!vars PROVE FormsInv'
    OBVIOUS
  <2>1. CASE Forms!Next
    BY <2>1, FormsBaseStep, ImageStep, OneAtATimeStep, CopyAgreesStep DEF FormsInv
  <2>2. CASE UNCHANGED Forms!vars
    <3>1. UNCHANGED <<nVisit, nOpen, nItem, nMade, nCopy, nForm, nPreview, nReaders, nError, nLink,
                      nReqs, nSent, nRaced, nFailed>>
      BY <2>2 DEF Forms!vars
    <3>2. FormsBase'
      <4>1. MadeOnRequest' /\ OnThePage'
        BY <3>1 DEF FormsInv, FormsBase, MadeOnRequest, OnThePage
      <4>2. Forms!TypeOK'
        BY <3>1 DEF FormsInv, FormsBase, Forms!TypeOK, Forms!SendLimit
      <4> QED
        BY <4>1, <4>2 DEF FormsBase
    <3>3. ImageUnderWay' /\ OneAtATime' /\ CopyAgrees'
      BY <3>1 DEF FormsInv, ImageUnderWay, Loads, Shown, OneAtATime, CopyAgrees, Agree, Leaves
    <3> QED
      BY <3>2, <3>3 DEF FormsInv
  <2> QED
    BY <2>1, <2>2
<1> QED
  BY <1>1, <1>2, PTL DEF Forms!Spec

\* The form, the records and the requests of every portal form stay in their domains;
\* in particular the portal makes no more records than saves were sent.
THEOREM FormsTypeCorrect == Forms!Spec => []Forms!TypeOK
<1>1. Forms!Spec => []FormsInv
  BY EditPagesAssumption, FormsInvariance
<1>2. FormsInv => Forms!TypeOK
  BY DEF FormsInv, FormsBase
<1> QED
  BY <1>1, <1>2, PTL

\* On every form but the page of a collection: once the file is read and the answers have
\* come, none was an error and no file was chosen while one was to come, what onload
\* showed as the preview is what uploadImage's answer put into the form, whichever of the
\* two came first.
THEOREM AvatarIsPreviewed == Forms!Spec => []PreviewIsAvatar
<1>1. Forms!Spec => []FormsInv
  BY EditPagesAssumption, FormsInvariance
<1>2. FormsInv => PreviewIsAvatar
  BY DEF FormsInv, ImageUnderWay, Shown, PreviewIsAvatar, Forms!PreviewIsAvatar, Forms!view
<1> QED
  BY <1>1, <1>2, PTL

\* updateLinkContract sends name and image of the page's copy, not of the form; for a
\* user who waits, and as long as no answer is an error, they are those of the record
\* that the link replaces.
THEOREM LinkKeepsRestOfItem == Forms!Spec => LinkKeepsRest
<1>1. ASSUME FormsInv, NEW k \in DOMAIN nReqs, Forms!Serve(k), nReqs[k].kind = "link",
             Forms!Serial, ~nFailed, ~nFailed'
      PROVE  nItem' = [nItem EXCEPT !.contract = nReqs[k].rec.contract]
  <2>1. Forms!TypeOK /\ nReqs[k].rec \in Forms!Record /\ nItem \in Forms!Record
    BY <1>1, FormReqTyped DEF FormsInv, FormsBase, Forms!TypeOK
  <2>2. nItem' = [nReqs[k].rec EXCEPT !.public = nItem.public]
    BY <1>1, <2>1, FormServed
  <2>3. nVisit.view = "detail" /\ nVisit.serial
    BY <1>1 DEF FormsInv, FormsBase, OnThePage, Forms!Serial
  <2>4. Agree(nReqs[k].rec, nItem)
    BY <1>1, <2>3 DEF FormsInv, CopyAgrees
  <2>5. \A a, b \in Forms!Record : Agree(a, b) =>
           [a EXCEPT !.public = b.public] = [b EXCEPT !.contract = a.contract]
    BY DEF Forms!Record, Agree
  <2> QED
    BY <2>1, <2>2, <2>4, <2>5
<1>2. FormsInv =>
         [ \A k \in DOMAIN nReqs :
              Forms!Serve(k) /\ nReqs[k].kind = "link" /\ Forms!Serial /\ ~nFailed /\ ~nFailed' =>
                 nItem' = [nItem EXCEPT !.contract = nReqs[k].rec.contract] ]_Forms!vars
  BY <1>1
<1>3. Forms!Spec => []FormsInv
  BY EditPagesAssumption, FormsInvariance
<1> QED
  BY <1>2, <1>3, PTL DEF LinkKeepsRest, Forms!LinkKeepsRest

-----------------------------------------------------------------------------
(* ConsoleMembers: lists that are edited in place.                         *)

\* Nothing went on at once that must not, no answer was lost.
Quiet == ~mOverlap /\ ~mLost

\* The rows name everybody once.
Once(rs) == \A i, j \in DOMAIN rs : rs[i].who = rs[j].who => i = j

\* The rows are the server's list.
Lists(rs, lv) ==
    /\ Once(rs)
    /\ \A i \in DOMAIN rs : rs[i].who \in DOMAIN lv /\ rs[i].state = lv[rs[i].who]
    /\ \A p \in DOMAIN lv : \E i \in DOMAIN rs : rs[i].who = p

\* The promotions, or demotions, of p that were made and not yet answered.
Made(kind, p) == {r \in Members!Req : r.kind = kind /\ r.at = "done" /\ r.who = p}
Unanswered(q, kind, p) == Cardinality(Places(q, Made(kind, p)))

\* The rows are the server's list but for these.
Follows(rs, lv, q) ==
    /\ Once(rs)
    /\ \A i \in DOMAIN rs :
          /\ rs[i].who \in DOMAIN lv
          /\ rs[i].state = lv[rs[i].who] + Unanswered(q, "promote", rs[i].who)
                           - Unanswered(q, "demote", rs[i].who)
    /\ \A p \in DOMAIN lv : \E i \in DOMAIN rs : rs[i].who = p

\* The rows are the server's list and one more, at position i.
ListsBut(rs, lv, i) ==
    /\ Once(rs) /\ i \in DOMAIN rs
    /\ DOMAIN lv = {rs[j].who : j \in DOMAIN rs \ {i}}
    /\ \A j \in DOMAIN rs \ {i} : rs[j].state = lv[rs[j].who]

\* The row a request is about.
RowOf(r) == IF r.kind = "device" THEN mSelected ELSE r.i
AtRow(r) == RowOf(r) \in DOMAIN mRows /\ mRows[RowOf(r)].who = r.who

\* What is under way besides a promotion or a demotion is under way alone.
UnderWayAlone ==
    ~mOverlap =>
        /\ \A k \in DOMAIN mReqs : ~mReqs[k].old
        /\ \A j, k \in DOMAIN mReqs : j # k => mReqs[k].kind \in Members!Steps
        /\ mDialogs # <<>> => Len(mDialogs) = 1 /\ mReqs = <<>>

\* A request that is under way alone: before the server has done it and after it was
\* refused nothing has changed; afterwards the server has what the answer makes the page
\* show, or the answer brings it.
OneEdit(r) ==
    /\ r.kind # "unlink" => mFields = mLinked
    /\ r.kind \in {"delete", "device"} => AtRow(r)
    /\ r.kind \in {"delete", "device"} /\ r.at = "done" => ListsBut(mRows, mLevel, RowOf(r))
    /\ r.kind \in {"delete", "device", "add", "join"} /\ r.at # "done" => Lists(mRows, mLevel)
    /\ r.kind = "unlink" => /\ Lists(mRows, mLevel)
                            /\ mLinked = IF r.at = "done" THEN mFields \ {r.who} ELSE mFields
    /\ r.kind \in {"list", "refresh"} =>
          r.at # "refused" /\ (r.at = "done" => Lists(r.got, mLevel))

DialogsAtRows ==
    \A d \in DOMAIN mDialogs :
        mDialogs[d].i \in DOMAIN mRows /\ mRows[mDialogs[d].i].who = mDialogs[d].who

\* Promotions and demotions, any number of them.
OnlySteps == \A k \in DOMAIN mReqs : mReqs[k].kind \in Members!Steps
StepsFollow ==
    OnlySteps =>
        /\ Follows(mRows, mLevel, mReqs) /\ mFields = mLinked
        /\ \A k \in DOMAIN mReqs : AtRow(mReqs[k])

EditFollows ==
    \A k \in DOMAIN mReqs : mReqs[k].kind \notin Members!Steps => OneEdit(mReqs[k])

RowsFollow == Quiet => DialogsAtRows /\ StepsFollow /\ EditFollows

\* Only unlinking is about an identity, only the members' page is built anew, and
\* only the users' form is ever disabled, by a request that will enable it.
ReqsKnown ==
    /\ \A k \in DOMAIN mReqs : mReqs[k].kind # "unlink" => mReqs[k].who \in People
    /\ \A k \in DOMAIN mReqs : mReqs[k].old => mView = "members"
    /\ ~mForm => /\ mView = "users"
                 /\ \E k \in DOMAIN mReqs : mReqs[k].i = 0 /\ mReqs[k].kind \in {"add", "list"}

MembersInv == Members!TypeOK /\ ReqsKnown /\ UnderWayAlone /\ RowsFollow

MemberDialog == [i: Nat, who: People]

\* The operators of the instance are those of the library.
LEMMA MembersLibrary ==
    /\ \A S : Members!Cardinality(S) = Cardinality(S)
    /\ \A S, T : Members!Bijection(S, T) = Bijection(S, T)
    /\ \A q, k : Members!RemoveAt(q, k) = RemoveAt(q, k)
<1>1. \A S : Members!Cardinality(S) = Cardinality(S)
  BY DEF Members!Cardinality, Cardinality
<1>2. \A S, T : Members!Bijection(S, T) = Bijection(S, T)
  BY DEF Members!Bijection, Bijection, Members!Injection, Injection, Members!Surjection,
         Surjection, Members!IsInjective, IsInjective
<1>3. \A q, k : Members!RemoveAt(q, k) = RemoveAt(q, k)
  BY DEF Members!RemoveAt, RemoveAt
<1> QED
  BY <1>1, <1>2, <1>3

\* The parts of a request of a list that is edited in place.
LEMMA MembersReqTyped ==
    ASSUME Members!TypeOK, NEW k \in DOMAIN mReqs
    PROVE  /\ mReqs \in Seq(Members!Req) /\ mReqs[k] \in Members!Req
           /\ mReqs[k].kind \in Members!Kinds /\ mReqs[k].i \in Nat
           /\ mReqs[k].who \in People \cup Providers /\ mReqs[k].ids \in SUBSET People
           /\ mReqs[k].at \in {"sent", "done", "refused"}
           /\ mReqs[k].got \in Seq(Members!Row) /\ mReqs[k].old \in BOOLEAN
<1>1. mReqs \in Seq(Members!Req)
  BY DEF Members!TypeOK
<1>2. mReqs[k] \in Members!Req
  BY <1>1
<1> QED
  BY <1>1, <1>2 DEF Members!Req

\* A listing of the server has everybody once, with his state.
LEMMA ListingTrue ==
    ASSUME MembersConstants, DOMAIN mLevel \subseteq People,
           \A p \in DOMAIN mLevel : mLevel[p] \in Members!Levels,
           NEW g \in Members!Listings
    PROVE  g \in Seq(Members!Row) /\ Lists(g, mLevel)
<1> DEFINE n == Cardinality(DOMAIN mLevel)
<1>1. PICK o \in Bijection(1..n, DOMAIN mLevel) :
         g = [k \in DOMAIN o |-> [who |-> o[k], state |-> mLevel[o[k]]]]
  BY MembersLibrary DEF Members!Listings
<1>2. n \in Nat
  <2>1. IsFiniteSet(DOMAIN mLevel)
    BY FS_Subset DEF MembersConstants
  <2> QED
    BY <2>1, FS_CardinalityType
<1> HIDE DEF n
<1>3. /\ o \in [1..n -> DOMAIN mLevel] /\ DOMAIN o = 1..n
      /\ \A j, k \in 1..n : o[j] = o[k] => j = k
      /\ \A p \in DOMAIN mLevel : \E k \in 1..n : o[k] = p
  BY <1>1 DEF Bijection, Injection, Surjection, IsInjective
<1>4. /\ DOMAIN g = 1..n
      /\ \A k \in 1..n : g[k] = [who |-> o[k], state |-> mLevel[o[k]]]
  BY <1>1, <1>3
<1>5. \A k \in 1..n : /\ g[k] \in Members!Row
                      /\ g[k].who = o[k] /\ g[k].state = mLevel[o[k]]
  <2> TAKE k \in 1..n
  <2>1. o[k] \in DOMAIN mLevel
    BY <1>3
  <2>2. o[k] \in People /\ mLevel[o[k]] \in Int
    BY <2>1 DEF Members!Levels
  <2> QED
    BY <1>4, <2>2 DEF Members!Row
<1>6. g \in Seq(Members!Row)
  <2>1. g \in [1..n -> Members!Row]
    BY <1>1, <1>3, <1>4, <1>5
  <2> QED
    BY <1>2, <2>1
<1>7. Lists(g, mLevel)
  BY <1>3, <1>4, <1>5 DEF Lists, Once
<1> QED
  BY <1>6, <1>7

\* A list that is the server's has as many rows.
LEMMA ListsCount ==
    ASSUME MembersConstants, Members!TypeOK, Lists(mRows, mLevel)
    PROVE  Len(mRows) = Cardinality(DOMAIN mLevel)
<1> DEFINE n == Len(mRows)
           f == [i \in 1..n |-> mRows[i].who]
<1>1. n \in Nat /\ DOMAIN mRows = 1..n
  BY DEF Members!TypeOK
<1>2. /\ \A i, j \in 1..n : mRows[i].who = mRows[j].who => i = j
      /\ \A i \in 1..n : mRows[i].who \in DOMAIN mLevel
      /\ \A p \in DOMAIN mLevel : \E i \in 1..n : mRows[i].who = p
  BY <1>1 DEF Lists, Once
<1> HIDE DEF n
<1>3. f \in [1..n -> DOMAIN mLevel] /\ DOMAIN f = 1..n /\ \A i \in 1..n : f[i] = mRows[i].who
  BY <1>2
<1> HIDE DEF f
<1>4. f \in Bijection(1..n, DOMAIN mLevel)
  BY <1>2, <1>3 DEF Bijection, Injection, Surjection, IsInjective
<1>5. Cardinality(DOMAIN mLevel) = n
  BY <1>1, <1>4, FS_CountingElements DEF ExistsBijection
<1> QED
  BY <1>5 DEF n

\* With nothing under way nothing is unanswered.
LEMMA NothingUnanswered ==
    ASSUME NEW rs, NEW lv, \A p \in DOMAIN lv : lv[p] \in Int, NEW q, q = <<>>
    PROVE  Follows(rs, lv, q) <=> Lists(rs, lv)
<1>1. ASSUME NEW kind, NEW p PROVE Unanswered(q, kind, p) = 0
  <2>1. Places(q, Made(kind, p)) = {}
    BY DEF Places
  <2> QED
    BY <2>1, FS_EmptySet DEF Unanswered
<1>2. \A i \in DOMAIN rs : rs[i].who \in DOMAIN lv => lv[rs[i].who] \in Int
  OBVIOUS
<1>3. \A i \in DOMAIN rs : rs[i].who \in DOMAIN lv => lv[rs[i].who] + 0 - 0 = lv[rs[i].who]
  BY <1>2
<1> QED
  BY <1>1, <1>3 DEF Follows, Lists

\* The server's states are numbers.
LEMMA LevelsAreNumbers ==
    ASSUME Members!TypeOK
    PROVE  \A p \in DOMAIN mLevel : mLevel[p] \in Int
BY DEF Members!TypeOK, Members!Levels

\* The lists edited in place start in their invariant.
LEMMA MembersInit ==
    ASSUME MembersConstants, Members!Init
    PROVE  MembersInv
<1>1. /\ mView \in MemberViews /\ mRole \in MemberRoles
      /\ mLinked = Providers /\ mFields = Providers
      /\ mRows \in Members!Listings
      /\ mOff = {} /\ mSelected = 1 /\ mForm = TRUE
      /\ mDialogs = <<>> /\ mReqs = <<>> /\ mSent = 0
      /\ mOverlap = FALSE /\ mLost = FALSE
  BY DEF Members!Init, Members!FriendsResolver, Members!GroupsResolver, Members!UsersResolver
<1>2. DOMAIN mLevel \subseteq People /\ \A p \in DOMAIN mLevel : mLevel[p] \in Members!Levels
  <2>1. PICK m \in SUBSET People : mLevel \in [m -> {0, Members!Member}]
    BY DEF Members!Init
  <2>2. 0 \in Members!Levels /\ Members!Member \in Members!Levels
    BY DEF Members!Levels, Members!Member
  <2> QED
    BY <2>1, <2>2
<1>3. mRows \in Seq(Members!Row) /\ Lists(mRows, mLevel)
  BY <1>1, <1>2, ListingTrue
<1>4. mDialogs \in Seq(MemberDialog) /\ mReqs \in Seq(Members!Req)
  BY <1>1, EmptySeq
<1>5. DOMAIN mDialogs = {} /\ DOMAIN mReqs = {}
  BY <1>1
<1>6. Members!TypeOK
  <2>1. mSent \in 0..MaxMemberSent /\ mSelected \in Nat \ {0}
    BY <1>1 DEF MembersConstants
  <2> QED
    BY <1>1, <1>2, <1>3, <1>4, <2>1 DEF Members!TypeOK, MemberDialog
<1>7. ReqsKnown /\ UnderWayAlone
  BY <1>1, <1>5 DEF ReqsKnown, UnderWayAlone
<1>8. Follows(mRows, mLevel, mReqs)
  BY <1>1, <1>3, <1>6, LevelsAreNumbers, NothingUnanswered
<1>9. RowsFollow
  BY <1>1, <1>5, <1>8 DEF RowsFollow, DialogsAtRows, StepsFollow, EditFollows
<1> QED
  BY <1>6, <1>7, <1>9 DEF MembersInv

\* A click that sends request r.
MembersSend(r) ==
    /\ r \in Members!Req /\ r.at = "sent" /\ r.old = FALSE
    /\ r.kind \notin {"list", "refresh"} /\ (r.kind # "unlink" => r.who \in People)
    /\ Quiet /\ r.kind \in Members!Steps \cup {"delete", "device"} => AtRow(r)
    /\ mReqs' = Append(mReqs, r) /\ mSent' \in 0..MaxMemberSent
    /\ mDialogs' \in Seq(MemberDialog)
    /\ mOverlap' = (mOverlap \/ Members!Overlaps(r.kind, mDialogs'))
    /\ mOff' \subseteq People \cup Providers \cup {"device"}
    /\ \/ mForm' = mForm
       \/ mForm' = FALSE /\ mView = "users" /\ r.kind = "add" /\ r.i = 0
    /\ UNCHANGED <<mView, mRole, mLevel, mLinked, mRows, mFields, mSelected, mLost>>

\* Sending a request keeps the invariant.
LEMMA MembersSent ==
    ASSUME MembersInv, NEW r, MembersSend(r)
    PROVE  MembersInv'
<1>0. Members!TypeOK /\ ReqsKnown /\ UnderWayAlone /\ RowsFollow
  BY DEF MembersInv
<1>1. /\ r \in Members!Req /\ r.at = "sent" /\ r.old = FALSE
      /\ r.kind \notin {"list", "refresh"} /\ (r.kind # "unlink" => r.who \in People)
      /\ mReqs' = Append(mReqs, r)
      /\ UNCHANGED <<mView, mRole, mLevel, mLinked, mRows, mFields, mSelected, mLost>>
  BY DEF MembersSend
<1>2. mReqs \in Seq(Members!Req)
  BY <1>0 DEF Members!TypeOK
<1>3. /\ mReqs' \in Seq(Members!Req)
      /\ DOMAIN mReqs' = DOMAIN mReqs \cup {Len(mReqs) + 1} /\ Len(mReqs) + 1 \notin DOMAIN mReqs
      /\ \A i \in DOMAIN mReqs : mReqs'[i] = mReqs[i]
      /\ mReqs'[Len(mReqs) + 1] = r
  BY <1>1, <1>2, AppendRest
<1>4. mForm' \in BOOLEAN /\ mOverlap' \in BOOLEAN
  <2>1. mForm' = mForm \/ mForm' = FALSE
    BY DEF MembersSend
  <2>2. mOverlap' = (mOverlap \/ Members!Overlaps(r.kind, mDialogs'))
    BY DEF MembersSend
  <2> QED
    BY <1>0, <2>1, <2>2 DEF Members!TypeOK
<1>5. Members!TypeOK'
  <2>1. /\ mSent' \in 0..MaxMemberSent /\ mDialogs' \in Seq([i: Nat, who: People])
        /\ mOff' \subseteq People \cup Providers \cup {"device"}
    BY DEF MembersSend, MemberDialog
  <2> QED
    BY <1>0, <1>1, <1>3, <1>4, <2>1 DEF Members!TypeOK
<1>6. ReqsKnown'
  <2>1. \A k \in DOMAIN mReqs' : mReqs'[k].kind # "unlink" => mReqs'[k].who \in People
    BY <1>0, <1>1, <1>3 DEF ReqsKnown
  <2>2. \A k \in DOMAIN mReqs' : mReqs'[k].old => mView' = "members"
    BY <1>0, <1>1, <1>3 DEF ReqsKnown
  <2>3. ASSUME ~mForm'
        PROVE  /\ mView' = "users"
               /\ \E k \in DOMAIN mReqs' : mReqs'[k].i = 0 /\ mReqs'[k].kind \in {"add", "list"}
    <3>1. CASE mForm' = mForm
      BY <1>0, <1>1, <1>3, <2>3, <3>1 DEF ReqsKnown
    <3>2. CASE mView = "users" /\ r.kind = "add" /\ r.i = 0
      BY <1>1, <1>3, <3>2
    <3> QED
      BY <3>1, <3>2 DEF MembersSend
  <2> QED
    BY <2>1, <2>2, <2>3 DEF ReqsKnown
\* Without an overlap whatever else is under way is a promotion or a demotion, as r is,
\* and no dialog is open.
<1>7. ASSUME ~mOverlap'
      PROVE  /\ ~mOverlap /\ mDialogs' = <<>> /\ OnlySteps
             /\ \A k \in DOMAIN mReqs : ~mReqs[k].old
             /\ r.kind \notin Members!Steps => mReqs = <<>>
  <2>1. ~mOverlap /\ ~Members!Overlaps(r.kind, mDialogs')
    BY <1>7 DEF MembersSend
  <2>2. \A k \in DOMAIN mReqs : ~mReqs[k].old
    BY <1>0, <2>1 DEF UnderWayAlone
  <2>3. mDialogs' = <<>> /\ \A k \in DOMAIN mReqs : {r.kind, mReqs[k].kind} \subseteq Members!Steps
    BY <2>1, <2>2 DEF Members!Overlaps
  <2>4. OnlySteps
    BY <2>3 DEF OnlySteps
  <2>5. DOMAIN mReqs = {} => mReqs = <<>>
    BY <1>2
  <2>6. r.kind \notin Members!Steps => DOMAIN mReqs = {}
    BY <2>3
  <2> QED
    BY <2>1, <2>2, <2>3, <2>4, <2>5, <2>6
<1>8. UnderWayAlone'
  <2> SUFFICES ASSUME ~mOverlap'
               PROVE  /\ \A k \in DOMAIN mReqs' : ~mReqs'[k].old
                      /\ \A j, k \in DOMAIN mReqs' : j # k => mReqs'[k].kind \in Members!Steps
                      /\ mDialogs' = <<>>
    BY DEF UnderWayAlone, Members!Steps
  <2>1. \A k \in DOMAIN mReqs' : ~mReqs'[k].old
    BY <1>1, <1>3, <1>7
  <2>2. \A j, k \in DOMAIN mReqs' : j # k => mReqs'[k].kind \in Members!Steps
    <3>1. CASE r.kind \in Members!Steps
      BY <1>3, <1>7, <3>1 DEF OnlySteps
    <3>2. CASE r.kind \notin Members!Steps
      <4>1. DOMAIN mReqs = {}
        BY <1>7, <3>2
      <4> QED
        BY <1>3, <4>1
    <3> QED
      BY <3>1, <3>2
  <2> QED
    BY <1>7, <2>1, <2>2
<1>9. RowsFollow'
  <2> SUFFICES ASSUME Quiet'
               PROVE  DialogsAtRows' /\ StepsFollow' /\ EditFollows'
    BY DEF RowsFollow
  <2>1. /\ Quiet /\ mDialogs' = <<>> /\ OnlySteps
        /\ r.kind \notin Members!Steps => mReqs = <<>>
    BY <1>1, <1>7 DEF Quiet
  <2>2. /\ Follows(mRows, mLevel, mReqs) /\ mFields = mLinked
        /\ \A k \in DOMAIN mReqs : AtRow(mReqs[k])
    BY <1>0, <2>1 DEF RowsFollow, StepsFollow
  <2>3. r.kind \in Members!Steps \cup {"delete", "device"} => AtRow(r)
    BY <2>1 DEF MembersSend
  <2>4. DialogsAtRows'
    <3>1. DOMAIN mDialogs' = {}
      BY <2>1
    <3> QED
      BY <3>1 DEF DialogsAtRows
  <2>5. StepsFollow'
    <3> SUFFICES ASSUME OnlySteps'
                 PROVE  /\ Follows(mRows', mLevel', mReqs')
                        /\ \A k \in DOMAIN mReqs' : AtRow(mReqs[k])'
      BY <1>1, <2>2 DEF StepsFollow
    <3>1. ASSUME NEW kind, NEW p PROVE Unanswered(mReqs', kind, p) = Unanswered(mReqs, kind, p)
      <4>1. Places(mReqs', Made(kind, p)) = Places(mReqs, Made(kind, p))
        BY <1>1, <1>3 DEF Places, Made
      <4> QED
        BY <4>1 DEF Unanswered
    <3>2. Follows(mRows', mLevel', mReqs')
      BY <1>1, <2>2, <3>1 DEF Follows
    <3>3. r.kind \in Members!Steps
      BY <1>3 DEF OnlySteps
    <3>4. \A k \in DOMAIN mReqs' : AtRow(mReqs[k])'
      BY <1>1, <1>3, <2>2, <2>3, <3>3 DEF AtRow, RowOf
    <3> QED
      BY <3>2, <3>4
  <2>6. EditFollows'
    <3> SUFFICES ASSUME NEW k \in DOMAIN mReqs', mReqs'[k].kind \notin Members!Steps
                 PROVE  OneEdit(mReqs[k])'
      BY DEF EditFollows
    <3>1. mReqs'[k] = r
      BY <1>3, <2>1 DEF OnlySteps
    <3>2. mReqs = <<>> /\ Lists(mRows, mLevel)
      BY <1>0, <2>1, <2>2, <3>1, LevelsAreNumbers, NothingUnanswered
    <3>3. Lists(mRows', mLevel')
      BY <1>1, <3>2
    <3>4. r.kind \in {"delete", "device"} => AtRow(mReqs[k])'
      BY <1>1, <2>3, <3>1 DEF AtRow, RowOf
    <3> QED
      BY <1>1, <2>2, <3>1, <3>3, <3>4 DEF OneEdit
  <2> QED
    BY <2>4, <2>5, <2>6
<1> QED
  BY <1>5, <1>6, <1>8, <1>9 DEF MembersInv

\* A click that sends nothing: a dialog opens or closes, another device is selected.
MembersTouch ==
    /\ UNCHANGED <<mView, mRole, mLevel, mLinked, mRows, mFields, mOff, mForm, mReqs, mSent,
                   mLost>>
    /\ mDialogs' \in Seq(MemberDialog) /\ mSelected' \in Nat \ {0} /\ mOverlap' \in BOOLEAN
    /\ mOverlap => mOverlap'
    /\ ~mOverlap' /\ mDialogs' # <<>> => Len(mDialogs') = 1 /\ mReqs = <<>>
    /\ Quiet' => DialogsAtRows'
    /\ \/ mOverlap' \/ mSelected' = mSelected
       \/ \A k \in DOMAIN mReqs : mReqs[k].kind # "device"

\* A click that sends nothing keeps the invariant.
LEMMA MembersTouched ==
    ASSUME MembersInv, MembersTouch
    PROVE  MembersInv'
<1>0. Members!TypeOK /\ ReqsKnown /\ UnderWayAlone /\ RowsFollow
  BY DEF MembersInv
<1>1. UNCHANGED <<mView, mRole, mLevel, mLinked, mRows, mFields, mOff, mForm, mReqs, mSent,
                  mLost>>
  BY DEF MembersTouch
<1>2. Members!TypeOK'
  BY <1>0, <1>1 DEF MembersTouch, Members!TypeOK, MemberDialog
<1>3. ReqsKnown'
  BY <1>0, <1>1 DEF ReqsKnown
<1>4. UnderWayAlone'
  <2> SUFFICES ASSUME ~mOverlap'
               PROVE  /\ \A k \in DOMAIN mReqs' : ~mReqs'[k].old
                      /\ \A j, k \in DOMAIN mReqs' : j # k => mReqs'[k].kind \in Members!Steps
                      /\ mDialogs' # <<>> => Len(mDialogs') = 1 /\ mReqs' = <<>>
    BY DEF UnderWayAlone, Members!Steps
  <2>1. /\ ~mOverlap
        /\ mDialogs' # <<>> => Len(mDialogs') = 1 /\ mReqs = <<>>
    BY DEF MembersTouch
  <2> QED
    BY <1>0, <1>1, <2>1 DEF UnderWayAlone
<1>5. RowsFollow'
  <2> SUFFICES ASSUME Quiet'
               PROVE  DialogsAtRows' /\ StepsFollow' /\ EditFollows'
    BY DEF RowsFollow
  <2>1. /\ Quiet /\ DialogsAtRows'
        /\ mSelected' = mSelected \/ \A k \in DOMAIN mReqs : mReqs[k].kind # "device"
    BY <1>1 DEF MembersTouch, Quiet
  <2>2. StepsFollow /\ EditFollows
    BY <1>0, <2>1 DEF RowsFollow
  <2>3. ASSUME NEW k \in DOMAIN mReqs
        PROVE  (RowOf(mReqs[k]))' = RowOf(mReqs[k])
    BY <1>1, <2>1, <2>3 DEF RowOf
  <2>4. ASSUME NEW k \in DOMAIN mReqs
        PROVE  AtRow(mReqs[k])' <=> AtRow(mReqs[k])
    BY <1>1, <2>3, <2>4 DEF AtRow
  <2>5. StepsFollow'
    BY <1>1, <2>2, <2>4 DEF StepsFollow, OnlySteps
  <2>6. EditFollows'
    <3> SUFFICES ASSUME NEW k \in DOMAIN mReqs, mReqs[k].kind \notin Members!Steps
                 PROVE  OneEdit(mReqs[k])'
      BY <1>1 DEF EditFollows, Members!Steps
    <3>1. OneEdit(mReqs[k])
      BY <2>2 DEF EditFollows
    <3> QED
      BY <1>1, <2>3, <2>4, <3>1 DEF OneEdit
  <2> QED
    BY <2>1, <2>5, <2>6
<1> QED
  BY <1>2, <1>3, <1>4, <1>5 DEF MembersInv

\* Opening or closing a dialog and selecting a device are such clicks.
LEMMA MembersTouches ==
    ASSUME MembersInv,
           \/ \E i \in DOMAIN mRows : Members!Dialog(i) \/ Members!selectDevice(i)
           \/ \E d \in DOMAIN mDialogs : Members!Cancel(d)
    PROVE  MembersTouch
<1>0. Members!TypeOK /\ UnderWayAlone /\ RowsFollow
  BY DEF MembersInv
<1>1. /\ mRows \in Seq(Members!Row) /\ mDialogs \in Seq(MemberDialog)
      /\ mReqs \in Seq(Members!Req) /\ mOverlap \in BOOLEAN /\ mSelected \in Nat \ {0}
  BY <1>0 DEF Members!TypeOK, MemberDialog
<1>2. ASSUME NEW i \in DOMAIN mRows, Members!Dialog(i)
      PROVE  MembersTouch
  <2> DEFINE x == [i |-> i, who |-> mRows[i].who]
  <2>1. /\ mDialogs' = Append(mDialogs, x)
        /\ mOverlap' = (mOverlap \/ Members!Overlaps("delete", mDialogs))
        /\ UNCHANGED <<mView, mRole, mLevel, mLinked, mRows, mFields, mOff, mForm, mReqs, mSent,
                       mLost, mSelected>>
    BY <1>2 DEF Members!Dialog, Members!fixed, Members!server, Members!shown
  <2>2. mRows[i] \in Members!Row /\ i \in Nat
    BY <1>1
  <2>3. x \in MemberDialog /\ x.i = i /\ x.who = mRows[i].who
    BY <2>2 DEF MemberDialog, Members!Row
  <2> HIDE DEF x
  <2>4. ASSUME ~mOverlap' PROVE mDialogs = <<>> /\ mReqs = <<>>
    <3>1. ~mOverlap /\ ~Members!Overlaps("delete", mDialogs)
      BY <2>1, <2>4
    <3>2. \A k \in DOMAIN mReqs : ~mReqs[k].old
      BY <1>0, <3>1 DEF UnderWayAlone
    <3>3. mDialogs = <<>> /\ DOMAIN mReqs = {}
      BY <3>1, <3>2 DEF Members!Overlaps, Members!Steps
    <3> QED
      BY <1>1, <3>3
  <2>5. mDialogs' \in Seq(MemberDialog) /\ Len(mDialogs') = Len(mDialogs) + 1
    BY <1>1, <2>1, <2>3, AppendRest
  <2>6. ~mOverlap' => Len(mDialogs') = 1 /\ mDialogs' = <<x>>
    BY <2>1, <2>4, <2>5
  <2>7. Quiet' => DialogsAtRows'
    <3> SUFFICES ASSUME ~mOverlap', NEW d \in DOMAIN mDialogs'
                 PROVE  mDialogs'[d].i \in DOMAIN mRows' /\ mRows'[mDialogs'[d].i].who = mDialogs'[d].who
      BY DEF Quiet, DialogsAtRows
    <3>1. mDialogs'[d] = x
      BY <2>6
    <3> QED
      BY <2>1, <2>3, <3>1
  <2>8. mOverlap' \in BOOLEAN
    BY <1>1, <2>1
  <2> QED
    BY <1>1, <2>1, <2>4, <2>5, <2>6, <2>7, <2>8 DEF MembersTouch
<1>3. ASSUME NEW i \in DOMAIN mRows, Members!selectDevice(i)
      PROVE  MembersTouch
  <2>1. /\ mSelected' = i
        /\ mOverlap' = (mOverlap \/ \E k \in DOMAIN mReqs : mReqs[k].kind = "device")
        /\ UNCHANGED <<mView, mRole, mLevel, mLinked, mRows, mFields, mOff, mForm, mReqs, mSent,
                       mLost, mDialogs>>
    BY <1>3 DEF Members!selectDevice, Members!fixed, Members!server
  <2>2. i \in Nat \ {0} /\ mOverlap' \in BOOLEAN /\ (mOverlap => mOverlap')
    BY <1>1, <2>1
  <2>3. Quiet' => DialogsAtRows'
    BY <1>0, <2>1 DEF Quiet, RowsFollow, DialogsAtRows
  <2>4. ~mOverlap' /\ mDialogs' # <<>> => Len(mDialogs') = 1 /\ mReqs = <<>>
    BY <1>0, <2>1, <2>2 DEF UnderWayAlone
  <2> QED
    BY <1>1, <2>1, <2>2, <2>3, <2>4 DEF MembersTouch
<1>4. ASSUME NEW d \in DOMAIN mDialogs, Members!Cancel(d)
      PROVE  MembersTouch
  <2>1. /\ mDialogs' = RemoveAt(mDialogs, d)
        /\ UNCHANGED <<mView, mRole, mLevel, mLinked, mRows, mFields, mOff, mForm, mReqs, mSent,
                       mLost, mSelected, mOverlap>>
    BY <1>4, MembersLibrary DEF Members!Cancel, Members!fixed, Members!server, Members!shown
  <2>2. /\ mDialogs' \in Seq(MemberDialog) /\ Len(mDialogs') = Len(mDialogs) - 1
        /\ \A h \in DOMAIN mDialogs' : \E j \in DOMAIN mDialogs : mDialogs'[h] = mDialogs[j]
    BY <1>1, <2>1, RemoveAtRest
  <2>3. Quiet' => DialogsAtRows'
    BY <1>0, <2>1, <2>2 DEF Quiet, RowsFollow, DialogsAtRows
  <2>4. ~mOverlap' /\ mDialogs' # <<>> => Len(mDialogs') = 1 /\ mReqs = <<>>
    <3> SUFFICES ASSUME ~mOverlap
                 PROVE  mDialogs' = <<>>
      BY <2>1
    <3>1. Len(mDialogs) = 1
      BY <1>0, <1>1 DEF UnderWayAlone
    <3>2. Len(mDialogs') = 0
      BY <2>2, <3>1
    <3> QED
      BY <2>2, <3>2
  <2> QED
    BY <1>1, <2>1, <2>2, <2>3, <2>4 DEF MembersTouch
<1> QED
  BY <1>2, <1>3, <1>4

\* A request as the pages send it.
NewReq(kind, i, who, ids) ==
    [kind |-> kind, i |-> i, who |-> who, ids |-> ids, at |-> "sent", got |-> <<>>, old |-> FALSE]

\* Every click that goes through SendTo sends a request about the row it was made on.
LEMMA MembersSendStep ==
    ASSUME MembersConstants, Members!TypeOK,
           NEW kind \in Members!Kinds \ {"list", "refresh"}, NEW i \in Nat,
           NEW who \in People \cup Providers, NEW ids \in SUBSET People,
           Members!SendTo(kind, i, who, ids), kind # "unlink" => who \in People,
           kind \in Members!Steps \cup {"delete"} => i \in DOMAIN mRows /\ mRows[i].who = who,
           kind = "device" => mSelected \in DOMAIN mRows /\ mRows[mSelected].who = who,
           mOff' \subseteq People \cup Providers \cup {"device"},
           mForm' = mForm \/ (mForm' = FALSE /\ mView = "users" /\ kind = "add" /\ i = 0),
           UNCHANGED <<mView, mRole, mLevel, mLinked, mRows, mFields, mSelected, mDialogs, mLost>>
    PROVE  \E r : MembersSend(r)
<1>0. PICK r : r = NewReq(kind, i, who, ids)
  OBVIOUS
<1>1. /\ r \in Members!Req /\ r.kind = kind /\ r.i = i /\ r.who = who
      /\ r.at = "sent" /\ r.old = FALSE
  BY <1>0, EmptySeq DEF NewReq, Members!Req
<1>2. /\ mReqs' = Append(mReqs, r) /\ mSent' = mSent + 1 /\ mSent < MaxMemberSent
      /\ mOverlap' = (mOverlap \/ Members!Overlaps(kind, mDialogs))
  BY <1>0 DEF Members!SendTo, Members!Request, NewReq
<1>3. mSent' \in 0..MaxMemberSent
  BY <1>2 DEF Members!TypeOK, MembersConstants
<1>4. mDialogs' \in Seq(MemberDialog) /\ mDialogs' = mDialogs
  BY DEF Members!TypeOK, MemberDialog
<1>5. mOverlap' = (mOverlap \/ Members!Overlaps(r.kind, mDialogs'))
  BY <1>1, <1>2, <1>4
<1>6. kind \in Members!Steps \cup {"delete", "device"} => AtRow(r)
  BY <1>1 DEF AtRow, RowOf, Members!Steps
<1>7. MembersSend(r)
  BY <1>1, <1>2, <1>3, <1>4, <1>5, <1>6 DEF MembersSend
<1> QED
  BY <1>7

\* The callback of a dialog sends a delete of the row the dialog was opened for.
LEMMA MembersConfirms ==
    ASSUME MembersConstants, MembersInv, NEW d \in DOMAIN mDialogs, Members!Confirm(d)
    PROVE  \E r : MembersSend(r)
<1>0. Members!TypeOK /\ RowsFollow
  BY DEF MembersInv
<1> DEFINE i == mDialogs[d].i
           who == mDialogs[d].who
<1>a. PICK r : r = NewReq("delete", i, who, {})
  OBVIOUS
<1>1. /\ mDialogs' = RemoveAt(mDialogs, d) /\ mReqs' = Append(mReqs, r)
      /\ mSent < MaxMemberSent /\ mSent' = mSent + 1
      /\ mOverlap' = (mOverlap \/ Members!Overlaps("delete", mDialogs'))
      /\ mOff' = mOff \cup {who}
      /\ UNCHANGED <<mView, mRole, mLevel, mLinked, mRows, mFields, mSelected, mForm, mLost>>
  BY <1>a, MembersLibrary DEF Members!Confirm, Members!Request, NewReq, Members!fixed, Members!server, Members!shown
<1>2. mDialogs \in Seq(MemberDialog)
  BY <1>0 DEF Members!TypeOK, MemberDialog
<1>3. i \in Nat /\ who \in People
  <2>1. mDialogs[d] \in MemberDialog
    BY <1>2
  <2> QED
    BY <2>1 DEF MemberDialog
<1>4. Quiet => i \in DOMAIN mRows /\ mRows[i].who = who
  BY <1>0 DEF RowsFollow, DialogsAtRows
<1> HIDE DEF i, who
<1>5. /\ r \in Members!Req /\ r.kind = "delete" /\ r.i = i /\ r.who = who
      /\ r.at = "sent" /\ r.old = FALSE
  BY <1>a, <1>3, EmptySeq DEF NewReq, Members!Req, Members!Kinds
<1>6. mSent' \in 0..MaxMemberSent
  BY <1>0, <1>1 DEF Members!TypeOK, MembersConstants
<1>7. mDialogs' \in Seq(MemberDialog)
  BY <1>1, <1>2, RemoveAtRest
<1>8. mOff' \subseteq People \cup Providers \cup {"device"}
  BY <1>0, <1>1, <1>3 DEF Members!TypeOK
<1>9. Quiet => AtRow(r)
  BY <1>4, <1>5 DEF AtRow, RowOf
<1>10. mOverlap' = (mOverlap \/ Members!Overlaps(r.kind, mDialogs'))
  BY <1>1, <1>5
<1>11. MembersSend(r)
  BY <1>1, <1>3, <1>5, <1>6, <1>7, <1>8, <1>9, <1>10 DEF MembersSend
<1> QED
  BY <1>11

\* Every row is somebody's.
LEMMA MembersInRows ==
    ASSUME Members!TypeOK
    PROVE  /\ mOff \subseteq People \cup Providers \cup {"device"}
           /\ \A i \in DOMAIN mRows : i \in Nat /\ mRows[i].who \in People
<1>1. mRows \in Seq(Members!Row) /\ mOff \subseteq People \cup Providers \cup {"device"}
  BY DEF Members!TypeOK
<1>2. \A i \in DOMAIN mRows : i \in Nat /\ mRows[i] \in Members!Row
  BY <1>1
<1> QED
  BY <1>1, <1>2 DEF Members!Row

\* Each button sends a request about the row it is in.
LEMMA MembersSends ==
    ASSUME MembersConstants, MembersInv,
           \/ \E i \in DOMAIN mRows :
                 \/ Members!deleteGroupUser(i) \/ Members!demoteGroupUser(i)
                 \/ Members!promoteGroupUser(i) \/ Members!deleteUser(i)
           \/ \E ids \in SUBSET People, activeState \in {"Add Member", "Join"} :
                 Members!add(ids, activeState)
           \/ \E p \in People : Members!addUser(p)
           \/ Members!unlinkDeviceId
           \/ \E p \in Providers : Members!unlink(p)
    PROVE  \E r : MembersSend(r)
<1>0. Members!TypeOK
  BY DEF MembersInv
<1>1. /\ mOff \subseteq People \cup Providers \cup {"device"}
      /\ \A i \in DOMAIN mRows : i \in Nat /\ mRows[i].who \in People
  BY <1>0, MembersInRows
<1>a. {} \in SUBSET People
  OBVIOUS
<1> USE <1>a DEF Members!fixed, Members!server, Members!shown, Members!Kinds, Members!Send
<1>2. ASSUME NEW i \in DOMAIN mRows, Members!deleteGroupUser(i)
      PROVE  \E r : MembersSend(r)
  BY <1>0, <1>1, <1>2, MembersSendStep DEF Members!deleteGroupUser
<1>3. ASSUME NEW i \in DOMAIN mRows, Members!demoteGroupUser(i)
      PROVE  \E r : MembersSend(r)
  BY <1>0, <1>1, <1>3, MembersSendStep DEF Members!demoteGroupUser
<1>4. ASSUME NEW i \in DOMAIN mRows, Members!promoteGroupUser(i)
      PROVE  \E r : MembersSend(r)
  BY <1>0, <1>1, <1>4, MembersSendStep DEF Members!promoteGroupUser
<1>5. ASSUME NEW i \in DOMAIN mRows, Members!deleteUser(i)
      PROVE  \E r : MembersSend(r)
  BY <1>0, <1>1, <1>5, MembersSendStep DEF Members!deleteUser
<1>6. ASSUME NEW ids \in SUBSET People, NEW activeState, Members!add(ids, activeState)
      PROVE  \E r : MembersSend(r)
  <2>1. PICK kind \in {"add", "join"} : Members!SendAll(kind, ids)
    BY <1>6 DEF Members!add
  <2>2. PICK who : who = CHOOSE p \in ids : TRUE
    OBVIOUS
  <2>3. who \in ids /\ Members!SendTo(kind, 0, who, ids)
    BY <2>1, <2>2 DEF Members!SendAll
  <2> QED
    BY <1>0, <1>1, <1>6, <2>3, MembersSendStep DEF Members!add, Members!Steps
<1>7. ASSUME NEW p \in People, Members!addUser(p)
      PROVE  \E r : MembersSend(r)
  <2>1. Members!SendTo("add", 0, p, {p}) /\ {p} \in SUBSET People
    BY <1>7 DEF Members!addUser, Members!SendAll
  <2>2. /\ mForm' = FALSE /\ mView = "users" /\ mOff' = mOff
        /\ UNCHANGED <<mView, mRole, mLevel, mLinked, mRows, mFields, mSelected, mDialogs, mLost>>
    BY <1>7 DEF Members!addUser
  <2> QED
    BY <1>0, <1>1, <2>1, <2>2, MembersSendStep DEF Members!Steps
<1>8. ASSUME Members!unlinkDeviceId
      PROVE  \E r : MembersSend(r)
  BY <1>0, <1>1, <1>8, MembersSendStep DEF Members!unlinkDeviceId, Members!Steps
<1>9. ASSUME NEW p \in Providers, Members!unlink(p)
      PROVE  \E r : MembersSend(r)
  BY <1>0, <1>1, <1>9, MembersSendStep DEF Members!unlink, Members!Steps
<1> QED
  BY <1>2, <1>3, <1>4, <1>5, <1>6, <1>7, <1>8, <1>9

\* Request k goes on as r: it is served, its answer is lost, or the request for the list
\* follows it.
MembersChange(k, r) ==
    /\ k \in DOMAIN mReqs /\ r \in Members!Req
    /\ mReqs' = [mReqs EXCEPT ![k] = r]
    /\ r.i = mReqs[k].i /\ r.who = mReqs[k].who /\ r.old = mReqs[k].old
    /\ r.kind = mReqs[k].kind \/ mReqs[k].kind \notin Members!Steps \cup {"unlink"}
    /\ mView = "users" /\ mReqs[k].kind \in {"add", "list"} => r.kind \in {"add", "list"}
    /\ DOMAIN mLevel' \subseteq People /\ \A p \in DOMAIN mLevel' : mLevel'[p] \in Members!Levels
    /\ mLinked' \subseteq Providers /\ mLost' \in BOOLEAN /\ (mLost => mLost')
    /\ UNCHANGED <<mView, mRole, mRows, mFields, mOff, mSelected, mForm, mDialogs, mSent,
                   mOverlap>>

\* Types and what is under way, whatever becomes of request k.
LEMMA MembersChangeKeeps ==
    ASSUME MembersInv, NEW k, NEW r, MembersChange(k, r)
    PROVE  /\ Members!TypeOK' /\ ReqsKnown' /\ UnderWayAlone'
           /\ DOMAIN mReqs' = DOMAIN mReqs /\ mReqs'[k] = r
           /\ \A j \in DOMAIN mReqs : j # k => mReqs'[j] = mReqs[j]
<1>0. Members!TypeOK /\ ReqsKnown /\ UnderWayAlone
  BY DEF MembersInv
<1>1. /\ k \in DOMAIN mReqs /\ r \in Members!Req
      /\ mReqs' = [mReqs EXCEPT ![k] = r]
      /\ r.i = mReqs[k].i /\ r.who = mReqs[k].who /\ r.old = mReqs[k].old
      /\ r.kind = mReqs[k].kind \/ mReqs[k].kind \notin Members!Steps \cup {"unlink"}
      /\ mView = "users" /\ mReqs[k].kind \in {"add", "list"} => r.kind \in {"add", "list"}
      /\ UNCHANGED <<mView, mRole, mRows, mFields, mOff, mSelected, mForm, mDialogs, mSent,
                     mOverlap>>
  BY DEF MembersChange
<1>2. mReqs \in Seq(Members!Req)
  BY <1>0 DEF Members!TypeOK
<1>3. /\ mReqs' \in Seq(Members!Req) /\ DOMAIN mReqs' = DOMAIN mReqs /\ mReqs'[k] = r
      /\ \A j \in DOMAIN mReqs : j # k => mReqs'[j] = mReqs[j]
  BY <1>1, <1>2
<1>4. Members!TypeOK'
  <2>1. /\ DOMAIN mLevel' \subseteq People
        /\ \A p \in DOMAIN mLevel' : mLevel'[p] \in Members!Levels
        /\ mLinked' \subseteq Providers /\ mLost' \in BOOLEAN
    BY DEF MembersChange
  <2> QED
    BY <1>0, <1>1, <1>3, <2>1 DEF Members!TypeOK
<1>5. ReqsKnown'
  <2>1. \A j \in DOMAIN mReqs' : mReqs'[j].kind # "unlink" => mReqs'[j].who \in People
    BY <1>0, <1>1, <1>3 DEF ReqsKnown
  <2>2. \A j \in DOMAIN mReqs' : mReqs'[j].old => mView' = "members"
    BY <1>0, <1>1, <1>3 DEF ReqsKnown
  <2>3. ASSUME ~mForm'
        PROVE  /\ mView' = "users"
               /\ \E j \in DOMAIN mReqs' : mReqs'[j].i = 0 /\ mReqs'[j].kind \in {"add", "list"}
    <3>1. mView = "users"
      BY <1>0, <1>1, <2>3 DEF ReqsKnown
    <3>2. PICK j \in DOMAIN mReqs : mReqs[j].i = 0 /\ mReqs[j].kind \in {"add", "list"}
      BY <1>0, <1>1, <2>3 DEF ReqsKnown
    <3>3. mReqs'[j].i = 0 /\ mReqs'[j].kind \in {"add", "list"}
      BY <1>1, <1>3, <3>1, <3>2
    <3> QED
      BY <1>1, <1>3, <3>1, <3>2, <3>3
  <2> QED
    BY <2>1, <2>2, <2>3 DEF ReqsKnown
<1>6. UnderWayAlone'
  <2> SUFFICES ASSUME ~mOverlap'
               PROVE  /\ \A j \in DOMAIN mReqs' : ~mReqs'[j].old
                      /\ \A i, j \in DOMAIN mReqs' : i # j => mReqs'[j].kind \in Members!Steps
                      /\ mDialogs' # <<>> => Len(mDialogs') = 1 /\ mReqs' = <<>>
    BY DEF UnderWayAlone, Members!Steps
  <2>1. /\ \A j \in DOMAIN mReqs : ~mReqs[j].old
        /\ \A i, j \in DOMAIN mReqs : i # j => mReqs[j].kind \in Members!Steps
        /\ mDialogs # <<>> => Len(mDialogs) = 1 /\ mReqs = <<>>
    BY <1>0, <1>1 DEF UnderWayAlone
  <2>2. \A j \in DOMAIN mReqs' : ~mReqs'[j].old
    BY <1>1, <1>3, <2>1
  <2>3. \A i, j \in DOMAIN mReqs' : i # j => mReqs'[j].kind \in Members!Steps
    BY <1>1, <1>3, <2>1
  <2>4. mDialogs' = <<>>
    <3>1. mReqs # <<>>
      BY <1>1
    <3> QED
      BY <1>1, <2>1, <3>1
  <2> QED
    BY <2>2, <2>3, <2>4
<1> QED
  BY <1>3, <1>4, <1>5, <1>6

\* A request that is neither a promotion nor a demotion goes on alone.
LEMMA MembersEditGoesOn ==
    ASSUME MembersInv, NEW k, NEW r, MembersChange(k, r),
           mReqs[k].kind \notin Members!Steps, r.kind \notin Members!Steps,
           Quiet' /\ OneEdit(mReqs[k]) => OneEdit(r)'
    PROVE  MembersInv'
<1>0. Members!TypeOK /\ ReqsKnown /\ UnderWayAlone /\ RowsFollow
  BY DEF MembersInv
<1>1. /\ Members!TypeOK' /\ ReqsKnown' /\ UnderWayAlone'
      /\ DOMAIN mReqs' = DOMAIN mReqs /\ mReqs'[k] = r
      /\ \A j \in DOMAIN mReqs : j # k => mReqs'[j] = mReqs[j]
  BY MembersChangeKeeps
<1>2. /\ k \in DOMAIN mReqs /\ mRows' = mRows /\ mDialogs' = mDialogs
      /\ mOverlap' = mOverlap /\ (mLost => mLost')
  BY DEF MembersChange
<1>3. RowsFollow'
  <2> SUFFICES ASSUME Quiet'
               PROVE  DialogsAtRows' /\ StepsFollow' /\ EditFollows'
    BY DEF RowsFollow
  <2>1. Quiet
    BY <1>2 DEF Quiet
  <2>2. DialogsAtRows'
    BY <1>0, <1>2, <2>1 DEF RowsFollow, DialogsAtRows
  <2>3. StepsFollow'
    BY <1>1, <1>2 DEF StepsFollow, OnlySteps
  <2>4. \A j \in DOMAIN mReqs : j = k
    BY <1>0, <1>2, <2>1 DEF Quiet, UnderWayAlone
  <2>5. OneEdit(mReqs[k])
    BY <1>0, <1>2, <2>1 DEF RowsFollow, EditFollows
  <2>6. OneEdit(r)'
    BY <2>5
  <2>7. EditFollows'
    BY <1>1, <2>4, <2>6 DEF EditFollows
  <2> QED
    BY <2>2, <2>3, <2>7
<1> QED
  BY <1>1, <1>3 DEF MembersInv

\* A promotion or demotion goes on, and the rows follow what it did.
LEMMA MembersStepGoesOn ==
    ASSUME MembersInv, NEW k, NEW r, MembersChange(k, r), mReqs[k].kind \in Members!Steps,
           Quiet' => Follows(mRows', mLevel', mReqs') /\ mLinked' = mLinked
    PROVE  MembersInv'
<1>0. Members!TypeOK /\ ReqsKnown /\ UnderWayAlone /\ RowsFollow
  BY DEF MembersInv
<1>1. /\ Members!TypeOK' /\ ReqsKnown' /\ UnderWayAlone'
      /\ DOMAIN mReqs' = DOMAIN mReqs /\ mReqs'[k] = r
      /\ \A j \in DOMAIN mReqs : j # k => mReqs'[j] = mReqs[j]
  BY MembersChangeKeeps
<1>2. /\ k \in DOMAIN mReqs /\ mRows' = mRows /\ mDialogs' = mDialogs
      /\ mOverlap' = mOverlap /\ (mLost => mLost') /\ mFields' = mFields
      /\ mSelected' = mSelected
      /\ r.kind = mReqs[k].kind /\ r.i = mReqs[k].i /\ r.who = mReqs[k].who
  BY DEF MembersChange
<1>3. RowsFollow'
  <2> SUFFICES ASSUME Quiet'
               PROVE  DialogsAtRows' /\ StepsFollow' /\ EditFollows'
    BY DEF RowsFollow
  <2>1. Quiet
    BY <1>2 DEF Quiet
  <2>2. DialogsAtRows'
    BY <1>0, <1>2, <2>1 DEF RowsFollow, DialogsAtRows
  <2>3. OnlySteps
    BY <1>0, <1>2, <2>1 DEF Quiet, UnderWayAlone, OnlySteps
  <2>4. mFields = mLinked /\ \A j \in DOMAIN mReqs : AtRow(mReqs[j])
    BY <1>0, <2>1, <2>3 DEF RowsFollow, StepsFollow
  <2>5. \A j \in DOMAIN mReqs' : mReqs'[j].kind \in Members!Steps
    BY <1>1, <1>2, <2>3 DEF OnlySteps
  <2>6. \A j \in DOMAIN mReqs' : AtRow(mReqs[j])'
    BY <1>1, <1>2, <2>4 DEF AtRow, RowOf
  <2>7. StepsFollow'
    BY <1>2, <2>4, <2>6 DEF StepsFollow
  <2>8. EditFollows'
    BY <2>5 DEF EditFollows, Members!Steps
  <2> QED
    BY <2>2, <2>7, <2>8
<1> QED
  BY <1>1, <1>3 DEF MembersInv

\* The counts are numbers.
LEMMA UnansweredTyped ==
    ASSUME NEW q \in Seq(Members!Req), NEW kind, NEW p
    PROVE  Unanswered(q, kind, p) \in Nat
<1>1. IsFiniteSet(1..Len(q)) /\ Places(q, Made(kind, p)) \subseteq 1..Len(q)
  BY FS_Interval DEF Places
<1>2. IsFiniteSet(Places(q, Made(kind, p)))
  BY <1>1, FS_Subset
<1> QED
  BY <1>2, FS_CardinalityType DEF Unanswered

\* Serving a promotion or demotion adds it to its own count and to no other ...
LEMMA ServedCounts ==
    ASSUME MembersInv, NEW k, NEW r, MembersChange(k, r),
           mReqs[k].at = "sent", r.at = "done", NEW kind, NEW p
    PROVE  Unanswered(mReqs', kind, p)
              = IF r.kind = kind /\ r.who = p THEN Unanswered(mReqs, kind, p) + 1
                ELSE Unanswered(mReqs, kind, p)
<1>1. mReqs \in Seq(Members!Req) /\ k \in DOMAIN mReqs /\ r \in Members!Req
  BY DEF MembersInv, Members!TypeOK, MembersChange
<1>2. mReqs[k] \notin Made(kind, p)
  BY DEF Made
<1>3. CASE r.kind = kind /\ r.who = p
  <2>1. r \in Made(kind, p)
    BY <1>1, <1>3 DEF Made
  <2>2. Cardinality(Places([mReqs EXCEPT ![k] = r], Made(kind, p)))
           = Cardinality(Places(mReqs, Made(kind, p))) + 1
    BY <1>1, <1>2, <2>1, ReplaceCount
  <2>3. mReqs' = [mReqs EXCEPT ![k] = r]
    BY DEF MembersChange
  <2>4. Unanswered(mReqs', kind, p) = Unanswered(mReqs, kind, p) + 1
    BY <2>2, <2>3, Zenon DEF Unanswered
  <2> QED
    BY <1>3, <2>4
<1>4. CASE ~(r.kind = kind /\ r.who = p)
  <2>1. r \notin Made(kind, p)
    BY <1>4 DEF Made
  <2>2. Places(mReqs', Made(kind, p)) = Places(mReqs, Made(kind, p))
    BY <1>1, <1>2, <2>1, MembersChangeKeeps DEF Places
  <2> QED
    BY <1>4, <2>2 DEF Unanswered
<1> QED
  BY <1>3, <1>4

\* ... and refusing it to none.
LEMMA RefusedCounts ==
    ASSUME MembersInv, NEW k, NEW r, MembersChange(k, r),
           mReqs[k].at = "sent", r.at = "refused", NEW kind, NEW p
    PROVE  Unanswered(mReqs', kind, p) = Unanswered(mReqs, kind, p)
<1>1. k \in DOMAIN mReqs
  BY DEF MembersChange
<1>2. mReqs[k] \notin Made(kind, p) /\ r \notin Made(kind, p)
  BY DEF Made
<1>3. Places(mReqs', Made(kind, p)) = Places(mReqs, Made(kind, p))
  BY <1>1, <1>2, MembersChangeKeeps DEF Places
<1> QED
  BY <1>3 DEF Unanswered

\* What the server does keeps its list a list of people with their states.
LEMMA ServerTyped ==
    ASSUME Members!TypeOK, NEW r \in Members!Req, r.kind # "unlink" => r.who \in People,
           Members!Does(r)
    PROVE  /\ DOMAIN mLevel' \subseteq People
           /\ \A p \in DOMAIN mLevel' : mLevel'[p] \in Members!Levels
           /\ mLinked' \subseteq Providers
<1>0. /\ DOMAIN mLevel \subseteq People /\ \A p \in DOMAIN mLevel : mLevel[p] \in 0..3
      /\ mLinked \subseteq Providers
  BY DEF Members!TypeOK, Members!Levels
<1>1. CASE r.kind = "promote" /\ Members!PromoteGroupMember(r.who) /\ UNCHANGED mLinked
  <2>1. /\ r.who \in DOMAIN mLevel /\ mLevel[r.who] > 0
        /\ mLevel' = [mLevel EXCEPT ![r.who] = mLevel[r.who] - 1]
    BY <1>1 DEF Members!PromoteGroupMember
  <2>2. mLevel[r.who] - 1 \in 0..3
    BY <1>0, <2>1
  <2>3. DOMAIN mLevel' = DOMAIN mLevel /\ \A p \in DOMAIN mLevel : mLevel'[p] \in 0..3
    BY <1>0, <2>1, <2>2
  <2> QED
    BY <1>0, <1>1, <2>3 DEF Members!Levels
<1>2. CASE r.kind = "demote" /\ Members!DemoteGroupMember(r.who) /\ UNCHANGED mLinked
  <2>1. /\ r.who \in DOMAIN mLevel /\ mLevel[r.who] < 2
        /\ mLevel' = [mLevel EXCEPT ![r.who] = mLevel[r.who] + 1]
    BY <1>2 DEF Members!DemoteGroupMember, Members!Member
  <2>2. mLevel[r.who] + 1 \in 0..3
    BY <1>0, <2>1
  <2>3. DOMAIN mLevel' = DOMAIN mLevel /\ \A p \in DOMAIN mLevel : mLevel'[p] \in 0..3
    BY <1>0, <2>1, <2>2
  <2> QED
    BY <1>0, <1>2, <2>3 DEF Members!Levels
<1>3. CASE r.kind \in {"delete", "device"} /\ mLevel' = Members!Without(mLevel, r.who)
           /\ UNCHANGED mLinked
  BY <1>0, <1>3 DEF Members!Levels, Members!Without
<1>4. ASSUME NEW ps \in SUBSET People, NEW n \in 0..3, mLevel' = Members!With(mLevel, ps, n),
             UNCHANGED mLinked
      PROVE  /\ DOMAIN mLevel' \subseteq People
             /\ \A p \in DOMAIN mLevel' : mLevel'[p] \in Members!Levels
             /\ mLinked' \subseteq Providers
  BY <1>0, <1>4 DEF Members!With, Members!Levels
<1>5. CASE mLinked' = mLinked \ {r.who} /\ UNCHANGED mLevel
  BY <1>0, <1>5 DEF Members!Levels
<1>6. CASE UNCHANGED <<mLevel, mLinked>>
  BY <1>0, <1>6 DEF Members!Levels
<1>7. r.ids \in SUBSET People /\ 0 \in 0..3 /\ 2 \in 0..3 /\ 3 \in 0..3
  BY DEF Members!Req
<1>8. CASE Members!AddGroupUsers(r.ids) /\ UNCHANGED mLinked
  <2>1. PICK new \in SUBSET (r.ids \ DOMAIN mLevel) :
           mLevel' = Members!With(mLevel, new \cup {p \in r.ids \cap DOMAIN mLevel : mLevel[p] = 3}, 2)
    BY <1>8 DEF Members!AddGroupUsers, Members!JoinRequest, Members!Member
  <2>2. (new \cup {p \in r.ids \cap DOMAIN mLevel : mLevel[p] = 3}) \in SUBSET People
    BY <1>7
  <2> QED
    BY <1>4, <1>7, <1>8, <2>1, <2>2
<1>9. CASE Members!JoinGroup(r.ids) /\ UNCHANGED mLinked
  <2>1. PICK new \in SUBSET (r.ids \ DOMAIN mLevel), n \in {2, 3} : mLevel' = Members!With(mLevel, new, n)
    BY <1>9 DEF Members!JoinGroup, Members!JoinRequest, Members!Member
  <2>2. new \in SUBSET People /\ n \in 0..3
    BY <1>7
  <2> QED
    BY <1>4, <1>9, <2>1, <2>2
<1>10. CASE r.kind = "add" /\ Members!AddUser(r.who) /\ UNCHANGED mLinked
  <2>1. PICK n \in {0, 2} : mLevel' = Members!With(mLevel, {r.who}, n)
    BY <1>10 DEF Members!AddUser, Members!Member
  <2>2. {r.who} \in SUBSET People /\ n \in 0..3
    BY <1>10
  <2> QED
    BY <1>4, <1>10, <2>1, <2>2
<1> QED
  BY <1>1, <1>2, <1>3, <1>5, <1>6, <1>8, <1>9, <1>10 DEF Members!Does, Members!server

\* Request k is done, with what a listing returns.
MembersDone(k, got) ==
    /\ mReqs[k].at = "sent" /\ Members!Does(mReqs[k])
    /\ got \in IF mReqs[k].kind \in {"list", "refresh"} THEN Members!Listings ELSE {<<>>}
    /\ mReqs' = [mReqs EXCEPT ![k].at = "done", ![k].got = got]
    /\ UNCHANGED <<mView, mRole, mRows, mFields, mSelected, mForm, mOff, mDialogs, mSent,
                   mOverlap, mLost>>

\* What the server does for a request keeps the invariant.
LEMMA MembersServed ==
    ASSUME MembersConstants, MembersInv, NEW k \in DOMAIN mReqs, NEW got, MembersDone(k, got)
    PROVE  MembersInv'
<1>a. /\ mReqs[k].at = "sent" /\ Members!Does(mReqs[k])
      /\ got \in IF mReqs[k].kind \in {"list", "refresh"} THEN Members!Listings ELSE {<<>>}
      /\ UNCHANGED <<mView, mRole, mRows, mFields, mSelected, mForm, mOff, mDialogs, mSent,
                     mOverlap, mLost>>
  BY DEF MembersDone
<1>0. Members!TypeOK /\ ReqsKnown /\ UnderWayAlone /\ RowsFollow
  BY DEF MembersInv
<1>1. /\ mReqs \in Seq(Members!Req) /\ mReqs[k] \in Members!Req
      /\ mReqs[k].kind # "unlink" => mReqs[k].who \in People
  BY <1>0, MembersReqTyped DEF ReqsKnown
<1>2. /\ DOMAIN mLevel \subseteq People /\ \A p \in DOMAIN mLevel : mLevel[p] \in Members!Levels
      /\ mLost \in BOOLEAN
  BY <1>0 DEF Members!TypeOK
<1>3. /\ mReqs[k].kind \in {"list", "refresh"} => Lists(got, mLevel)
      /\ got \in Seq(Members!Row)
  <2>1. CASE mReqs[k].kind \in {"list", "refresh"}
    BY <1>a, <1>2, <2>1, ListingTrue
  <2>2. CASE mReqs[k].kind \notin {"list", "refresh"}
    BY <1>a, <2>2, EmptySeq
  <2> QED
    BY <2>1, <2>2
<1>4. PICK r : r = [mReqs[k] EXCEPT !.at = "done", !.got = got]
  OBVIOUS
<1>5. /\ r \in Members!Req /\ r.kind = mReqs[k].kind /\ r.i = mReqs[k].i
      /\ r.who = mReqs[k].who /\ r.old = mReqs[k].old /\ r.at = "done" /\ r.got = got
  BY <1>1, <1>3, <1>4 DEF Members!Req
<1>6. mReqs' = [mReqs EXCEPT ![k] = r]
  BY <1>1, <1>4 DEF MembersDone
<1>7. /\ DOMAIN mLevel' \subseteq People
      /\ \A p \in DOMAIN mLevel' : mLevel'[p] \in Members!Levels
      /\ mLinked' \subseteq Providers
  BY <1>a, <1>0, <1>1, ServerTyped
<1>8. MembersChange(k, r)
  BY <1>a, <1>2, <1>5, <1>6, <1>7 DEF MembersChange
<1>9. CASE mReqs[k].kind \in Members!Steps
  <2> SUFFICES ASSUME Quiet'
               PROVE  Follows(mRows', mLevel', mReqs') /\ mLinked' = mLinked
    BY <1>8, <1>9, MembersStepGoesOn
  <2>1. Quiet
    BY <1>a DEF Quiet
  <2>2. OnlySteps
    BY <1>0, <1>9, <2>1 DEF Quiet, UnderWayAlone, OnlySteps
  <2>3. Follows(mRows, mLevel, mReqs)
    BY <1>0, <2>1, <2>2 DEF RowsFollow, StepsFollow
  <2>4. /\ mLinked' = mLinked /\ mReqs[k].who \in DOMAIN mLevel
        /\ mLevel' = [mLevel EXCEPT ![mReqs[k].who] = @ + (IF mReqs[k].kind = "promote" THEN -1 ELSE 1)]
    BY <1>a, <1>9 DEF Members!Does, Members!Steps, Members!PromoteGroupMember, Members!DemoteGroupMember
  <2>5. \A p \in DOMAIN mLevel : mLevel[p] \in Int
    BY <1>2 DEF Members!Levels
  <2>6. ASSUME NEW i \in DOMAIN mRows
        PROVE  mRows[i].state = mLevel'[mRows[i].who] + Unanswered(mReqs', "promote", mRows[i].who)
                                - Unanswered(mReqs', "demote", mRows[i].who)
    <3> DEFINE p == mRows[i].who
               up == Unanswered(mReqs, "promote", p)
               down == Unanswered(mReqs, "demote", p)
    <3>1. up \in Nat /\ down \in Nat
      BY <1>1, UnansweredTyped
    <3>2. mRows[i].state = mLevel[p] + up - down /\ p \in DOMAIN mLevel /\ mLevel[p] \in Int
      BY <2>3, <2>5 DEF Follows
    <3>3. Unanswered(mReqs', "promote", p) = IF r.kind = "promote" /\ r.who = p THEN up + 1 ELSE up
      BY <1>a, <1>5, <1>8, ServedCounts
    <3>4. Unanswered(mReqs', "demote", p) = IF r.kind = "demote" /\ r.who = p THEN down + 1 ELSE down
      BY <1>a, <1>5, <1>8, ServedCounts
    <3>5. mLevel'[p] = IF r.who = p THEN mLevel[p] + (IF r.kind = "promote" THEN -1 ELSE 1)
                       ELSE mLevel[p]
      BY <1>5, <2>4, <3>2
    <3>6. r.kind = "promote" \/ r.kind = "demote"
      BY <1>5, <1>9 DEF Members!Steps
    <3> HIDE DEF up, down
    <3>7. mRows[i].state = mLevel'[p] + Unanswered(mReqs', "promote", p)
                           - Unanswered(mReqs', "demote", p)
      BY <3>1, <3>2, <3>3, <3>4, <3>5, <3>6
    <3> QED
      BY <3>7
  <2>7. DOMAIN mLevel' = DOMAIN mLevel
    BY <2>4
  <2>8. Follows(mRows', mLevel', mReqs')
    BY <1>a, <2>3, <2>6, <2>7 DEF Follows
  <2> QED
    BY <2>4, <2>8
<1>10. CASE mReqs[k].kind \notin Members!Steps
  <2> SUFFICES ASSUME Quiet', OneEdit(mReqs[k])
               PROVE  OneEdit(r)'
    BY <1>5, <1>8, <1>10, MembersEditGoesOn
  <2>1. ~(r.kind = "promote" \/ r.kind = "demote")
    BY <1>5, <1>10 DEF Members!Steps
  <2>2. CASE r.kind \in {"delete", "device"}
    <3>1. Lists(mRows, mLevel) /\ AtRow(mReqs[k]) /\ mFields = mLinked
      BY <1>a, <1>5, <2>2 DEF OneEdit
    <3>2. mLevel' = Members!Without(mLevel, mReqs[k].who) /\ mLinked' = mLinked
      BY <1>a, <1>5, <2>2 DEF Members!Does
    <3>3. PICK i : i = RowOf(mReqs[k])
      OBVIOUS
    <3>4. i \in DOMAIN mRows /\ mRows[i].who = r.who /\ (RowOf(r))' = i
      BY <1>a, <1>5, <3>1, <3>3 DEF AtRow, RowOf
    <3>5. DOMAIN mLevel' = DOMAIN mLevel \ {r.who} /\ \A p \in DOMAIN mLevel' : mLevel'[p] = mLevel[p]
      BY <1>a, <1>5, <3>2 DEF Members!Without
    <3>6. ListsBut(mRows, mLevel', i)
      <4>1. Once(mRows) /\ \A j \in DOMAIN mRows : mRows[j].who \in DOMAIN mLevel /\ mRows[j].state = mLevel[mRows[j].who]
        BY <3>1 DEF Lists
      <4>2. \A j \in DOMAIN mRows \ {i} : mRows[j].who \in DOMAIN mLevel'
        BY <3>4, <3>5, <4>1 DEF Once
      <4>3. \A j \in DOMAIN mRows \ {i} : mRows[j].state = mLevel'[mRows[j].who]
        BY <3>5, <4>1, <4>2
      <4>4. \A p \in DOMAIN mLevel' : \E j \in DOMAIN mRows \ {i} : mRows[j].who = p
        BY <3>1, <3>4, <3>5 DEF Lists
      <4>5. DOMAIN mLevel' = {mRows[j].who : j \in DOMAIN mRows \ {i}}
        BY <4>2, <4>4
      <4> QED
        BY <3>4, <4>1, <4>3, <4>5 DEF ListsBut
    <3>7. AtRow(r)'
      BY <1>a, <3>4 DEF AtRow
    <3> QED
      BY <1>a, <1>5, <2>2, <3>1, <3>2, <3>4, <3>6, <3>7 DEF OneEdit
  <2>3. CASE r.kind \in {"add", "join"}
    <3>1. mFields' = mFields /\ mLinked' = mLinked
      BY <1>a, <1>5, <2>3 DEF Members!Does
    <3> QED
      BY <1>a, <1>5, <2>3, <3>1 DEF OneEdit
  <2>4. CASE r.kind = "unlink"
    <3>1. mLinked' = mLinked \ {mReqs[k].who} /\ mLevel' = mLevel
      BY <1>a, <1>5, <2>4 DEF Members!Does
    <3> QED
      BY <1>a, <1>5, <2>4, <3>1 DEF OneEdit
  <2>5. CASE r.kind \in {"list", "refresh"}
    <3>1. mLinked' = mLinked /\ mLevel' = mLevel
      BY <1>a, <1>5, <2>5 DEF Members!Does, Members!server
    <3> QED
      BY <1>a, <1>3, <1>5, <2>5, <3>1 DEF OneEdit
  <2> QED
    BY <1>a, <1>5, <2>1, <2>2, <2>3, <2>4, <2>5 DEF Members!Req, Members!Kinds
<1> QED
  BY <1>9, <1>10

\* Request k is refused, possibly half-way, or done and its answer lost.
MembersFail(k) ==
    /\ mReqs' = [mReqs EXCEPT ![k].at = "refused"]
    /\ \/ /\ mReqs[k].at = "sent"
          /\ mLost' = (mLost \/ mReqs[k].kind \in {"list", "refresh"})
          /\ UNCHANGED <<mLevel, mLinked>>
       \/ /\ mLost' = TRUE
          /\ Members!Does(mReqs[k]) \/ UNCHANGED <<mLevel, mLinked>>
    /\ UNCHANGED <<mView, mRole, mRows, mFields, mSelected, mForm, mOff, mDialogs, mSent,
                   mOverlap>>

\* A refusal, or an answer that is lost, keeps the invariant.
LEMMA MembersFailed ==
    ASSUME MembersInv, NEW k \in DOMAIN mReqs, MembersFail(k)
    PROVE  MembersInv'
<1>a. UNCHANGED <<mView, mRole, mRows, mFields, mSelected, mForm, mOff, mDialogs, mSent,
                  mOverlap>>
  BY DEF MembersFail
<1>0. Members!TypeOK /\ ReqsKnown /\ UnderWayAlone /\ RowsFollow
  BY DEF MembersInv
<1>1. mReqs \in Seq(Members!Req) /\ mReqs[k] \in Members!Req
  BY <1>0, MembersReqTyped
<1>2. PICK r : r = [mReqs[k] EXCEPT !.at = "refused"]
  OBVIOUS
<1>3. /\ r \in Members!Req /\ r.kind = mReqs[k].kind /\ r.i = mReqs[k].i
      /\ r.who = mReqs[k].who /\ r.old = mReqs[k].old /\ r.at = "refused"
  BY <1>1, <1>2 DEF Members!Req
<1>4. mReqs' = [mReqs EXCEPT ![k] = r]
  BY <1>1, <1>2 DEF MembersFail
<1>5. mLost' \in BOOLEAN /\ (mLost => mLost')
  BY <1>0 DEF Members!TypeOK, MembersFail
<1>b. /\ DOMAIN mLevel' \subseteq People
      /\ \A p \in DOMAIN mLevel' : mLevel'[p] \in Members!Levels
      /\ mLinked' \subseteq Providers
  <2>1. CASE Members!Does(mReqs[k])
    BY <1>0, <1>1, <2>1, ServerTyped DEF ReqsKnown
  <2>2. CASE UNCHANGED <<mLevel, mLinked>>
    BY <1>0, <2>2 DEF Members!TypeOK
  <2> QED
    BY <2>1, <2>2 DEF MembersFail
<1>6. MembersChange(k, r)
  BY <1>a, <1>b, <1>3, <1>4, <1>5 DEF MembersChange
<1>7. ASSUME Quiet'
      PROVE  /\ Quiet /\ mReqs[k].at = "sent" /\ mReqs[k].kind \notin {"list", "refresh"}
             /\ UNCHANGED <<mLevel, mLinked>>
  BY <1>a, <1>5, <1>7 DEF Quiet, MembersFail
<1>8. CASE mReqs[k].kind \in Members!Steps
  <2> SUFFICES ASSUME Quiet'
               PROVE  Follows(mRows', mLevel', mReqs')
    BY <1>6, <1>7, <1>8, MembersStepGoesOn
  <2>1. OnlySteps
    BY <1>0, <1>7, <1>8 DEF Quiet, UnderWayAlone, OnlySteps
  <2>2. Follows(mRows, mLevel, mReqs)
    BY <1>0, <1>7, <2>1 DEF RowsFollow, StepsFollow
  <2>3. ASSUME NEW kind, NEW p PROVE Unanswered(mReqs', kind, p) = Unanswered(mReqs, kind, p)
    BY <1>3, <1>6, <1>7, RefusedCounts
  <2> QED
    BY <1>a, <1>7, <2>2, <2>3 DEF Follows
<1>9. CASE mReqs[k].kind \notin Members!Steps
  <2> SUFFICES ASSUME Quiet', OneEdit(mReqs[k])
               PROVE  OneEdit(r)'
    BY <1>3, <1>6, <1>9, MembersEditGoesOn
  <2>1. (RowOf(r))' = RowOf(mReqs[k])
    BY <1>a, <1>3 DEF RowOf
  <2>2. AtRow(r)' <=> AtRow(mReqs[k])
    BY <1>a, <1>3, <2>1 DEF AtRow
  <2> QED
    BY <1>a, <1>3, <1>7, <2>2 DEF OneEdit
<1> QED
  BY <1>8, <1>9

\* Answer k of an edit is followed by the request for the list.
LEMMA MembersFollowed ==
    ASSUME MembersInv, NEW k \in DOMAIN mReqs, NEW next \in {"list", "refresh"},
           mReqs[k].kind \in {"delete", "add", "join"},
           next = "list" \/ mView = "members",
           mReqs' = [mReqs EXCEPT ![k] = [@ EXCEPT !.kind = next, !.at = "sent"]],
           UNCHANGED <<mView, mRole, mLevel, mLinked, mRows, mFields, mSelected, mForm, mOff,
                       mDialogs, mSent, mOverlap, mLost>>
    PROVE  MembersInv'
<1>0. Members!TypeOK
  BY DEF MembersInv
<1>1. mReqs \in Seq(Members!Req) /\ mReqs[k] \in Members!Req
  BY <1>0, MembersReqTyped
<1>2. PICK r : r = [mReqs[k] EXCEPT !.kind = next, !.at = "sent"]
  OBVIOUS
<1>3. /\ r \in Members!Req /\ r.kind = next /\ r.i = mReqs[k].i
      /\ r.who = mReqs[k].who /\ r.old = mReqs[k].old /\ r.at = "sent"
  BY <1>1, <1>2 DEF Members!Req, Members!Kinds
<1>4. mReqs' = [mReqs EXCEPT ![k] = r]
  BY <1>1, <1>2
<1>5. mReqs[k].kind \notin Members!Steps \cup {"unlink"} /\ r.kind \notin Members!Steps
  BY <1>3 DEF Members!Steps
<1>6. MembersChange(k, r)
  BY <1>0, <1>3, <1>4, <1>5 DEF MembersChange, Members!TypeOK
<1>7. OneEdit(mReqs[k]) => OneEdit(r)'
  BY <1>3 DEF OneEdit
<1> QED
  BY <1>5, <1>6, <1>7, MembersEditGoesOn

\* Answer k arrives; the request is gone.
MembersRemove(k) ==
    /\ k \in DOMAIN mReqs
    /\ mReqs' = RemoveAt(mReqs, k)
    /\ mRows' \in Seq(Members!Row) /\ mFields' \subseteq Providers
    /\ mSelected' \in Nat \ {0} /\ mForm' \in BOOLEAN
    /\ mForm => mForm'
    /\ ~mForm' /\ mView = "users" => ~(mReqs[k].i = 0 /\ mReqs[k].kind \in {"add", "list"})
    /\ UNCHANGED <<mView, mRole, mLevel, mLinked, mOff, mDialogs, mSent, mOverlap, mLost>>

\* Types and what is left under way once answer k has come.
LEMMA MembersRemoveKeeps ==
    ASSUME MembersInv, NEW k, MembersRemove(k)
    PROVE  /\ Members!TypeOK' /\ ReqsKnown' /\ UnderWayAlone'
           /\ \A i \in DOMAIN mReqs' : \E j \in DOMAIN mReqs : j # k /\ mReqs'[i] = mReqs[j]
           /\ Quiet /\ mReqs[k].kind \notin Members!Steps => mReqs' = <<>>
           /\ Quiet => mDialogs = <<>> /\ ~mReqs[k].old
<1>0. Members!TypeOK /\ ReqsKnown /\ UnderWayAlone
  BY DEF MembersInv
<1>1. /\ k \in DOMAIN mReqs /\ mReqs' = RemoveAt(mReqs, k)
      /\ UNCHANGED <<mView, mRole, mLevel, mLinked, mOff, mDialogs, mSent, mOverlap, mLost>>
  BY DEF MembersRemove
<1>2. mReqs \in Seq(Members!Req)
  BY <1>0 DEF Members!TypeOK
<1>3. /\ mReqs' \in Seq(Members!Req)
      /\ \A i \in DOMAIN mReqs' : \E j \in DOMAIN mReqs : j # k /\ mReqs'[i] = mReqs[j]
      /\ \A j \in DOMAIN mReqs : j # k => \E i \in DOMAIN mReqs' : mReqs'[i] = mReqs[j]
      /\ \A h, i \in DOMAIN mReqs' : h # i =>
            \E m, n \in DOMAIN mReqs : m # n /\ mReqs'[h] = mReqs[m] /\ mReqs'[i] = mReqs[n]
  BY <1>1, <1>2, RemoveAtRest, RemoveAtTwo
<1>4. Members!TypeOK'
  <2>1. /\ mRows' \in Seq(Members!Row) /\ mFields' \subseteq Providers
        /\ mSelected' \in Nat \ {0} /\ mForm' \in BOOLEAN
    BY DEF MembersRemove
  <2> QED
    BY <1>0, <1>1, <1>3, <2>1 DEF Members!TypeOK
<1>5. ReqsKnown'
  <2>1. \A j \in DOMAIN mReqs' : mReqs'[j].kind # "unlink" => mReqs'[j].who \in People
    BY <1>0, <1>3 DEF ReqsKnown
  <2>2. \A j \in DOMAIN mReqs' : mReqs'[j].old => mView' = "members"
    BY <1>0, <1>1, <1>3 DEF ReqsKnown
  <2>3. ASSUME ~mForm'
        PROVE  /\ mView' = "users"
               /\ \E j \in DOMAIN mReqs' : mReqs'[j].i = 0 /\ mReqs'[j].kind \in {"add", "list"}
    <3>1. ~mForm
      BY <2>3 DEF MembersRemove
    <3>2. mView = "users"
      BY <1>0, <3>1 DEF ReqsKnown
    <3>3. PICK j \in DOMAIN mReqs : mReqs[j].i = 0 /\ mReqs[j].kind \in {"add", "list"}
      BY <1>0, <3>1 DEF ReqsKnown
    <3>4. j # k
      BY <2>3, <3>2, <3>3 DEF MembersRemove
    <3> QED
      BY <1>1, <1>3, <3>2, <3>3, <3>4
  <2> QED
    BY <2>1, <2>2, <2>3 DEF ReqsKnown
<1>6. ~mOverlap => /\ \A j \in DOMAIN mReqs : ~mReqs[j].old
                   /\ \A i, j \in DOMAIN mReqs : i # j => mReqs[j].kind \in Members!Steps
                   /\ mDialogs = <<>>
  <2>1. mReqs # <<>>
    BY <1>1
  <2> QED
    BY <1>0, <2>1 DEF UnderWayAlone
<1>7. UnderWayAlone'
  <2> SUFFICES ASSUME ~mOverlap'
               PROVE  /\ \A j \in DOMAIN mReqs' : ~mReqs'[j].old
                      /\ \A i, j \in DOMAIN mReqs' : i # j => mReqs'[j].kind \in Members!Steps
                      /\ mDialogs' = <<>>
    BY DEF UnderWayAlone, Members!Steps
  <2> QED
    BY <1>1, <1>3, <1>6
<1>8. Quiet /\ mReqs[k].kind \notin Members!Steps => mReqs' = <<>>
  <2> SUFFICES ASSUME Quiet, mReqs[k].kind \notin Members!Steps
               PROVE  mReqs' = <<>>
    OBVIOUS
  <2>1. \A j \in DOMAIN mReqs : j = k
    BY <1>1, <1>6 DEF Quiet
  <2>2. DOMAIN mReqs' = {}
    BY <1>3, <2>1
  <2> QED
    BY <1>3, <2>2
<1>9. Quiet => mDialogs = <<>> /\ ~mReqs[k].old
  BY <1>1, <1>6 DEF Quiet
<1> QED
  BY <1>3, <1>4, <1>5, <1>7, <1>8, <1>9

\* With nothing under way and no dialog open the rows need only be the server's list.
LEMMA NothingUnderWay ==
    ASSUME Members!TypeOK', mReqs' = <<>>, mDialogs' = <<>>, Lists(mRows', mLevel'),
           mFields' = mLinked'
    PROVE  DialogsAtRows' /\ StepsFollow' /\ EditFollows'
<1>1. \A p \in DOMAIN mLevel' : mLevel'[p] \in Int
  BY DEF Members!TypeOK, Members!Levels
<1>2. Follows(mRows', mLevel', mReqs')
  BY <1>1, NothingUnanswered
<1>3. DOMAIN mReqs' = {} /\ DOMAIN mDialogs' = {}
  OBVIOUS
<1> QED
  BY <1>2, <1>3 DEF DialogsAtRows, StepsFollow, EditFollows

\* The answer of an edit that was under way alone.
LEMMA MembersLastAnswer ==
    ASSUME MembersInv, NEW k, MembersRemove(k), mReqs[k].kind \notin Members!Steps,
           Quiet /\ OneEdit(mReqs[k]) => Lists(mRows', mLevel) /\ mFields' = mLinked
    PROVE  MembersInv'
<1>1. RowsFollow /\ k \in DOMAIN mReqs
  BY DEF MembersInv, MembersRemove
<1>2. UNCHANGED <<mLevel, mLinked, mDialogs, mOverlap, mLost>>
  BY DEF MembersRemove
<1>3. /\ Members!TypeOK' /\ ReqsKnown' /\ UnderWayAlone'
      /\ Quiet => mReqs' = <<>> /\ mDialogs = <<>>
  BY MembersRemoveKeeps
<1>4. RowsFollow'
  <2> SUFFICES ASSUME Quiet'
               PROVE  DialogsAtRows' /\ StepsFollow' /\ EditFollows'
    BY DEF RowsFollow
  <2>1. Quiet
    BY <1>2 DEF Quiet
  <2>2. OneEdit(mReqs[k])
    BY <1>1, <2>1 DEF RowsFollow, EditFollows
  <2>3. Lists(mRows', mLevel') /\ mFields' = mLinked' /\ mReqs' = <<>> /\ mDialogs' = <<>>
    BY <1>2, <1>3, <2>1, <2>2
  <2> QED
    BY <1>3, <2>3, NothingUnderWay
<1> QED
  BY <1>3, <1>4 DEF MembersInv

\* The answer of a promotion or a demotion; others may be under way.
LEMMA MembersStepAnswer ==
    ASSUME MembersInv, NEW k, MembersRemove(k), mReqs[k].kind \in Members!Steps,
           mFields' = mFields, mSelected' = mSelected, DOMAIN mRows' = DOMAIN mRows,
           \A i \in DOMAIN mRows : mRows'[i].who = mRows[i].who,
           Quiet /\ Follows(mRows, mLevel, mReqs) /\ AtRow(mReqs[k])
              => Follows(mRows', mLevel, mReqs')
    PROVE  MembersInv'
<1>0. UnderWayAlone /\ RowsFollow /\ k \in DOMAIN mReqs
  BY DEF MembersInv, MembersRemove
<1>1. UNCHANGED <<mLevel, mLinked, mDialogs, mOverlap, mLost>>
  BY DEF MembersRemove
<1>2. /\ Members!TypeOK' /\ ReqsKnown' /\ UnderWayAlone'
      /\ \A i \in DOMAIN mReqs' : \E j \in DOMAIN mReqs : j # k /\ mReqs'[i] = mReqs[j]
      /\ Quiet => mDialogs = <<>>
  BY MembersRemoveKeeps
<1>3. RowsFollow'
  <2> SUFFICES ASSUME Quiet'
               PROVE  DialogsAtRows' /\ StepsFollow' /\ EditFollows'
    BY DEF RowsFollow
  <2>1. Quiet
    BY <1>1 DEF Quiet
  <2>2. OnlySteps
    BY <1>0, <2>1 DEF Quiet, UnderWayAlone, OnlySteps
  <2>3. /\ Follows(mRows, mLevel, mReqs) /\ mFields = mLinked
        /\ \A j \in DOMAIN mReqs : AtRow(mReqs[j])
    BY <1>0, <2>1, <2>2 DEF RowsFollow, StepsFollow
  <2>4. Follows(mRows', mLevel', mReqs')
    BY <1>0, <1>1, <2>1, <2>3
  <2>5. \A i \in DOMAIN mReqs' : AtRow(mReqs[i])' /\ mReqs'[i].kind \in Members!Steps
    <3> TAKE i \in DOMAIN mReqs'
    <3>1. PICK j \in DOMAIN mReqs : mReqs'[i] = mReqs[j]
      BY <1>2
    <3>2. AtRow(mReqs[j]) /\ mReqs[j].kind \in Members!Steps
      BY <2>2, <2>3 DEF OnlySteps
    <3> QED
      BY <3>1, <3>2 DEF AtRow, RowOf
  <2>6. StepsFollow'
    BY <1>1, <2>3, <2>4, <2>5 DEF StepsFollow
  <2>7. EditFollows'
    BY <2>5 DEF EditFollows, Members!Steps
  <2>8. DialogsAtRows'
    <3>1. mDialogs' = <<>>
      BY <1>1, <1>2, <2>1
    <3>2. DOMAIN mDialogs' = {}
      BY <3>1
    <3> QED
      BY <3>2 DEF DialogsAtRows
  <2> QED
    BY <2>6, <2>7, <2>8
<1> QED
  BY <1>2, <1>3 DEF MembersInv

\* Taking out the row that is too much leaves the server's list.
LEMMA RowTakenOut ==
    ASSUME NEW rs \in Seq(Members!Row), NEW lv, NEW i, ListsBut(rs, lv, i)
    PROVE  Lists(RemoveAt(rs, i), lv)
<1>1. /\ i \in DOMAIN rs /\ Once(rs)
      /\ \A j \in DOMAIN rs : j # i => rs[j].who \in DOMAIN lv /\ rs[j].state = lv[rs[j].who]
      /\ \A p \in DOMAIN lv : \E j \in DOMAIN rs : j # i /\ rs[j].who = p
  BY DEF ListsBut
<1> DEFINE w == RemoveAt(rs, i)
<1>2. /\ \A h \in DOMAIN w : \E j \in DOMAIN rs : j # i /\ w[h] = rs[j]
      /\ \A j \in DOMAIN rs : j # i => \E h \in DOMAIN w : w[h] = rs[j]
      /\ \A g, h \in DOMAIN w : g # h =>
            \E m, n \in DOMAIN rs : m # n /\ w[g] = rs[m] /\ w[h] = rs[n]
  BY <1>1, RemoveAtRest, RemoveAtTwo
<1> HIDE DEF w
<1>3. Once(w)
  <2> SUFFICES ASSUME NEW g \in DOMAIN w, NEW h \in DOMAIN w, w[g].who = w[h].who, g # h
               PROVE  FALSE
    BY DEF Once
  <2>1. PICK m, n \in DOMAIN rs : m # n /\ w[g] = rs[m] /\ w[h] = rs[n]
    BY <1>2
  <2> QED
    BY <1>1, <2>1 DEF Once
<1>4. \A h \in DOMAIN w : w[h].who \in DOMAIN lv /\ w[h].state = lv[w[h].who]
  BY <1>1, <1>2
<1>5. \A p \in DOMAIN lv : \E h \in DOMAIN w : w[h].who = p
  <2> TAKE p \in DOMAIN lv
  <2>1. PICK j \in DOMAIN rs : j # i /\ rs[j].who = p
    BY <1>1
  <2>2. PICK h \in DOMAIN w : w[h] = rs[j]
    BY <1>2, <2>1
  <2> QED
    BY <2>1, <2>2
<1>6. Lists(w, lv)
  BY <1>3, <1>4, <1>5 DEF Lists
<1> QED
  BY <1>6 DEF w

\* An error, or an answer to a page that is gone: the rows stay.
LEMMA MembersUnheard ==
    ASSUME MembersInv, NEW k, MembersRemove(k), mReqs[k].at = "refused" \/ mReqs[k].old,
           UNCHANGED <<mRows, mFields, mSelected>>
    PROVE  MembersInv'
<1>0. Members!TypeOK /\ k \in DOMAIN mReqs /\ mReqs' = RemoveAt(mReqs, k)
  BY DEF MembersInv, MembersRemove
<1>1. Quiet => mReqs[k].at = "refused"
  BY MembersRemoveKeeps
<1>2. CASE mReqs[k].kind \in Members!Steps
  <2> SUFFICES ASSUME Quiet, Follows(mRows, mLevel, mReqs)
               PROVE  Follows(mRows', mLevel, mReqs')
    BY <1>2, MembersStepAnswer
  <2>1. mReqs \in Seq(Members!Req)
    BY <1>0 DEF Members!TypeOK
  <2>2. ASSUME NEW kind, NEW p PROVE Unanswered(mReqs', kind, p) = Unanswered(mReqs, kind, p)
    <3>1. mReqs[k] \notin Made(kind, p)
      BY <1>1 DEF Made
    <3>2. Cardinality(Places(RemoveAt(mReqs, k), Made(kind, p)))
             = Cardinality(Places(mReqs, Made(kind, p)))
      BY <1>0, <2>1, <3>1, RemoveAtCount
    <3> QED
      BY <1>0, <3>2 DEF Unanswered
  <2> QED
    BY <2>2 DEF Follows
<1>3. CASE mReqs[k].kind \notin Members!Steps
  <2>1. Quiet /\ OneEdit(mReqs[k]) => Lists(mRows, mLevel) /\ mFields = mLinked
    <3>1. mReqs[k].kind \in {"delete", "device", "add", "join", "unlink", "list", "refresh"}
      BY <1>0, <1>3, MembersReqTyped DEF Members!Kinds, Members!Steps
    <3> QED
      BY <1>1, <3>1 DEF OneEdit
  <2> QED
    BY <1>3, <2>1, MembersLastAnswer
<1> QED
  BY <1>2, <1>3

\* The answer of a delete takes the row out.
LEMMA MembersDeleted ==
    ASSUME MembersInv, NEW k, MembersRemove(k), mReqs[k].kind \in {"delete", "device"},
           mReqs[k].at = "done", mRows' = Members!splice(mRows, RowOf(mReqs[k])),
           mFields' = mFields
    PROVE  MembersInv'
<1>0. mRows \in Seq(Members!Row) /\ k \in DOMAIN mReqs
  BY DEF MembersInv, Members!TypeOK, MembersRemove
<1>1. mReqs[k].kind \notin Members!Steps
  BY DEF Members!Steps
<1>2. ASSUME Quiet, OneEdit(mReqs[k])
      PROVE  Lists(mRows', mLevel) /\ mFields' = mLinked
  <2>1. ListsBut(mRows, mLevel, RowOf(mReqs[k])) /\ mFields = mLinked
    BY <1>2 DEF OneEdit
  <2>2. RowOf(mReqs[k]) \in DOMAIN mRows
    BY <2>1 DEF ListsBut
  <2>3. mRows' = RemoveAt(mRows, RowOf(mReqs[k]))
    BY <2>2, MembersLibrary DEF Members!splice
  <2>4. Lists(RemoveAt(mRows, RowOf(mReqs[k])), mLevel)
    BY <1>0, <2>1, RowTakenOut
  <2> QED
    BY <2>1, <2>3, <2>4
<1> QED
  BY <1>1, <1>2, MembersLastAnswer

\* The answer of a promotion or demotion changes the state in the row.
LEMMA MembersBumped ==
    ASSUME MembersInv, NEW k, MembersRemove(k), mReqs[k].kind \in Members!Steps,
           mReqs[k].at = "done",
           mRows' = Members!Bump(mRows, mReqs[k].i, IF mReqs[k].kind = "promote" THEN -1 ELSE 1),
           UNCHANGED <<mFields, mSelected>>
    PROVE  MembersInv'
<1>0. Members!TypeOK /\ k \in DOMAIN mReqs /\ mReqs' = RemoveAt(mReqs, k)
  BY DEF MembersInv, MembersRemove
<1>1. mReqs \in Seq(Members!Req) /\ mRows \in Seq(Members!Row) /\ mReqs[k] \in Members!Req
  BY <1>0 DEF Members!TypeOK
<1> DEFINE by == IF mReqs[k].kind = "promote" THEN -1 ELSE 1
<1>2. by \in Int
  OBVIOUS
<1>3. \A i \in DOMAIN mRows : mRows[i] \in Members!Row /\ mRows[i].state \in Int
  <2>1. \A i \in DOMAIN mRows : mRows[i] \in Members!Row
    BY <1>1
  <2>2. \A x \in Members!Row : x.state \in Int
    BY DEF Members!Row
  <2> QED
    BY <2>1, <2>2
<1>4. /\ DOMAIN mRows' = DOMAIN mRows
      /\ \A i \in DOMAIN mRows :
            /\ mRows'[i].who = mRows[i].who
            /\ mRows'[i].state = IF i = mReqs[k].i THEN mRows[i].state + by ELSE mRows[i].state
  <2>1. CASE mReqs[k].i \in DOMAIN mRows
    <3>1. mRows' = [mRows EXCEPT ![mReqs[k].i].state = @ + by]
      BY <2>1 DEF Members!Bump
    <3> QED
      BY <1>1, <1>3, <2>1, <3>1 DEF Members!Row
  <2>2. CASE mReqs[k].i \notin DOMAIN mRows
    BY <2>2 DEF Members!Bump
  <2> QED
    BY <2>1, <2>2
<1>5. mReqs[k].kind = "promote" \/ mReqs[k].kind = "demote"
  BY DEF Members!Steps
<1>6. ASSUME Follows(mRows, mLevel, mReqs), AtRow(mReqs[k])
      PROVE  Follows(mRows', mLevel, mReqs')
  <2>1. mReqs[k].i \in DOMAIN mRows /\ mRows[mReqs[k].i].who = mReqs[k].who /\ Once(mRows)
    BY <1>5, <1>6 DEF AtRow, RowOf, Follows
  <2>2. ASSUME NEW kind, NEW p
        PROVE  /\ Unanswered(mReqs, kind, p) \in Nat
               /\ Unanswered(mReqs', kind, p)
                     = IF mReqs[k].kind = kind /\ mReqs[k].who = p
                       THEN Unanswered(mReqs, kind, p) - 1 ELSE Unanswered(mReqs, kind, p)
    <3>1. Unanswered(mReqs, kind, p) \in Nat
      BY <1>1, UnansweredTyped
    <3>2. CASE mReqs[k].kind = kind /\ mReqs[k].who = p
      <4>1. mReqs[k] \in Made(kind, p)
        BY <1>1, <3>2 DEF Made
      <4>2. Cardinality(Places(RemoveAt(mReqs, k), Made(kind, p)))
               = Cardinality(Places(mReqs, Made(kind, p))) - 1
        BY <1>0, <1>1, <4>1, RemoveAtCountLess
      <4> QED
        BY <1>0, <3>1, <3>2, <4>2 DEF Unanswered
    <3>3. CASE ~(mReqs[k].kind = kind /\ mReqs[k].who = p)
      <4>1. mReqs[k] \notin Made(kind, p)
        BY <3>3 DEF Made
      <4>2. Cardinality(Places(RemoveAt(mReqs, k), Made(kind, p)))
               = Cardinality(Places(mReqs, Made(kind, p)))
        BY <1>0, <1>1, <4>1, RemoveAtCount
      <4> QED
        BY <1>0, <3>1, <3>3, <4>2 DEF Unanswered
    <3> QED
      BY <3>2, <3>3
  <2>3. ASSUME NEW i \in DOMAIN mRows
        PROVE  /\ mRows'[i].who \in DOMAIN mLevel
               /\ mRows'[i].state = mLevel[mRows'[i].who]
                     + Unanswered(mReqs', "promote", mRows'[i].who)
                     - Unanswered(mReqs', "demote", mRows'[i].who)
    <3>1. PICK p : p = mRows[i].who
      OBVIOUS
    <3>2. mRows'[i].who = p /\ p \in DOMAIN mLevel /\ mLevel[p] \in Int
      BY <1>0, <1>4, <1>6, <3>1, LevelsAreNumbers DEF Follows
    <3>3. PICK up, down, upn, downn :
             /\ up = Unanswered(mReqs, "promote", p) /\ down = Unanswered(mReqs, "demote", p)
             /\ upn = Unanswered(mReqs', "promote", p) /\ downn = Unanswered(mReqs', "demote", p)
      OBVIOUS
    <3>4. /\ up \in Nat /\ down \in Nat
          /\ upn = IF mReqs[k].kind = "promote" /\ mReqs[k].who = p THEN up - 1 ELSE up
          /\ downn = IF mReqs[k].kind = "demote" /\ mReqs[k].who = p THEN down - 1 ELSE down
      BY <2>2, <3>3
    <3>5. mRows[i].state = mLevel[p] + up - down
      BY <1>6, <3>1, <3>3 DEF Follows
    <3>6. i = mReqs[k].i <=> mReqs[k].who = p
      BY <2>1, <3>1 DEF Once
    <3>7. mRows'[i].state = mLevel[p] + upn - downn
      BY <1>4, <1>5, <3>2, <3>4, <3>5, <3>6
    <3> QED
      BY <3>2, <3>3, <3>7
  <2>4. Once(mRows')
    BY <1>4, <2>1 DEF Once
  <2>5. \A p \in DOMAIN mLevel : \E i \in DOMAIN mRows' : mRows'[i].who = p
    BY <1>4, <1>6 DEF Follows
  <2> QED
    BY <1>4, <2>3, <2>4, <2>5 DEF Follows
<1> QED
  BY <1>4, <1>6, MembersStepAnswer

\* The answer of a listing replaces the rows.
LEMMA MembersListed ==
    ASSUME MembersInv, NEW k, MembersRemove(k), mReqs[k].kind = "list", mReqs[k].at = "done",
           mRows' = mReqs[k].got, mFields' = mFields
    PROVE  MembersInv'
<1>1. mReqs[k].kind \notin Members!Steps
  BY DEF Members!Steps
<1>2. Quiet /\ OneEdit(mReqs[k]) => Lists(mRows', mLevel) /\ mFields' = mLinked
  BY DEF OneEdit
<1> QED
  BY <1>1, <1>2, MembersLastAnswer

\* The answer of an unlink takes the identity off the page.
LEMMA MembersUnlinked ==
    ASSUME MembersInv, NEW k, MembersRemove(k), mReqs[k].kind = "unlink", mReqs[k].at = "done",
           mFields' = mFields \ {mReqs[k].who}, mRows' = mRows
    PROVE  MembersInv'
<1>1. mReqs[k].kind \notin Members!Steps
  BY DEF Members!Steps
<1>2. Quiet /\ OneEdit(mReqs[k]) => Lists(mRows', mLevel) /\ mFields' = mLinked
  BY DEF OneEdit
<1> QED
  BY <1>1, <1>2, MembersLastAnswer

\* What splice and Bump return is a list of rows.
LEMMA MemberRowsTyped ==
    ASSUME NEW rs \in Seq(Members!Row), NEW i, NEW by \in Int
    PROVE  Members!splice(rs, i) \in Seq(Members!Row) /\ Members!Bump(rs, i, by) \in Seq(Members!Row)
<1>1. CASE i \in DOMAIN rs
  <2>1. RemoveAt(rs, i) \in Seq(Members!Row)
    BY <1>1, RemoveAtRest
  <2>2. Members!splice(rs, i) = RemoveAt(rs, i)
    BY <1>1, MembersLibrary DEF Members!splice
  <2>3. rs[i] \in Members!Row
    BY <1>1
  <2>4. [rs[i] EXCEPT !.state = @ + by] \in Members!Row
    BY <2>3 DEF Members!Row
  <2>5. [rs EXCEPT ![i] = [rs[i] EXCEPT !.state = @ + by]] \in Seq(Members!Row)
    BY <1>1, <2>4
  <2>6. Members!Bump(rs, i, by) = [rs EXCEPT ![i] = [rs[i] EXCEPT !.state = @ + by]]
    BY <1>1 DEF Members!Bump
  <2> QED
    BY <2>1, <2>2, <2>5, <2>6
<1>2. CASE i \notin DOMAIN rs
  BY <1>2 DEF Members!splice, Members!Bump
<1> QED
  BY <1>1, <1>2

\* Answers that leave the rows as they are.
LEMMA MembersErrors ==
    ASSUME MembersInv, NEW k \in DOMAIN mReqs,
           \/ Members!Refused(k) \/ Members!AnsweredLate(k) \/ Members!AddRefused(k)
           \/ Members!UserRefused(k)
    PROVE  MembersInv'
<1>0. Members!TypeOK /\ ReqsKnown
  BY DEF MembersInv
<1> USE DEF Members!Finished, Members!fixed, Members!server, Members!shown
<1>1. /\ mReqs' = RemoveAt(mReqs, k) /\ (mReqs[k].at = "refused" \/ mReqs[k].old)
      /\ UNCHANGED <<mRows, mFields, mSelected>>
      /\ UNCHANGED <<mView, mRole, mLevel, mLinked, mOff, mDialogs, mSent, mOverlap, mLost>>
  <2>1. CASE Members!Refused(k)
    BY <2>1, MembersLibrary DEF Members!Refused
  <2>2. CASE Members!AnsweredLate(k)
    BY <2>2, MembersLibrary DEF Members!AnsweredLate
  <2>3. CASE Members!AddRefused(k)
    BY <2>3, MembersLibrary DEF Members!AddRefused
  <2>4. CASE Members!UserRefused(k)
    BY <2>4, MembersLibrary DEF Members!UserRefused
  <2> QED
    BY <2>1, <2>2, <2>3, <2>4
<1>2. /\ mForm' \in BOOLEAN /\ (mForm => mForm')
      /\ ~mForm' /\ mView = "users" => ~(mReqs[k].i = 0 /\ mReqs[k].kind \in {"add", "list"})
  <2>1. CASE Members!Refused(k)
    BY <1>0, <2>1 DEF Members!Refused, Members!TypeOK
  <2>2. CASE Members!AnsweredLate(k)
    BY <1>0, <2>2 DEF Members!AnsweredLate, Members!TypeOK, ReqsKnown
  <2>3. CASE Members!AddRefused(k)
    BY <1>0, <2>3 DEF Members!AddRefused, Members!TypeOK
  <2>4. CASE Members!UserRefused(k)
    <3>1. mForm' = (mForm \/ mReqs[k].i = 0)
      BY <2>4 DEF Members!UserRefused
    <3> QED
      BY <1>0, <3>1 DEF Members!TypeOK
  <2> QED
    BY <2>1, <2>2, <2>3, <2>4
<1>3. MembersRemove(k)
  BY <1>0, <1>1, <1>2 DEF MembersRemove, Members!TypeOK
<1> QED
  BY <1>1, <1>3, MembersUnheard

\* Answers that take a row out.
LEMMA MembersDeletes ==
    ASSUME MembersInv, NEW k \in DOMAIN mReqs,
           \/ Members!GroupUserDeleted(k) \/ Members!FriendDeleted(k) \/ Members!GroupDeleted(k)
           \/ Members!DeviceUnlinked(k)
    PROVE  MembersInv'
<1>0. Members!TypeOK
  BY DEF MembersInv
<1> USE DEF Members!Finished, Members!fixed, Members!server, Members!Answered
<1>1. /\ mReqs' = RemoveAt(mReqs, k) /\ mReqs[k].at = "done"
      /\ mReqs[k].kind \in {"delete", "device"}
      /\ mRows' = Members!splice(mRows, RowOf(mReqs[k]))
      /\ UNCHANGED <<mView, mRole, mLevel, mLinked, mOff, mDialogs, mSent, mOverlap, mLost,
                     mFields, mForm>>
      /\ mSelected' \in {mSelected, 1}
  <2>1. CASE Members!GroupUserDeleted(k)
    BY <2>1, MembersLibrary DEF Members!GroupUserDeleted, RowOf
  <2>2. CASE Members!FriendDeleted(k)
    BY <2>2, MembersLibrary DEF Members!FriendDeleted, RowOf
  <2>3. CASE Members!GroupDeleted(k)
    BY <2>3, MembersLibrary DEF Members!GroupDeleted, RowOf
  <2>4. CASE Members!DeviceUnlinked(k)
    BY <2>4, MembersLibrary DEF Members!DeviceUnlinked, RowOf
  <2> QED
    BY <2>1, <2>2, <2>3, <2>4
<1>2. mRows' \in Seq(Members!Row)
  <2>1. mRows \in Seq(Members!Row) /\ 0 \in Int
    BY <1>0 DEF Members!TypeOK
  <2>2. Members!splice(mRows, RowOf(mReqs[k])) \in Seq(Members!Row)
    BY <2>1, MemberRowsTyped
  <2> QED
    BY <1>1, <2>2
<1>3. MembersRemove(k)
  BY <1>0, <1>1, <1>2 DEF MembersRemove, Members!TypeOK
<1> QED
  BY <1>1, <1>3, MembersDeleted

\* Answers that change the state in a row.
LEMMA MembersBumps ==
    ASSUME MembersInv, NEW k \in DOMAIN mReqs, Members!Promoted(k) \/ Members!Demoted(k)
    PROVE  MembersInv'
<1>0. Members!TypeOK
  BY DEF MembersInv
<1>1. PICK by : by = IF mReqs[k].kind = "promote" THEN -1 ELSE 1
  OBVIOUS
<1>2. by \in Int
  BY <1>1
<1> USE DEF Members!Finished, Members!fixed, Members!server, Members!Answered
<1>3. /\ mReqs' = RemoveAt(mReqs, k) /\ mReqs[k].at = "done"
      /\ mReqs[k].kind \in Members!Steps
      /\ mRows' = Members!Bump(mRows, mReqs[k].i, by)
      /\ UNCHANGED <<mView, mRole, mLevel, mLinked, mOff, mDialogs, mSent, mOverlap, mLost,
                     mFields, mSelected, mForm>>
  <2>1. CASE Members!Promoted(k)
    BY <1>1, <2>1, MembersLibrary DEF Members!Promoted, Members!Steps
  <2>2. CASE Members!Demoted(k)
    BY <1>1, <2>2, MembersLibrary DEF Members!Demoted, Members!Steps
  <2> QED
    BY <2>1, <2>2
<1>4. mRows' \in Seq(Members!Row)
  <2>1. mRows \in Seq(Members!Row)
    BY <1>0 DEF Members!TypeOK
  <2>2. Members!Bump(mRows, mReqs[k].i, by) \in Seq(Members!Row)
    BY <1>2, <2>1, MemberRowsTyped
  <2> QED
    BY <1>3, <2>2
<1>5. MembersRemove(k)
  BY <1>0, <1>3, <1>4 DEF MembersRemove, Members!TypeOK, Members!Steps
<1> QED
  BY <1>1, <1>3, <1>5, MembersBumped

\* The list of the users arrives, an identity is unlinked.
LEMMA MembersOthers ==
    ASSUME MembersInv, NEW k \in DOMAIN mReqs, Members!UsersListed(k) \/ Members!Unlinked(k)
    PROVE  MembersInv'
<1>0. Members!TypeOK /\ mReqs[k].got \in Seq(Members!Row)
  BY MembersReqTyped DEF MembersInv
<1> USE DEF Members!Finished, Members!fixed, Members!server, Members!Answered
<1>1. CASE Members!UsersListed(k)
  <2>1. /\ mReqs' = RemoveAt(mReqs, k) /\ mReqs[k].at = "done" /\ mReqs[k].kind = "list"
        /\ mRows' = mReqs[k].got /\ mForm' = (mForm \/ mReqs[k].i = 0)
        /\ UNCHANGED <<mView, mRole, mLevel, mLinked, mOff, mDialogs, mSent, mOverlap, mLost,
                       mFields, mSelected>>
    BY <1>1, MembersLibrary DEF Members!UsersListed
  <2>2. /\ mForm' \in BOOLEAN /\ (mForm => mForm')
        /\ ~mForm' => mReqs[k].i # 0
    BY <1>0, <2>1 DEF Members!TypeOK
  <2>3. MembersRemove(k)
    BY <1>0, <2>1, <2>2 DEF MembersRemove, Members!TypeOK
  <2> QED
    BY <2>1, <2>3, MembersListed
<1>2. CASE Members!Unlinked(k)
  <2>1. /\ mReqs' = RemoveAt(mReqs, k) /\ mReqs[k].at = "done" /\ mReqs[k].kind = "unlink"
        /\ mFields' = mFields \ {mReqs[k].who}
        /\ UNCHANGED <<mView, mRole, mLevel, mLinked, mOff, mDialogs, mSent, mOverlap, mLost,
                       mRows, mForm, mSelected>>
    BY <1>2, MembersLibrary DEF Members!Unlinked
  <2>2. MembersRemove(k)
    BY <1>0, <2>1 DEF MembersRemove, Members!TypeOK
  <2> QED
    BY <2>1, <2>2, MembersUnlinked
<1> QED
  BY <1>1, <1>2

\* The page of the members is built anew; what was under way is the old page's.
LEMMA MembersRebuilt ==
    ASSUME MembersInv, NEW k \in DOMAIN mReqs, Members!GroupMembersResolver(k)
    PROVE  MembersInv'
<1>0. Members!TypeOK /\ ReqsKnown /\ UnderWayAlone /\ RowsFollow
  BY DEF MembersInv
<1>1. PICK rest : rest = RemoveAt(mReqs, k)
  OBVIOUS
<1>2. /\ mView = "members" /\ mReqs[k].kind = "refresh" /\ mReqs[k].at = "done"
      /\ mRows' = mReqs[k].got /\ mOff' = {}
      /\ mReqs' = [j \in DOMAIN rest |-> [rest[j] EXCEPT !.old = TRUE]]
      /\ UNCHANGED <<mView, mRole, mLevel, mLinked, mFields, mSelected, mForm, mDialogs, mSent,
                     mOverlap, mLost>>
  BY <1>1, MembersLibrary DEF Members!GroupMembersResolver, Members!fixed, Members!server
<1>3. /\ mReqs \in Seq(Members!Req) /\ mReqs[k].got \in Seq(Members!Row)
  BY <1>0, MembersReqTyped
<1>4. /\ rest \in Seq(Members!Req)
      /\ \A i \in DOMAIN rest : \E j \in DOMAIN mReqs : j # k /\ rest[i] = mReqs[j]
  BY <1>1, <1>3, RemoveAtRest
<1>5. /\ mReqs' \in Seq(Members!Req) /\ DOMAIN mReqs' = DOMAIN rest
      /\ \A i \in DOMAIN rest : mReqs'[i].kind = rest[i].kind /\ mReqs'[i].who = rest[i].who
  <2>1. \A i \in DOMAIN rest : rest[i] \in Members!Req
    BY <1>4
  <2>2. \A x \in Members!Req : /\ [x EXCEPT !.old = TRUE] \in Members!Req
                               /\ [x EXCEPT !.old = TRUE].kind = x.kind
                               /\ [x EXCEPT !.old = TRUE].who = x.who
    BY DEF Members!Req
  <2>3. /\ DOMAIN mReqs' = DOMAIN rest
        /\ \A i \in DOMAIN rest : mReqs'[i] = [rest[i] EXCEPT !.old = TRUE]
    BY <1>2
  <2>4. mReqs' \in [1..Len(rest) -> Members!Req] /\ Len(rest) \in Nat
    BY <1>2, <1>4, <2>1, <2>2
  <2>5. mReqs' \in Seq(Members!Req)
    BY <2>4
  <2> QED
    BY <2>1, <2>2, <2>3, <2>5
<1>6. Members!TypeOK'
  BY <1>0, <1>2, <1>3, <1>5 DEF Members!TypeOK
<1>7. ReqsKnown'
  <2>1. mForm
    BY <1>0, <1>2 DEF ReqsKnown
  <2>2. \A j \in DOMAIN mReqs' : mReqs'[j].kind # "unlink" => mReqs'[j].who \in People
    BY <1>0, <1>4, <1>5 DEF ReqsKnown
  <2> QED
    BY <1>2, <2>1, <2>2 DEF ReqsKnown
<1>8. ASSUME ~mOverlap
      PROVE  mReqs' = <<>> /\ mDialogs' = <<>>
  <2>1. \A j \in DOMAIN mReqs : j = k
    BY <1>0, <1>2, <1>8 DEF UnderWayAlone, Members!Steps
  <2>2. DOMAIN mReqs' = {}
    BY <1>4, <1>5, <2>1
  <2>3. mReqs' = <<>>
    BY <1>5, <2>2
  <2>4. mReqs # <<>>
    OBVIOUS
  <2>5. mDialogs = <<>>
    BY <1>0, <1>8, <2>4 DEF UnderWayAlone
  <2> QED
    BY <1>2, <2>3, <2>5
<1>9. UnderWayAlone'
  <2> SUFFICES ASSUME ~mOverlap'
               PROVE  /\ \A j \in DOMAIN mReqs' : ~mReqs'[j].old
                      /\ \A i, j \in DOMAIN mReqs' : i # j => mReqs'[j].kind \in Members!Steps
                      /\ mDialogs' = <<>>
    BY DEF UnderWayAlone, Members!Steps
  <2>1. mReqs' = <<>> /\ mDialogs' = <<>>
    BY <1>2, <1>8
  <2>2. DOMAIN mReqs' = {}
    BY <2>1
  <2> QED
    BY <2>1, <2>2
<1>10. RowsFollow'
  <2> SUFFICES ASSUME Quiet'
               PROVE  DialogsAtRows' /\ StepsFollow' /\ EditFollows'
    BY DEF RowsFollow
  <2>1. Quiet /\ mReqs' = <<>> /\ mDialogs' = <<>>
    BY <1>2, <1>8 DEF Quiet
  <2>2. OneEdit(mReqs[k])
    BY <1>0, <1>2, <2>1 DEF RowsFollow, EditFollows, Members!Steps
  <2>3. Lists(mReqs[k].got, mLevel) /\ mFields = mLinked
    BY <1>2, <2>2 DEF OneEdit
  <2>4. Lists(mRows', mLevel') /\ mFields' = mLinked'
    BY <1>2, <2>3
  <2> QED
    BY <1>6, <2>1, <2>4, NothingUnderWay
<1> QED
  BY <1>6, <1>7, <1>9, <1>10 DEF MembersInv

\* Nothing happens, nothing changes.
LEMMA MembersStutter ==
    ASSUME MembersInv, UNCHANGED membersVars
    PROVE  MembersInv'
<1>1. UNCHANGED <<mView, mRole, mLevel, mLinked, mRows, mFields, mOff, mSelected, mForm,
                  mDialogs, mReqs, mSent, mOverlap, mLost>>
  BY DEF membersVars
<1>2. Members!TypeOK' /\ ReqsKnown' /\ UnderWayAlone'
  BY <1>1 DEF MembersInv, Members!TypeOK, ReqsKnown, UnderWayAlone
<1>3. RowsFollow'
  BY <1>1 DEF MembersInv, RowsFollow, Quiet, DialogsAtRows, StepsFollow, OnlySteps, EditFollows,
              OneEdit, AtRow, RowOf
<1> QED
  BY <1>2, <1>3 DEF MembersInv

\* Every click keeps the invariant.
LEMMA MembersClicks ==
    ASSUME MembersConstants, MembersInv, Members!Clicks
    PROVE  MembersInv'
<1>1. ASSUME NEW r, MembersSend(r) PROVE MembersInv'
  BY <1>1, MembersSent
<1>2. ASSUME NEW i \in DOMAIN mRows,
             \/ Members!deleteGroupUser(i) \/ Members!demoteGroupUser(i)
             \/ Members!promoteGroupUser(i) \/ Members!deleteUser(i)
      PROVE  MembersInv'
  BY <1>1, <1>2, MembersSends
<1>3. ASSUME NEW i \in DOMAIN mRows,
             Members!deleteFriend(i) \/ Members!deleteGroup(i) \/ Members!selectDevice(i)
      PROVE  MembersInv'
  BY <1>3, MembersTouches, MembersTouched DEF Members!deleteFriend, Members!deleteGroup
<1>4. ASSUME \/ \E ids \in SUBSET People, activeState \in {"Add Member", "Join"} :
                Members!add(ids, activeState)
             \/ \E p \in People : Members!addUser(p)
      PROVE  MembersInv'
  BY <1>1, <1>4, MembersSends
<1>5. ASSUME NEW d \in DOMAIN mDialogs, Members!Confirm(d)
      PROVE  MembersInv'
  BY <1>1, <1>5, MembersConfirms
<1>6. ASSUME NEW d \in DOMAIN mDialogs, Members!Cancel(d)
      PROVE  MembersInv'
  BY <1>6, MembersTouches, MembersTouched
<1>7. CASE Members!unlinkDeviceId
  BY <1>1, <1>7, MembersSends
<1>8. ASSUME NEW p, Members!unlink(p)
      PROVE  MembersInv'
  <2>1. p \in Providers
    BY <1>8 DEF Members!unlink, MembersInv, Members!TypeOK
  <2> QED
    BY <1>1, <1>8, <2>1, MembersSends
<1> QED
  BY <1>2, <1>3, <1>4, <1>5, <1>6, <1>7, <1>8
     DEF Members!Clicks, Members!unlinkCustomID, Members!unlinkFacebook,
         Members!unlinkFacebookInstantGames, Members!unlinkApple, Members!unlinkGameCenter,
         Members!unlinkGoogle, Members!unlinkSteam

\* Every step of the server and every answer keep the invariant.
LEMMA MembersNetwork ==
    ASSUME MembersConstants, MembersInv, Members!Network
    PROVE  MembersInv'
<1>1. PICK k \in DOMAIN mReqs :
         \/ Members!Serve(k) \/ Members!Lose(k) \/ Members!Refused(k) \/ Members!AnsweredLate(k)
         \/ Members!GroupUserDeleted(k) \/ Members!Demoted(k) \/ Members!Promoted(k)
         \/ Members!Added(k) \/ Members!AddRefused(k) \/ Members!GroupMembersResolver(k)
         \/ Members!FriendDeleted(k) \/ Members!GroupDeleted(k)
         \/ Members!UserEdited(k) \/ Members!UsersListed(k) \/ Members!UserRefused(k)
         \/ Members!DeviceUnlinked(k) \/ Members!Unlinked(k)
  BY DEF Members!Network
<1>2. CASE Members!Serve(k)
  <2>1. (\E got : MembersDone(k, got)) \/ MembersFail(k)
    BY <1>2 DEF Members!Serve, MembersDone, MembersFail, Members!fixed, Members!server, Members!shown
  <2> QED
    BY <2>1, MembersServed, MembersFailed
<1>3. CASE Members!Lose(k)
  <2>1. MembersFail(k)
    BY <1>3 DEF Members!Lose, MembersFail, Members!fixed, Members!server, Members!shown
  <2> QED
    BY <2>1, MembersFailed
<1>4. CASE \/ Members!Refused(k) \/ Members!AnsweredLate(k) \/ Members!AddRefused(k)
           \/ Members!UserRefused(k)
  BY <1>4, MembersErrors
<1>5. CASE \/ Members!GroupUserDeleted(k) \/ Members!FriendDeleted(k) \/ Members!GroupDeleted(k)
           \/ Members!DeviceUnlinked(k)
  BY <1>5, MembersDeletes
<1>6. CASE Members!Promoted(k) \/ Members!Demoted(k)
  BY <1>6, MembersBumps
<1>7. CASE Members!UsersListed(k) \/ Members!Unlinked(k)
  BY <1>7, MembersOthers
<1>8. CASE Members!GroupMembersResolver(k)
  BY <1>8, MembersRebuilt
<1>9. CASE Members!Added(k)
  <2>1. /\ mView = "members" /\ mReqs[k].kind \in {"add", "join"}
        /\ mReqs' = [mReqs EXCEPT ![k] = [@ EXCEPT !.kind = "refresh", !.at = "sent"]]
        /\ UNCHANGED <<mView, mRole, mLevel, mLinked, mRows, mFields, mSelected, mForm, mOff,
                       mDialogs, mSent, mOverlap, mLost>>
    BY <1>9 DEF Members!Added, Members!Answered, Members!fixed, Members!server, Members!shown
  <2> QED
    BY <2>1, MembersFollowed
<1>10. CASE Members!UserEdited(k)
  <2>1. /\ mReqs[k].kind \in {"delete", "add"}
        /\ mReqs' = [mReqs EXCEPT ![k] = [@ EXCEPT !.kind = "list", !.at = "sent"]]
        /\ UNCHANGED <<mView, mRole, mLevel, mLinked, mRows, mFields, mSelected, mForm, mOff,
                       mDialogs, mSent, mOverlap, mLost>>
    BY <1>10 DEF Members!UserEdited, Members!Answered, Members!fixed, Members!server, Members!shown
  <2> QED
    BY <2>1, MembersFollowed
<1> QED
  BY <1>1, <1>2, <1>3, <1>4, <1>5, <1>6, <1>7, <1>8, <1>9, <1>10

\* Every step keeps the invariant ...
LEMMA MembersInvStep == MembersInv /\ [Members!Next]_(Members!vars) => MembersInv'
<1> SUFFICES ASSUME MembersInv, [Members!Next]_(Members!vars)
             PROVE  MembersInv'
  OBVIOUS
<1>0. MembersConstants
  BY EditPagesAssumption
<1>1. CASE Members!Next
  BY <1>0, <1>1, MembersClicks, MembersNetwork DEF Members!Next
<1>2. CASE UNCHANGED Members!vars
  <2>1. UNCHANGED membersVars
    BY <1>2 DEF Members!vars, membersVars, Members!fixed, Members!server, Members!shown
  <2> QED
    BY <2>1, MembersStutter
<1> QED
  BY <1>1, <1>2

\* ... and so it always holds.
LEMMA MembersInvariance == Members!Spec => []MembersInv
<1>1. Members!Init => MembersInv
  BY EditPagesAssumption, MembersInit
<1> QED
  BY <1>1, MembersInvStep, PTL DEF Members!Spec

\* The lists edited in place keep their types, whatever the pages, the people and the
\* number of requests under way.
THEOREM MembersTypeCorrect == Members!Spec => []Members!TypeOK
<1>1. MembersInv => Members!TypeOK
  BY DEF MembersInv
<1> QED
  BY <1>1, MembersInvariance, PTL

\* Once nothing is under way the rows are the server's list, though the pages never list
\* again after an edit: the state of a row follows the promotions and demotions whatever the
\* order they were made and answered in, a deleted row is the one that was clicked, and the
\* form of a new user is enabled again whichever of its two requests fails.
THEOREM MembersShownServed == Members!Spec => []ShownIsServed
<1>1. ASSUME MembersInv PROVE ShownIsServed
  <2>1. Members!TypeOK /\ ReqsKnown /\ RowsFollow
    BY <1>1 DEF MembersInv
  <2>2. ASSUME mReqs = <<>>, ~mOverlap, ~mLost
        PROVE  /\ {<<mRows[i].who, mRows[i].state>> : i \in DOMAIN mRows}
                     = {<<p, mLevel[p]>> : p \in DOMAIN mLevel}
               /\ Len(mRows) = Members!Cardinality(DOMAIN mLevel)
               /\ mFields = mLinked
    <3>1. DOMAIN mReqs = {}
      BY <2>2
    <3>2. Follows(mRows, mLevel, mReqs) /\ mFields = mLinked
      BY <2>1, <2>2, <3>1 DEF RowsFollow, Quiet, StepsFollow, OnlySteps
    <3>3. Lists(mRows, mLevel)
      BY <2>1, <2>2, <3>2, LevelsAreNumbers, NothingUnanswered
    <3>4. Len(mRows) = Members!Cardinality(DOMAIN mLevel)
      BY <2>1, <3>3, EditPagesAssumption, ListsCount, MembersLibrary
    <3>5. /\ \A i \in DOMAIN mRows : mRows[i].who \in DOMAIN mLevel /\ mRows[i].state = mLevel[mRows[i].who]
          /\ \A p \in DOMAIN mLevel : \E i \in DOMAIN mRows : mRows[i].who = p /\ mRows[i].state = mLevel[p]
      BY <3>3 DEF Lists
    <3>6. {<<mRows[i].who, mRows[i].state>> : i \in DOMAIN mRows}
             = {<<p, mLevel[p]>> : p \in DOMAIN mLevel}
      BY <3>5
    <3> QED
      BY <3>2, <3>4, <3>6
  <2>3. ~mForm => \E k \in DOMAIN mReqs : mReqs[k].i = 0 /\ mReqs[k].kind \in {"add", "list"}
    BY <2>1 DEF ReqsKnown
  <2> QED
    BY <2>2, <2>3 DEF ShownIsServed, Members!ShownIsServed
<1> QED
  BY <1>1, MembersInvariance, PTL

-----------------------------------------------------------------------------
(* The pages that edit, together.                                          *)

\* The object pages, the lists edited in place and the portal's forms keep their types
\* side by side.
THEOREM EditTypesCorrect == Spec /\ Members!Spec /\ Forms!Spec => []EditTypesOK
<1>1. TypeOK /\ Members!TypeOK /\ Forms!TypeOK => EditTypesOK
  BY DEF EditTypesOK
<1> QED
  BY <1>1, EditorsTypeCorrect, MembersTypeCorrect, FormsTypeCorrect, PTL
=============================================================================
