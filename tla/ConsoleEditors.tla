--------------------------- MODULE ConsoleEditors ---------------------------
(***************************************************************************)
(* The pages of one account, one group and one leaderboard in the console   *)
(* UI.  The page fetches its object once, when it is opened; its tabs are   *)
(* components of their own that fill a form from that copy and save it.     *)
(* The page itself bans, exports and deletes.                               *)
(*                                                                         *)
(* Buttons are switched off while their request is under way, but with       *)
(* event.target, the element that was hit: the button, or the icon or the   *)
(* label inside it, and switching off those does nothing.                   *)
(***************************************************************************)
EXTENDS Integers, SequencesExt

CONSTANTS Views,        \* the pages of this instance
          Values,       \* what a form can hold
          Cleared,      \* one of them: its editor (its e-mail field) left empty
          RoleSet,      \* roles of the user
          MaxReqs,      \* bound: requests under way
          MaxSent,      \* bound: requests sent
          MaxDialogs    \* bound: delete confirmations open at once

Developer == 2
Maintainer == 3

Tabs(v) == CASE v = "account" -> {"profile", "wallet", "authentication"}
             [] v = "group" -> {"details"}
             [] OTHER -> {"readonly"}
AllTabs == {"profile", "wallet", "authentication", "details", "readonly"}

ASSUME EditorsAssumption ==
    /\ Views \subseteq {"account", "group", "leaderboard"}
    /\ RoleSet \subseteq 0 .. 4
    /\ Cleared \in Values /\ MaxReqs \in Nat /\ MaxSent \in Nat /\ MaxDialogs \in Nat

VARIABLES
    view, role,
    server,     \* the object: what each tab edits, and whether it is banned, if it exists
    copy,       \* the page's copy, from its resolver
    page,       \* open, or left
    tab, form,  \* the tab that is open and what its form holds
    updating, updated, error,   \* the tab's alerts
    pageError,  \* the page's own alert
    off,        \* buttons that are off
    dialogs,    \* delete confirmations that are open: the button and what of it was hit
    reqs,       \* requests under way
    sent,       \* history: requests sent
    saved,      \* history: what the last save of this tab sent
    crowd,      \* history: tabs that were left while their save was under way
    mixed,      \* history: a ban and an unban were under way at once
    lost        \* history: an answer was lost

object == <<server, copy>>
alert  == <<updating, updated, error, pageError>>
fixed  == <<view, role>>
vars   == <<fixed, object, page, tab, form, alert, off, dialogs, reqs, sent, saved, crowd, mixed, lost>>

Object == [AllTabs -> Values]
Kinds == {"save", "ban", "unban", "export", "delete"}
Hits == {"button", "inside"}    \* what of a button was hit
Deletes == {"delete", "recorded"}
Dialog == [button: Deletes, hit: Hits]
Req == [kind: Kinds, tab: AllTabs, val: Values, hit: Hits,
        at: {"sent", "done", "refused"}, old: BOOLEAN]

TypeOK ==
    /\ view \in Views /\ role \in RoleSet
    /\ server \in [data: Object, banned: BOOLEAN, exists: BOOLEAN]
    /\ copy \in [data: Object, banned: BOOLEAN]
    /\ page \in {"open", "left"} /\ tab \in Tabs(view) /\ form \in Values
    /\ updating \in BOOLEAN /\ updated \in BOOLEAN
    /\ error \in BOOLEAN /\ pageError \in BOOLEAN
    /\ off \subseteq {"ban", "export"} \cup Deletes
    /\ dialogs \in Seq(Dialog)
    /\ reqs \in Seq(Req) /\ sent \in 0 .. MaxSent /\ saved \in Values
    /\ crowd \subseteq AllTabs /\ mixed \in BOOLEAN /\ lost \in BOOLEAN

-----------------------------------------------------------------------------
(* The server and the network.                                             *)

Send(kind, t, val, h) ==
    /\ Len(reqs) < MaxReqs /\ sent < MaxSent
    /\ reqs' = Append(reqs, [kind |-> kind, tab |-> t, val |-> val, hit |-> h,
                             at |-> "sent", old |-> FALSE])
    /\ sent' = sent + 1

\* A request of the page: it carries nothing of a form.
SendOfPage(kind, h) == Send(kind, "readonly", Cleared, h)

\* UpdateAccount leaves out empty metadata and an empty wallet.
Skips(t, val) == t \in {"profile", "wallet"} /\ val = Cleared

\* UpdateAccount, BanAccount, UnbanAccount and the deletes do not mind that nothing is
\* there; only an e-mail address has to be found to be removed.
FineIfGone(r) ==
    \/ r.kind \in {"ban", "unban", "delete"}
    \/ r.kind = "save" /\ view = "account" /\ ~(r.tab = "authentication" /\ r.val = Cleared)

\* What the console server does for request r.  Empty metadata of a group is no JSON.
Does(r) ==
    /\ server.exists \/ FineIfGone(r)
    /\ ~(r.kind = "save" /\ r.tab = "details" /\ r.val = Cleared)
    /\ server' = CASE ~server.exists \/ r.kind = "export" -> server
                   [] server.exists /\ r.kind = "save" ->
                        IF Skips(r.tab, r.val) THEN server ELSE [server EXCEPT !.data[r.tab] = r.val]
                   [] server.exists /\ r.kind = "ban" -> [server EXCEPT !.banned = TRUE]
                   [] server.exists /\ r.kind = "unban" -> [server EXCEPT !.banned = FALSE]
                   [] server.exists /\ r.kind = "delete" -> [server EXCEPT !.exists = FALSE]

Serve(k) ==
    /\ k \in DOMAIN reqs /\ reqs[k].at = "sent"
    /\ \/ Does(reqs[k]) /\ reqs' = [reqs EXCEPT ![k].at = "done"]
       \/ reqs' = [reqs EXCEPT ![k].at = "refused"] /\ UNCHANGED server
    /\ UNCHANGED <<fixed, copy, page, tab, form, alert, off, dialogs, sent, saved, crowd, mixed, lost>>

\* The request was served, the answer is an error.
Lose(k) ==
    /\ k \in DOMAIN reqs /\ reqs[k].at = "done"
    /\ reqs' = [reqs EXCEPT ![k].at = "refused"]
    /\ lost' = TRUE
    /\ UNCHANGED <<fixed, object, page, tab, form, alert, off, dialogs, sent, saved, crowd, mixed>>

Answered(k, kinds, how) ==
    /\ k \in DOMAIN reqs /\ reqs[k].kind \in kinds /\ reqs[k].at = how /\ ~reqs[k].old
    /\ reqs' = RemoveAt(reqs, k)
    /\ UNCHANGED <<fixed, server, tab, form, dialogs, sent, saved, crowd, mixed, lost>>

\* The answer to a component that is gone.
AnsweredLate(k) ==
    /\ k \in DOMAIN reqs /\ reqs[k].old /\ reqs[k].at # "sent"
    /\ reqs' = RemoveAt(reqs, k)
    /\ UNCHANGED <<fixed, object, page, tab, form, alert, off, dialogs, sent, saved, crowd, mixed, lost>>

-----------------------------------------------------------------------------
(* Tabs: ProfileComponent, WalletComponent (the wallet itself),             *)
(* AuthenticationComponent (e-mail and password), GroupDetailsComponent.    *)

\* ngOnInit and ngAfterViewInit of a tab: the form is filled from the page's copy.
\* A save of the tab that is left behind goes on without it.
Open(t) ==
    /\ page = "open" /\ t \in Tabs(view)
    /\ tab' = t
    /\ form' = copy.data[t] /\ saved' = copy.data[t]
    /\ updating' = FALSE /\ updated' = FALSE /\ error' = FALSE
    /\ reqs' = [k \in DOMAIN reqs |-> IF reqs[k].kind = "save"
                                      THEN [reqs[k] EXCEPT !.old = TRUE] ELSE reqs[k]]
    /\ crowd' = crowd \cup {reqs[k].tab : k \in {j \in DOMAIN reqs : reqs[j].kind = "save"}}
    /\ UNCHANGED <<fixed, object, page, pageError, off, dialogs, sent, mixed, lost>>

ProfileInit == Open("profile")
WalletInit == Open("wallet")
AuthenticationInit == Open("authentication")
GroupDetailsInit == Open("details")
LeaderboardDetailsInit == Open("readonly")

\* Who may use the forms (the tabs' updateAllowed, and with it their readOnly).
updateAllowed == role <= Maintainer

Type(v) ==
    /\ page = "open" /\ updateAllowed /\ tab # "readonly" /\ v # form
    /\ form' = v
    /\ UNCHANGED <<fixed, object, page, tab, alert, off, dialogs, reqs, sent, saved, crowd, mixed, lost>>

\* A save is refused on the spot when the editor's text is not well formed (and
\* when a group would have room for fewer than its members).
SaveInvalid(t) ==
    /\ page = "open" /\ tab = t /\ updateAllowed /\ ~updating
    /\ updated' = FALSE /\ updating' = FALSE /\ error' = TRUE
    /\ UNCHANGED <<fixed, object, page, tab, form, pageError, off, dialogs, reqs, sent,
                   saved, crowd, mixed, lost>>

\* Mutated: the button stays on.
SaveAgain(t) ==
    /\ page = "open" /\ tab = t /\ updateAllowed
    /\ Send("save", t, form, "button")
    /\ saved' = form
    /\ updated' = FALSE /\ updating' = TRUE /\ error' = FALSE
    /\ UNCHANGED <<fixed, object, page, tab, form, pageError, off, dialogs, crowd, mixed, lost>>
Save(t) ==
    /\ page = "open" /\ tab = t /\ updateAllowed /\ ~updating
    /\ Send("save", t, form, "button")
    /\ saved' = form
    /\ updated' = FALSE /\ updating' = TRUE /\ error' = FALSE
    /\ UNCHANGED <<fixed, object, page, tab, form, pageError, off, dialogs, crowd, mixed, lost>>

ProfileUpdateAccount == Save("profile") \/ SaveInvalid("profile")
updateWallet == Save("wallet") \/ SaveInvalid("wallet")
AuthenticationUpdateAccount == Save("authentication")
updateGroup == Save("details") \/ SaveInvalid("details")

Saved(k) ==
    /\ Answered(k, {"save"}, "done")
    /\ updated' = TRUE /\ updating' = FALSE
    /\ UNCHANGED <<copy, page, off, pageError, error>>

SaveFailed(k) ==
    /\ Answered(k, {"save"}, "refused")
    /\ error' = TRUE /\ updating' = FALSE
    /\ UNCHANGED <<copy, page, off, pageError, updated>>

-----------------------------------------------------------------------------
(* AccountComponent, GroupComponent, LeaderboardComponent.                  *)

Off(b, h) == IF h = "button" THEN off \cup {b} ELSE off
Press(b, h) == page = "open" /\ b \notin off /\ off' = Off(b, h)

banAllowed == role <= Maintainer

\* What is asked depends on the copy: an account it has as banned is unbanned.
banUnbanAccount(h) ==
    /\ view = "account" /\ banAllowed /\ Press("ban", h)
    /\ LET kind == IF copy.banned THEN "unban" ELSE "ban"
       IN  /\ SendOfPage(kind, h)
           /\ mixed' = (mixed \/ \E k \in DOMAIN reqs : reqs[k].kind \in {"ban", "unban"} \ {kind})
    /\ pageError' = FALSE
    /\ UNCHANGED <<fixed, object, page, tab, form, updating, updated, error, dialogs, saved,
                   crowd, lost>>

\* What was hit is switched on again when request k is answered.
On(b, k) == IF reqs[k].hit = "button" THEN off \ {b} ELSE off

\* Mutated: an unban marks the account too.
BannedToggled(k) ==
    /\ Answered(k, {"ban", "unban"}, "done")
    /\ copy' = [copy EXCEPT !.banned = TRUE]
    /\ off' = On("ban", k) /\ pageError' = FALSE
    /\ UNCHANGED <<page, updating, updated, error>>
Banned(k) ==
    /\ Answered(k, {"ban", "unban"}, "done")
    /\ copy' = [copy EXCEPT !.banned = (reqs[k].kind = "ban")]
    /\ off' = On("ban", k) /\ pageError' = FALSE
    /\ UNCHANGED <<page, updating, updated, error>>

BanFailed(k) ==
    /\ Answered(k, {"ban", "unban"}, "refused")
    /\ off' = On("ban", k) /\ pageError' = TRUE
    /\ UNCHANGED <<copy, page, updating, updated, error>>

exportAllowed == role <= Maintainer

Export(h) ==
    /\ exportAllowed /\ Press("export", h)
    /\ SendOfPage("export", h)
    /\ pageError' = FALSE
    /\ UNCHANGED <<fixed, object, page, tab, form, updating, updated, error, dialogs, saved,
                   crowd, mixed, lost>>
exportAccount(h) == view = "account" /\ Export(h)
exportGroup(h) == view = "group" /\ Export(h)

Exported(k) ==
    /\ Answered(k, {"export"}, "done") \/ Answered(k, {"export"}, "refused")
    /\ off' = On("export", k) /\ pageError' = (reqs[k].at = "refused")
    /\ UNCHANGED <<copy, page, updating, updated, error>>

\* The confirmation does not block the page: several may be open.
Ask(v, allowed, b, h) ==
    /\ view = v /\ page = "open" /\ allowed /\ b \notin off /\ Len(dialogs) < MaxDialogs
    /\ dialogs' = Append(dialogs, [button |-> b, hit |-> h])
    /\ UNCHANGED <<fixed, object, page, tab, form, alert, off, reqs, sent, saved, crowd, mixed, lost>>

deleteAllowed == role <= Maintainer
leaderboardDeleteAllowed == role <= Developer
\* "Delete" and "Recorded delete"; a group and a leaderboard only have the first.
deleteAccount(b, h) == Ask("account", deleteAllowed, b, h)
deleteGroup(h) == Ask("group", deleteAllowed, "delete", h)
deleteLeaderboard(h) == Ask("leaderboard", leaderboardDeleteAllowed, "delete", h)

Confirm(d) ==
    /\ d \in DOMAIN dialogs /\ dialogs' = RemoveAt(dialogs, d)
    /\ SendOfPage("delete", dialogs[d].hit)
    /\ off' = Off(dialogs[d].button, dialogs[d].hit)
    /\ pageError' = FALSE
    /\ UNCHANGED <<fixed, object, page, tab, form, updating, updated, error, saved, crowd,
                   mixed, lost>>

Cancel(d) ==
    /\ d \in DOMAIN dialogs /\ dialogs' = RemoveAt(dialogs, d)
    /\ UNCHANGED <<fixed, object, page, tab, form, alert, off, reqs, sent, saved, crowd, mixed, lost>>

\* Deleted: the page goes to the list.  An error leaves the delete button off.
Deleted(k) ==
    /\ Answered(k, {"delete"}, "done")
    /\ page' = "left" /\ pageError' = FALSE
    /\ UNCHANGED <<copy, off, updating, updated, error>>

DeleteFailed(k) ==
    /\ Answered(k, {"delete"}, "refused")
    /\ pageError' = TRUE
    /\ UNCHANGED <<copy, page, off, updating, updated, error>>

-----------------------------------------------------------------------------
\* AccountResolver, GroupResolver, LeaderboardResolver: the copy is the object.
Resolve == copy = [data |-> server.data, banned |-> server.banned]
AccountResolver == Resolve
GroupResolver == Resolve
LeaderboardResolver == Resolve

Init ==
    /\ view \in Views /\ role \in RoleSet
    /\ \E b \in BOOLEAN, v \in Values \ {Cleared} :
          server = [data |-> [t \in AllTabs |-> v], banned |-> b, exists |-> TRUE]
    /\ CASE view = "account" -> AccountResolver
         [] view = "group" -> GroupResolver
         [] view = "leaderboard" -> LeaderboardResolver
    /\ page = "open" /\ tab \in Tabs(view) /\ form = copy.data[tab]
    /\ updating = FALSE /\ updated = FALSE /\ error = FALSE /\ pageError = FALSE
    /\ off = {} /\ dialogs = <<>> /\ reqs = <<>> /\ sent = 0
    /\ saved = copy.data[tab] /\ crowd = {} /\ mixed = FALSE /\ lost = FALSE

Next ==
    \/ ProfileInit \/ WalletInit \/ AuthenticationInit \/ GroupDetailsInit \/ LeaderboardDetailsInit
    \/ \E v \in Values : Type(v)
    \/ ProfileUpdateAccount \/ updateWallet \/ AuthenticationUpdateAccount \/ updateGroup
    \/ \E h \in Hits :
          \/ banUnbanAccount(h) \/ exportAccount(h) \/ exportGroup(h)
          \/ deleteGroup(h) \/ deleteLeaderboard(h)
          \/ \E b \in Deletes : deleteAccount(b, h)
    \/ \E d \in DOMAIN dialogs : Confirm(d) \/ Cancel(d)
    \/ \E k \in DOMAIN reqs :
          \/ Serve(k) \/ Lose(k) \/ AnsweredLate(k)
          \/ Saved(k) \/ SaveFailed(k) \/ Banned(k) \/ BanFailed(k) \/ Exported(k)
          \/ Deleted(k) \/ DeleteFailed(k)

Spec == Init /\ [][Next]_vars

-----------------------------------------------------------------------------
(* Properties.                                                             *)

\* "Account was modified successfully.": while a tab shows this, and the object is
\* there, the server has what the tab saved last, unless an earlier visit to the same
\* tab was ended while its save was under way, or the editor of the metadata or of the
\* wallet was left empty: the server skips these and answers as if it had stored them.
\* The button of a tab is off exactly as long as its save is under way: it is never left
\* off, whatever fails, and never on while one could be doubled.
SaveIsShown ==
    /\ updated /\ tab \notin crowd /\ server.exists =>
          server.data[tab] = saved \/ Skips(tab, saved)
    /\ updating <=> \E k \in DOMAIN reqs : reqs[k].kind = "save" /\ ~reqs[k].old

\* When no ban is under way the page knows whether the account is banned, however often
\* the button was hit, wherever it was hit, and in whatever order the requests were
\* served and answered, refused ones among them: unless an answer was lost, or the
\* button, which a hit on its label leaves on, sent an unban while a ban was under way.
BanIsShown ==
    server.exists /\ ~lost /\ ~mixed /\ (\A k \in DOMAIN reqs : reqs[k].kind \notin {"ban", "unban"}) =>
        copy.banned = server.banned

=============================================================================
