--------------------------- MODULE ConsoleMembers ---------------------------
(***************************************************************************)
(* The console pages that edit a list in place: the members of a group,    *)
(* the friends and the groups of an account, the users of the console, and *)
(* the identities an account is linked with.  None of them lists again     *)
(* after an edit; the answer changes the row at the position it was clicked *)
(* at, except for the users (a second request lists them) and for members  *)
(* that are added (the router builds the page anew).                       *)
(*                                                                         *)
(* A request is served (the server does it or refuses) and later answered; *)
(* an answer may also get lost, which the page cannot tell from a refusal, *)
(* and members that are to join may be refused half-way.                   *)
(***************************************************************************)
EXTENDS Integers, FiniteSets, SequencesExt

CONSTANTS Views,        \* the pages of this instance
          People,       \* who can be in the list
          Providers,    \* identities besides devices: custom, facebook, ...
          RoleSet,      \* roles of the user
          MaxRequests,  \* bound: dialogs and requests under way
          MaxSent       \* bound: requests sent

Maintainer == 3
Member == 2             \* member states: 0 superadmin, 1 admin, 2 member,
JoinRequest == 3        \* 3 join request; the banned (4) are not listed
Levels == 0 .. 3

VARIABLES
    view, role,
    level,      \* the server's list: a function from who is in it to the state
    linked,     \* identities the server has for the account
    rows,       \* the list on the screen: [who, state]
    fields,     \* identities on the screen
    off,        \* buttons that were switched off by a click (event.target.disabled)
    selected,   \* selected_device_id_index
    form,       \* createUserForm: enabled
    dialogs,    \* delete confirmations that are open: [i, who]
    reqs,       \* requests under way
    sent,       \* history: requests sent so far
    overlap,    \* history: two requests or dialogs were under way at once, not
                \* both of them promotions or demotions, or the selection was moved
    lost        \* history: an answer was lost, a listing refused, or a join refused
                \* when some had joined

server == <<level, linked>>
shown  == <<rows, fields, selected, form>>
fixed  == <<view, role>>
vars   == <<fixed, server, shown, off, dialogs, reqs, sent, overlap, lost>>

Row == [who: People, state: Int]
Kinds == {"promote", "demote", "delete", "add", "join", "list", "refresh", "device", "unlink"}
Req == [kind: Kinds, i: Nat, who: People \cup Providers, ids: SUBSET People, at: {"sent", "done", "refused"},
        got: Seq(Row), old: BOOLEAN]

TypeOK ==
    /\ view \in Views /\ role \in RoleSet
    /\ DOMAIN level \subseteq People /\ \A p \in DOMAIN level : level[p] \in Levels
    /\ linked \subseteq Providers /\ fields \subseteq Providers
    /\ rows \in Seq(Row)
    /\ off \subseteq People \cup Providers \cup {"device"}
    /\ selected \in Nat \ {0} /\ form \in BOOLEAN
    /\ dialogs \in Seq([i: Nat, who: People])
    /\ reqs \in Seq(Req)
    /\ sent \in 0 .. MaxSent /\ overlap \in BOOLEAN /\ lost \in BOOLEAN

-----------------------------------------------------------------------------
(* Sending, serving, losing.                                               *)

Steps == {"promote", "demote"}
Overlaps(kind, open) ==
    \/ open # <<>>
    \/ \E k \in DOMAIN reqs : ~reqs[k].old /\ ~({kind, reqs[k].kind} \subseteq Steps)

Request(kind, i, who, ids) ==
    [kind |-> kind, i |-> i, who |-> who, ids |-> ids, at |-> "sent", got |-> <<>>, old |-> FALSE]
SendTo(kind, i, who, ids) ==
    /\ Len(reqs) + Len(dialogs) < MaxRequests /\ sent < MaxSent
    /\ reqs' = Append(reqs, Request(kind, i, who, ids))
    /\ sent' = sent + 1
    /\ overlap' = (overlap \/ Overlaps(kind, dialogs))
Send(kind, i, who) == SendTo(kind, i, who, {})

\* A request about all of ids.
SendAll(kind, ids) == ids # {} /\ SendTo(kind, 0, CHOOSE p \in ids : TRUE, ids)

\* The server's list, in the order of the members' states; those of the same state
\* come in any order.
Listings ==
    LET orders == Bijection(1 .. Cardinality(DOMAIN level), DOMAIN level)
    IN  {[k \in DOMAIN s |-> [who |-> s[k], state |-> level[s[k]]]] :
            s \in {o \in orders : \A j, k \in DOMAIN o : j < k => level[o[j]] <= level[o[k]]}}

Without(f, p) == [q \in DOMAIN f \ {p} |-> f[q]]
With(f, ps, n) == [q \in DOMAIN f \cup ps |-> IF q \in ps THEN n ELSE f[q]]

\* PromoteGroupMember and DemoteGroupMember of the console server: refused when
\* they would change nothing, or leave the group without a superadmin.
PromoteGroupMember(p) == p \in DOMAIN level /\ level[p] > 0 /\ level' = [level EXCEPT ![p] = @ - 1]
DemoteGroupMember(p) ==
    /\ p \in DOMAIN level /\ level[p] < Member
    /\ \E q \in DOMAIN level \ {p} : level[q] = 0
    /\ level' = [level EXCEPT ![p] = @ + 1]

\* DeleteGroupUser kicks neither somebody who is gone nor the last superadmin (for the
\* groups of an account any refusal may be the latter); UnlinkDevice and DeleteUser
\* mind too, DeleteFriend does not.
MayDelete(p) ==
    \/ view = "friends"
    \/ /\ p \in DOMAIN level
       /\ view = "members" /\ level[p] = 0 => \E q \in DOMAIN level \ {p} : level[q] = 0

\* AddGroupUsers: one transaction, which also accepts those who asked to join.  With
\* join_request set, one JoinGroup after the other, which leaves those who are in the
\* list alone and tells whether the group is open.  The banned stay out of the list,
\* with no error.
AddGroupUsers(ids) ==
    \E new \in SUBSET (ids \ DOMAIN level) :
       level' = With(level, new \cup {p \in ids \cap DOMAIN level : level[p] = JoinRequest}, Member)
JoinGroup(ids) ==
    \E new \in SUBSET (ids \ DOMAIN level), n \in {Member, JoinRequest} : level' = With(level, new, n)
\* AddUser: the user's role comes with the form.
AddUser(p) == p \notin DOMAIN level /\ \E n \in {0, Member} : level' = With(level, {p}, n)

\* What the server does for request r.
Does(r) ==
    \/ r.kind = "promote" /\ PromoteGroupMember(r.who) /\ UNCHANGED linked
    \/ r.kind = "demote" /\ DemoteGroupMember(r.who) /\ UNCHANGED linked
    \/ /\ r.kind \in {"delete", "device"} /\ MayDelete(r.who)
       /\ level' = Without(level, r.who) /\ UNCHANGED linked
    \/ r.kind = "add" /\ view = "members" /\ AddGroupUsers(r.ids) /\ UNCHANGED linked
    \/ r.kind = "join" /\ JoinGroup(r.ids) /\ UNCHANGED linked
    \/ r.kind = "add" /\ view = "users" /\ AddUser(r.who) /\ UNCHANGED linked
    \/ r.kind = "unlink" /\ linked' = linked \ {r.who} /\ UNCHANGED level
    \/ r.kind \in {"list", "refresh"} /\ UNCHANGED server

Serve(k) ==
    /\ k \in DOMAIN reqs /\ reqs[k].at = "sent"
    /\ \/ /\ Does(reqs[k])
          /\ \E got \in IF reqs[k].kind \in {"list", "refresh"} THEN Listings ELSE {<<>>} :
                reqs' = [reqs EXCEPT ![k].at = "done", ![k].got = got]
          /\ UNCHANGED lost
       \/ /\ reqs' = [reqs EXCEPT ![k].at = "refused"]
          /\ lost' = (lost \/ reqs[k].kind \in {"list", "refresh"})
          /\ UNCHANGED server
       \/ /\ reqs[k].kind = "join" /\ Does(reqs[k])
          /\ reqs' = [reqs EXCEPT ![k].at = "refused"]
          /\ lost' = TRUE
    /\ UNCHANGED <<fixed, shown, off, dialogs, sent, overlap>>

\* The request was served, the answer is an error.
Lose(k) ==
    /\ k \in DOMAIN reqs /\ reqs[k].at = "done"
    /\ reqs' = [reqs EXCEPT ![k].at = "refused"]
    /\ lost' = TRUE
    /\ UNCHANGED <<fixed, server, shown, off, dialogs, sent, overlap>>

\* Answer k arrives at the page that asked.
Answered(k, v, kind) ==
    /\ view = v /\ k \in DOMAIN reqs
    /\ reqs[k].kind = kind /\ reqs[k].at = "done" /\ ~reqs[k].old
    /\ UNCHANGED <<fixed, server, off, dialogs, lost>>
Finished(k) == reqs' = RemoveAt(reqs, k) /\ UNCHANGED <<sent, overlap>>

\* ... or at a page that is gone: whatever it does, nobody sees it.
AnsweredLate(k) ==
    /\ k \in DOMAIN reqs /\ reqs[k].old /\ reqs[k].at # "sent"
    /\ Finished(k)
    /\ UNCHANGED <<fixed, server, shown, off, dialogs, lost>>

\* An error is shown in the error line; nothing else is undone.
Refused(k) ==
    /\ k \in DOMAIN reqs /\ reqs[k].at = "refused" /\ ~reqs[k].old
    /\ reqs[k].kind \notin {"add", "join", "list"}
    /\ Finished(k)
    /\ UNCHANGED <<fixed, server, shown, off, dialogs, lost>>

\* Array.splice(i, 1) and members[i].state += by; the latter throws past the end.
splice(s, i) == IF i \in DOMAIN s THEN RemoveAt(s, i) ELSE s
Bump(s, i, by) == IF i \in DOMAIN s THEN [s EXCEPT ![i].state = @ + by] ELSE s

-----------------------------------------------------------------------------
(* GroupMembersComponent.                                                  *)

editionAllowed == role <= Maintainer

\* No dialog; the button of the row goes off.
deleteGroupUser(i) ==
    /\ view = "members" /\ editionAllowed /\ i \in DOMAIN rows /\ rows[i].who \notin off
    /\ Send("delete", i, rows[i].who)
    /\ off' = off \cup {rows[i].who}
    /\ UNCHANGED <<fixed, server, shown, dialogs, lost>>

GroupUserDeleted(k) ==
    /\ Answered(k, "members", "delete") /\ Finished(k)
    /\ rows' = splice(rows, reqs[k].i)
    /\ UNCHANGED <<fields, selected, form>>

\* Arrow down and arrow up stay on while their request is under way.
demoteGroupUser(i) ==
    /\ view = "members" /\ editionAllowed /\ i \in DOMAIN rows
    /\ Send("demote", i, rows[i].who)
    /\ UNCHANGED <<fixed, server, shown, off, dialogs, lost>>

promoteGroupUser(i) ==
    /\ view = "members" /\ editionAllowed /\ i \in DOMAIN rows
    /\ Send("promote", i, rows[i].who)
    /\ UNCHANGED <<fixed, server, shown, off, dialogs, lost>>

\* Mutated: the wrong way.
DemotedUp(k) ==
    /\ Answered(k, "members", "demote") /\ Finished(k)
    /\ rows' = Bump(rows, reqs[k].i, -1)
    /\ UNCHANGED <<fields, selected, form>>
Demoted(k) ==
    /\ Answered(k, "members", "demote") /\ Finished(k)
    /\ rows' = Bump(rows, reqs[k].i, 1)
    /\ UNCHANGED <<fields, selected, form>>

Promoted(k) ==
    /\ Answered(k, "members", "promote") /\ Finished(k)
    /\ rows' = Bump(rows, reqs[k].i, -1)
    /\ UNCHANGED <<fields, selected, form>>

\* The field takes any number of ids; activeState says what is to become of them.
add(ids, activeState) ==
    /\ view = "members" /\ editionAllowed
    /\ SendAll(IF activeState = "Join" THEN "join" ELSE "add", ids)
    /\ UNCHANGED <<fixed, server, shown, off, dialogs, lost>>

\* Added: the page navigates to its own URL, its resolver asks for the members.
Added(k) ==
    /\ \E kind \in {"add", "join"} : Answered(k, "members", kind)
    /\ reqs' = [reqs EXCEPT ![k] = [@ EXCEPT !.kind = "refresh", !.at = "sent"]]
    /\ UNCHANGED <<shown, sent, overlap>>

\* "Refresh the page to see any updates.": the page does not.
AddRefused(k) ==
    /\ view = "members" /\ k \in DOMAIN reqs
    /\ reqs[k].kind \in {"add", "join"} /\ reqs[k].at = "refused" /\ ~reqs[k].old
    /\ Finished(k)
    /\ UNCHANGED <<fixed, server, shown, off, dialogs, lost>>

\* The router builds a new page (shouldReuseRoute is false); what was under way
\* belongs to the old one.
GroupMembersResolver(k) ==
    /\ view = "members" /\ k \in DOMAIN reqs
    /\ reqs[k].kind = "refresh" /\ reqs[k].at = "done" /\ ~reqs[k].old
    /\ rows' = reqs[k].got
    /\ off' = {}
    /\ LET rest == RemoveAt(reqs, k)
       IN  reqs' = [j \in DOMAIN rest |-> [rest[j] EXCEPT !.old = TRUE]]
    /\ UNCHANGED <<fixed, server, fields, selected, form, dialogs, sent, overlap, lost>>

-----------------------------------------------------------------------------
(* FriendsComponent and GroupsComponent of an account.                     *)

Dialog(i) ==
    /\ i \in DOMAIN rows /\ rows[i].who \notin off
    /\ Len(reqs) + Len(dialogs) < MaxRequests
    /\ dialogs' = Append(dialogs, [i |-> i, who |-> rows[i].who])
    /\ overlap' = (overlap \/ Overlaps("delete", dialogs))
    /\ UNCHANGED <<fixed, server, shown, off, reqs, sent, lost>>

\* The callback of the dialog switches the button off and sends the delete.
Confirm(d) ==
    /\ d \in DOMAIN dialogs /\ sent < MaxSent
    /\ dialogs' = RemoveAt(dialogs, d)
    /\ reqs' = Append(reqs, Request("delete", dialogs[d].i, dialogs[d].who, {}))
    /\ sent' = sent + 1
    /\ overlap' = (overlap \/ Overlaps("delete", dialogs'))
    /\ off' = off \cup {dialogs[d].who}
    /\ UNCHANGED <<fixed, server, shown, lost>>

Cancel(d) ==
    /\ d \in DOMAIN dialogs
    /\ dialogs' = RemoveAt(dialogs, d)
    /\ UNCHANGED <<fixed, server, shown, off, reqs, sent, overlap, lost>>

deleteAllowed == role <= Maintainer
deleteFriend(i) == view = "friends" /\ deleteAllowed /\ Dialog(i)
FriendDeleted(k) ==
    /\ Answered(k, "friends", "delete") /\ Finished(k)
    /\ rows' = splice(rows, reqs[k].i)
    /\ UNCHANGED <<fields, selected, form>>

groupDeleteAllowed == role <= Maintainer
deleteGroup(i) == view = "groups" /\ groupDeleteAllowed /\ Dialog(i)
GroupDeleted(k) ==
    /\ Answered(k, "groups", "delete") /\ Finished(k)
    /\ rows' = splice(rows, reqs[k].i)
    /\ UNCHANGED <<fields, selected, form>>

-----------------------------------------------------------------------------
(* UsersComponent: each edit is followed by a request for the whole list.   *)

deleteUser(i) ==
    /\ view = "users" /\ i \in DOMAIN rows
    /\ Send("delete", i, rows[i].who)
    /\ UNCHANGED <<fixed, server, shown, off, dialogs, lost>>

\* The form is disabled while the user is being added; its button is not: a
\* disabled form is not an invalid one.
addUser(p) ==
    /\ view = "users"
    /\ SendAll("add", {p})
    /\ form' = FALSE
    /\ UNCHANGED <<fixed, server, rows, fields, selected, off, dialogs, lost>>

\* mergeMap: the edit is answered, the list is asked for.  The position, which
\* nobody uses any more, tells whose chain it is: 0 for add.
UserEdited(k) ==
    /\ \E kind \in {"delete", "add"} : Answered(k, "users", kind)
    /\ reqs' = [reqs EXCEPT ![k] = [@ EXCEPT !.kind = "list", !.at = "sent"]]
    /\ UNCHANGED <<shown, sent, overlap>>

\* The last answer of addUser, or of deleteUser: only the former has a form to enable.
UsersListed(k) ==
    /\ Answered(k, "users", "list") /\ Finished(k)
    /\ rows' = reqs[k].got
    /\ form' = (form \/ reqs[k].i = 0)
    /\ UNCHANGED <<fields, selected>>

UserRefused(k) ==
    /\ view = "users" /\ k \in DOMAIN reqs /\ reqs[k].at = "refused"
    /\ reqs[k].kind \in {"add", "list"}
    /\ Finished(k)
    /\ form' = (form \/ reqs[k].i = 0)
    /\ UNCHANGED <<fixed, server, rows, fields, selected, off, dialogs, lost>>

-----------------------------------------------------------------------------
(* AuthenticationComponent of an account: devices and other identities.     *)

updateAllowed == role <= Maintainer

\* The device is the one that is selected when the button is clicked ...
unlinkDeviceId ==
    /\ view = "authentication" /\ updateAllowed
    /\ selected \in DOMAIN rows /\ "device" \notin off
    /\ Send("device", 0, rows[selected].who)
    /\ off' = off \cup {"device"}
    /\ UNCHANGED <<fixed, server, shown, dialogs, lost>>

\* Mutated: the selection moves to the row before.
DeviceUnlinkedBack(k) ==
    /\ Answered(k, "authentication", "device") /\ Finished(k)
    /\ rows' = splice(rows, selected)
    /\ selected' = selected - 1
    /\ UNCHANGED <<fields, form>>
\* ... the row the one that is selected when the answer comes.
DeviceUnlinked(k) ==
    /\ Answered(k, "authentication", "device") /\ Finished(k)
    /\ rows' = splice(rows, selected)
    /\ selected' = 1
    /\ UNCHANGED <<fields, form>>

selectDevice(i) ==
    /\ view = "authentication" /\ i \in DOMAIN rows /\ i # selected
    /\ selected' = i
    /\ overlap' = (overlap \/ \E k \in DOMAIN reqs : reqs[k].kind = "device")
    /\ UNCHANGED <<fixed, server, rows, fields, form, off, dialogs, reqs, sent, lost>>

unlink(p) ==
    /\ view = "authentication" /\ updateAllowed /\ p \in fields \ off
    /\ Send("unlink", 0, p)
    /\ off' = off \cup {p}
    /\ UNCHANGED <<fixed, server, shown, dialogs, lost>>

unlinkCustomID == unlink("custom")
unlinkFacebook == unlink("facebook")
unlinkFacebookInstantGames == unlink("facebook_instant_game")
unlinkApple == unlink("apple")
unlinkGameCenter == unlink("gamecenter")
unlinkGoogle == unlink("google")
unlinkSteam == unlink("steam")

Unlinked(k) ==
    /\ Answered(k, "authentication", "unlink") /\ Finished(k)
    /\ fields' = fields \ {reqs[k].who}
    /\ UNCHANGED <<rows, selected, form>>

-----------------------------------------------------------------------------
\* The pages open with what their resolvers were told.
FriendsResolver == rows \in Listings
GroupsResolver == rows \in Listings
UsersResolver == rows \in Listings

Init ==
    /\ view \in Views /\ role \in RoleSet
    /\ \E m \in SUBSET People : level \in [m -> {0, Member}]
    /\ linked = Providers /\ fields = Providers
    /\ CASE view = "friends" -> FriendsResolver
         [] view = "groups" -> GroupsResolver
         [] view = "users" -> UsersResolver
         [] OTHER -> rows \in Listings
    /\ off = {} /\ selected = 1 /\ form = TRUE
    /\ dialogs = <<>> /\ reqs = <<>> /\ sent = 0
    /\ overlap = FALSE /\ lost = FALSE

Clicks ==
    \/ \E i \in DOMAIN rows :
          \/ deleteGroupUser(i) \/ demoteGroupUser(i) \/ promoteGroupUser(i)
          \/ deleteFriend(i) \/ deleteGroup(i) \/ deleteUser(i) \/ selectDevice(i)
    \/ \E ids \in SUBSET People, activeState \in {"Add Member", "Join"} : add(ids, activeState)
    \/ \E p \in People : addUser(p)
    \/ \E d \in DOMAIN dialogs : Confirm(d) \/ Cancel(d)
    \/ unlinkDeviceId
    \/ unlinkCustomID \/ unlinkFacebook \/ unlinkFacebookInstantGames \/ unlinkApple
    \/ unlinkGameCenter \/ unlinkGoogle \/ unlinkSteam

Network ==
    \E k \in DOMAIN reqs :
       \/ Serve(k) \/ Lose(k) \/ Refused(k) \/ AnsweredLate(k)
       \/ GroupUserDeleted(k) \/ Demoted(k) \/ Promoted(k)
       \/ Added(k) \/ AddRefused(k) \/ GroupMembersResolver(k)
       \/ FriendDeleted(k) \/ GroupDeleted(k)
       \/ UserEdited(k) \/ UsersListed(k) \/ UserRefused(k)
       \/ DeviceUnlinked(k) \/ Unlinked(k)

Next == Clicks \/ Network

Spec == Init /\ [][Next]_vars

-----------------------------------------------------------------------------
(* Properties.                                                             *)

\* Once nothing is under way, and unless a delete or a new listing overlapped with
\* another request or dialog, or an answer was lost, a listing failed or a join was
\* refused half-way, every page shows what the server has: the same people, each with
\* the state the server gives him, also after several were added at once, some of them
\* in the list, asking to join or banned.  Promotions and demotions of the same member
\* may overlap at will, whatever the order they are served and answered in, and however
\* many are refused.  The form for new users is never left disabled: it is enabled again
\* by the last answer, whichever of the two requests of addUser fails.
ShownIsServed ==
    /\ reqs = <<>> /\ ~overlap /\ ~lost =>
          /\ {<<rows[i].who, rows[i].state>> : i \in DOMAIN rows}
                = {<<p, level[p]>> : p \in DOMAIN level}
          /\ Len(rows) = Cardinality(DOMAIN level)
          /\ fields = linked
    /\ ~form => \E k \in DOMAIN reqs : reqs[k].i = 0 /\ reqs[k].kind \in {"add", "list"}
=============================================================================
