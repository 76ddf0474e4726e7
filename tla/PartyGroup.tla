----------------------------- MODULE PartyGroup ------------------------------
(***************************************************************************)
(* What a party promises: a bounded group in order of arrival, slots kept  *)
(* for those the leader accepted, and a leader who is the first to come    *)
(* in, then whoever the leader names or, when the leader leaves, the       *)
(* oldest member.  A party without a successor ends; an ended party takes  *)
(* no new slot and no new leader, though sessions already on their way in  *)
(* or out still arrive and leave.                                          *)
(***************************************************************************)
EXTENDS Naturals, FiniteSets, SequencesExt

CONSTANTS Sessions, NoSession, MaxSize

VARIABLES members,   \* oldest first
          slots,     \* sessions a slot is kept for
          lead,      \* the leader, or NoSession
          ended

Init == members = << >> /\ slots = {} /\ lead = NoSession /\ ended = FALSE

Member(s) == \E i \in DOMAIN members : members[i] = s

\* A session with a slot, or any session while there is a place that is not kept.
Fits(s) == s \in slots \/ Len(members) + Cardinality(slots) < MaxSize

\* The leader accepts a session.
Accept(s) ==
    /\ ~ended /\ lead # NoSession
    /\ Fits(s)
    /\ slots' = slots \cup {s}
    /\ UNCHANGED <<members, lead, ended>>

\* A session becomes the youngest member if there is a place for it, or gives back
\* its slot; the first to come in is the leader.
Enter(s) ==
    /\ \/ ~Member(s) /\ Fits(s) /\ members' = Append(members, s) /\ slots' = slots \ {s}
       \/ UNCHANGED members /\ slots' \in {slots, slots \ {s}}
    /\ lead' = lead \/ (lead = NoSession /\ ~ended /\ lead' = s)
    /\ UNCHANGED ended

\* A member leaves, or the leader removes it.  When the leader leaves, the oldest
\* member follows, and without one the party ends.
Leave(s) ==
    /\ \E i \in DOMAIN members : members[i] = s /\ members' = RemoveAt(members, i)
    /\ slots' = slots \ {s}
    /\ \/ UNCHANGED <<lead, ended>>
       \/ /\ lead = s /\ ~ended
          /\ lead' = IF members' = << >> THEN NoSession ELSE Head(members')
          /\ ended' = (members' = << >>)

Promote(s) == ~ended /\ lead # NoSession /\ Member(s) /\ lead' = s /\ UNCHANGED <<members, slots, ended>>

End == ~ended /\ lead # NoSession /\ ended' = TRUE /\ UNCHANGED <<members, slots, lead>>

Next ==
    \/ \E s \in Sessions : Accept(s) \/ Enter(s) \/ Leave(s) \/ Promote(s)
    \/ End

Spec == Init /\ [][Next]_<<members, slots, lead, ended>>
==============================================================================
