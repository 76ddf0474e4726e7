----------------------------- MODULE EditPages ------------------------------
(***************************************************************************)
(* The pages of the console UI that edit, side by side: the object pages   *)
(* of ConsoleEditors, the lists edited in place and the portal's forms.    *)
(* They share no state; each is a component with variables of its own.     *)
(***************************************************************************)
EXTENDS ConsoleEditors, FiniteSets

CONSTANTS MemberViews, People, Providers, MemberRoles,          \* of ConsoleMembers
          MaxRequests, MaxMemberSent,
          Names, Images, Contracts, MaxAttrs, FormVisits        \* of NftForms

VARIABLES
    \* ConsoleMembers:
    mView, mRole, mLevel, mLinked, mRows, mFields, mOff, mSelected, mForm, mDialogs,
    mReqs, mSent, mOverlap, mLost,
    \* NftForms:
    nVisit, nOpen, nItem, nMade, nCopy, nForm, nPreview, nReaders, nError, nLink, nReqs, nSent,
    nRaced, nFailed

membersVars == <<mView, mRole, mLevel, mLinked, mRows, mFields, mOff, mSelected, mForm,
                 mDialogs, mReqs, mSent, mOverlap, mLost>>
formsVars == <<nVisit, nOpen, nItem, nMade, nCopy, nForm, nPreview, nReaders, nError, nLink,
               nReqs, nSent, nRaced, nFailed>>

Members == INSTANCE ConsoleMembers WITH
    Views <- MemberViews, RoleSet <- MemberRoles, MaxSent <- MaxMemberSent,
    view <- mView, role <- mRole, level <- mLevel, linked <- mLinked, rows <- mRows,
    fields <- mFields, off <- mOff, selected <- mSelected, form <- mForm,
    dialogs <- mDialogs, reqs <- mReqs, sent <- mSent, overlap <- mOverlap,
    lost <- mLost

Forms == INSTANCE NftForms WITH
    Visits <- FormVisits, visit <- nVisit, open <- nOpen, item <- nItem, made <- nMade,
    copy <- nCopy, form <- nForm, preview <- nPreview, readers <- nReaders, error <- nError, link <- nLink,
    reqs <- nReqs, sent <- nSent, raced <- nRaced, failed <- nFailed

-----------------------------------------------------------------------------
(* The constants.                                                          *)

\* A list is finite.
MembersConstants == IsFiniteSet(People) /\ MaxMemberSent \in Nat

\* A form has room for an attribute, and no contract is the mark for none.
FormsConstants ==
    /\ FormVisits \subseteq [view: {"create", "detail", "createNft", "updateNft"},
                             serial: BOOLEAN, maxReqs: Nat, maxSent: Nat]
    /\ MaxAttrs \in Nat \ {0}
    /\ Forms!Closed \notin Contracts

ASSUME EditPagesAssumption == MembersConstants /\ FormsConstants

-----------------------------------------------------------------------------
(* Properties.                                                             *)

\* The types of the three modules: what the pages show, the buttons, dialogs and
\* requests under way stay in their domains on every page.
EditTypesOK == TypeOK /\ Members!TypeOK /\ Forms!TypeOK

\* ConsoleMembers: with nothing under way the rows are the server's list, and the form
\* of a new user is usable again.
ShownIsServed == Members!ShownIsServed

\* NftForms: the form holds the image whose preview is shown.
PreviewIsAvatar == Forms!PreviewIsAvatar

\* NftForms: linking a contract changes nothing else of the collection.
LinkKeepsRest == Forms!LinkKeepsRest
=============================================================================
