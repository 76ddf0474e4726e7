------------------------------ MODULE NftForms ------------------------------
(***************************************************************************)
(* The forms of the LayerG portal's collections and collectibles in the     *)
(* console UI: a new collection, the page of one collection with its link   *)
(* to a smart contract, and the dialogs for a new and for an existing       *)
(* collectible.  Each has a name, an image with a preview and, the dialogs, *)
(* attributes.                                                              *)
(*                                                                         *)
(* Choosing a file reads it for the preview and uploads it; the address    *)
(* of the upload goes into the form when the answer comes, and that is      *)
(* what a save sends.  No button is ever switched off.  A page whose save   *)
(* was answered stays in use until the list it goes to is resolved.         *)
(***************************************************************************)
EXTENDS Naturals, SequencesExt

CONSTANTS Names, Images, Contracts,
          Visits,       \* visits of the forms: [view, serial, maxReqs, maxSent]
          MaxAttrs      \* bound: attributes of a collectible

Empty == ""
Existing == {"detail", "updateNft"}
Pages == {"create", "detail"}       \* the other two are dialogs

VARIABLES
    visit,      \* the form; whether the user acts only while nothing is under way;
                \* bounds: requests under way, requests sent
    open,
    item,       \* the portal's record, of the forms that edit one
    made,       \* how many records the portal has made of this form
    copy,       \* CollectionDetail1Component.collection
    form,       \* name, avatarUrl and number of attributes
    preview,    \* imagePreview
    readers,    \* files that are being read for the preview
    error,
    link,       \* the link contract dialog: closed, or the address in its form
    reqs, sent,
    raced,      \* history: a file was chosen while an answer or a preview was to come
    failed      \* history: an answer was an error

view    == visit.view
Serial  == visit.serial
ReqLimit == visit.maxReqs
SendLimit == visit.maxSent

vars == <<visit, open, item, made, copy, form, preview, readers, error, link, reqs, sent, raced, failed>>

Record == [name: Names \cup {Empty}, image: Images \cup {Empty},
           attrs: 0 .. MaxAttrs, contract: Contracts \cup {Empty}, public: BOOLEAN]
Form == [name: Names \cup {Empty}, image: Images \cup {Empty}, attrs: 0 .. MaxAttrs]
Kinds == {"upload", "read", "save", "publish", "link", "navigate"}
Closed == "closed"

TypeOK ==
    /\ visit \in Visits /\ open \in BOOLEAN
    /\ item \in Record /\ copy \in Record /\ made \in 0 .. SendLimit
    /\ form \in Form /\ preview \in Images \cup {Empty} /\ readers \in Seq(Images) /\ error \in BOOLEAN
    /\ link \in Contracts \cup {Closed, Empty}
    /\ reqs \in Seq([kind: Kinds, rec: Record, at: {"sent", "done", "refused"}])
    /\ sent \in 0 .. SendLimit /\ raced \in BOOLEAN /\ failed \in BOOLEAN

-----------------------------------------------------------------------------
(* The portal.                                                             *)

Send(kind, rec) ==
    /\ Len(reqs) < ReqLimit /\ sent < SendLimit
    /\ reqs' = Append(reqs, [kind |-> kind, rec |-> rec, at |-> "sent"])
    /\ sent' = sent + 1

\* A save and a link replace the record's name and image; only a link carries a contract.
Does(r) ==
    CASE r.kind = "save" /\ view \in Existing ->
            /\ item' = [r.rec EXCEPT !.contract = item.contract, !.public = item.public]
            /\ UNCHANGED made
      [] r.kind = "save" /\ view \notin Existing -> made' = made + 1 /\ UNCHANGED item
      [] r.kind = "link" -> item' = [r.rec EXCEPT !.public = item.public] /\ UNCHANGED made
      [] r.kind = "publish" -> item' = [item EXCEPT !.public = TRUE] /\ UNCHANGED made
      [] OTHER -> UNCHANGED <<item, made>>

\* An error may mean that nothing was done, or that the answer was lost.
Serve(k) ==
    /\ k \in DOMAIN reqs /\ reqs[k].at = "sent"
    /\ \/ /\ Does(reqs[k])
          /\ reqs' = [reqs EXCEPT ![k].at = "done", ![k].rec = IF reqs[k].kind = "read" THEN item ELSE @]
          /\ UNCHANGED failed
       \/ /\ reqs' = [reqs EXCEPT ![k].at = "refused"]
          /\ failed' = TRUE
          /\ Does(reqs[k]) \/ UNCHANGED <<item, made>>
    /\ UNCHANGED <<visit, open, copy, form, preview, readers, error, link, sent, raced>>

Answer(k, kind, how) ==
    /\ k \in DOMAIN reqs /\ reqs[k].kind = kind /\ reqs[k].at = how
    /\ UNCHANGED <<visit, item, made, readers, raced, failed>>

-----------------------------------------------------------------------------
(* Filling the form.                                                       *)

MayAct == open /\ (Serial => reqs = <<>> /\ readers = <<>>)

Type(n) ==
    /\ MayAct /\ link = Closed /\ n # form.name
    /\ form' = [form EXCEPT !.name = n]
    /\ UNCHANGED <<visit, open, item, made, copy, preview, readers, error, link, reqs, sent, raced, failed>>

addAttribute ==
    /\ MayAct /\ view \in {"createNft", "updateNft"} /\ form.attrs < MaxAttrs
    /\ form' = [form EXCEPT !.attrs = @ + 1]
    /\ UNCHANGED <<visit, open, item, made, copy, preview, readers, error, link, reqs, sent, raced, failed>>

removeAttribute ==
    /\ MayAct /\ view \in {"createNft", "updateNft"} /\ form.attrs > 0
    /\ form' = [form EXCEPT !.attrs = @ - 1]
    /\ UNCHANGED <<visit, open, item, made, copy, preview, readers, error, link, reqs, sent, raced, failed>>

\* uploadImage, called from onFileSelected.
uploadImage(i) == Send("upload", [copy EXCEPT !.image = i])

onFileSelected(i) ==
    /\ MayAct /\ link = Closed
    /\ readers' = Append(readers, i)
    /\ uploadImage(i)
    /\ raced' = (raced \/ readers # <<>> \/ \E k \in DOMAIN reqs : reqs[k].kind \in {"upload", "read"})
    /\ UNCHANGED <<visit, open, item, made, copy, form, preview, error, link, failed>>

\* reader.onload; files are read in any order.
onload(f) ==
    /\ f \in DOMAIN readers
    /\ preview' = readers[f]
    /\ readers' = RemoveAt(readers, f)
    /\ UNCHANGED <<visit, open, item, made, copy, form, error, link, reqs, sent, raced, failed>>

CreateFileSelected(i) == view = "create" /\ onFileSelected(i)
DetailFileSelected(i) == view = "detail" /\ onFileSelected(i)
CreateNftFileSelected(i) == view = "createNft" /\ onFileSelected(i)
UpdateNftFileSelected(i) == view = "updateNft" /\ onFileSelected(i)

\* Mutated: the form keeps the address it had.
UploadedNot(k) ==
    /\ Answer(k, "upload", "done")
    /\ reqs' = RemoveAt(reqs, k)
    /\ UNCHANGED <<open, copy, form, preview, error, link, sent>>
Uploaded(k) ==
    /\ Answer(k, "upload", "done")
    /\ form' = [form EXCEPT !.image = reqs[k].rec.image]
    /\ reqs' = RemoveAt(reqs, k)
    /\ UNCHANGED <<open, copy, preview, error, link, sent>>

\* An alert box; the preview stays.  A navigation that fails leaves the page as it is.
UploadFailed(k) ==
    /\ \E kind \in {"upload", "navigate"} : Answer(k, kind, "refused")
    /\ reqs' = RemoveAt(reqs, k)
    /\ UNCHANGED <<open, copy, form, preview, error, link, sent>>

-----------------------------------------------------------------------------
(* Saving.                                                                 *)

\* Validators.required of the form.
valid == form.name # Empty /\ form.image # Empty

Submit(v) ==
    /\ MayAct /\ view = v /\ link = Closed /\ valid
    /\ Send("save", [copy EXCEPT !.name = form.name, !.image = form.image, !.attrs = form.attrs])
    /\ error' = FALSE
    /\ UNCHANGED <<visit, open, item, made, copy, form, preview, readers, link, raced, failed>>

createCollection == Submit("create")
updateCollection == ~copy.public /\ Submit("detail")
createCollectible == Submit("createNft")
updateCollectible == Submit("updateNft")

\* router.navigate(['/collections']): the list's resolver asks, the page stays for now.
Navigate == [kind |-> "navigate", rec |-> copy, at |-> "sent"]

\* The dialog is dismissed; the page goes to the list.
Saved(k) ==
    /\ Answer(k, "save", "done")
    /\ open' = (open /\ view \in Pages)
    /\ reqs' = IF view \in Pages THEN Append(RemoveAt(reqs, k), Navigate) ELSE RemoveAt(reqs, k)
    /\ UNCHANGED <<copy, form, preview, error, link, sent>>

handleBack ==
    /\ MayAct /\ view \in Pages /\ link = Closed
    /\ Send("navigate", copy)
    /\ UNCHANGED <<visit, open, item, made, copy, form, preview, readers, error, link, raced, failed>>

Left(k) ==
    /\ Answer(k, "navigate", "done")
    /\ open' = FALSE
    /\ reqs' = RemoveAt(reqs, k)
    /\ UNCHANGED <<copy, form, preview, error, link, sent>>

Refused(k) ==
    /\ \E kind \in Kinds \ {"upload", "navigate"} : Answer(k, kind, "refused")
    /\ error' = TRUE
    /\ reqs' = RemoveAt(reqs, k)
    /\ UNCHANGED <<open, copy, form, preview, link, sent>>

-----------------------------------------------------------------------------
(* ModalUpdateNftComponent.handleDetail and CollectionDetail1Component.detailCollection. *)

\* The dialog opens empty and is filled when the record comes.
handleDetail(k) ==
    /\ view = "updateNft" /\ Answer(k, "read", "done")
    /\ form' = [name |-> reqs[k].rec.name, image |-> reqs[k].rec.image, attrs |-> reqs[k].rec.attrs]
    /\ preview' = reqs[k].rec.image
    /\ reqs' = RemoveAt(reqs, k)
    /\ UNCHANGED <<open, copy, error, link, sent>>

publicCollection ==
    /\ MayAct /\ view = "detail" /\ link = Closed /\ ~copy.public
    /\ Send("publish", copy)
    /\ UNCHANGED <<visit, open, item, made, copy, form, preview, readers, error, link, raced, failed>>

\* The publication is followed by a read of the collection ...
Published(k) ==
    /\ Answer(k, "publish", "done")
    /\ reqs' = Append(RemoveAt(reqs, k), [kind |-> "read", rec |-> copy, at |-> "sent"])
    /\ UNCHANGED <<open, copy, form, preview, error, link, sent>>

\* ... whose answer fills the form again, but not the preview.
detailCollection(k) ==
    /\ view = "detail" /\ Answer(k, "read", "done")
    /\ copy' = reqs[k].rec
    /\ form' = [form EXCEPT !.name = reqs[k].rec.name, !.image = reqs[k].rec.image]
    /\ reqs' = RemoveAt(reqs, k)
    /\ UNCHANGED <<open, preview, error, link, sent>>

-----------------------------------------------------------------------------
(* ModalLinkContractComponent over the page of a collection.                *)

openLinkContractModal ==
    /\ MayAct /\ view = "detail" /\ link = Closed
    /\ link' = copy.contract
    /\ UNCHANGED <<visit, open, item, made, copy, form, preview, readers, error, reqs, sent, raced, failed>>

TypeContract(c) ==
    /\ MayAct /\ link \notin {Closed, c}
    /\ link' = c
    /\ UNCHANGED <<visit, open, item, made, copy, form, preview, readers, error, reqs, sent, raced, failed>>

dismiss ==
    /\ MayAct /\ link # Closed
    /\ link' = Closed
    /\ UNCHANGED <<visit, open, item, made, copy, form, preview, readers, error, reqs, sent, raced, failed>>

\* Mutated: name and image are the form's.
updateLinkContractForm ==
    /\ MayAct /\ link \in Contracts
    /\ Send("link", [copy EXCEPT !.name = form.name, !.image = form.image, !.contract = link])
    /\ UNCHANGED <<visit, open, item, made, copy, form, preview, readers, error, link, raced, failed>>
\* Name and image are those of the page's copy.
updateLinkContract ==
    /\ MayAct /\ link \in Contracts
    /\ Send("link", [copy EXCEPT !.contract = link])
    /\ UNCHANGED <<visit, open, item, made, copy, form, preview, readers, error, link, raced, failed>>

\* The dialog closes; the page reads its collectibles, not the collection.
Linked(k) ==
    /\ Answer(k, "link", "done")
    /\ link' = Closed
    /\ reqs' = RemoveAt(reqs, k)
    /\ UNCHANGED <<open, copy, form, preview, error, sent>>

-----------------------------------------------------------------------------
\* The forms of a new record are empty, the page of a collection is filled by its
\* resolver, the dialog of a collectible asks for it.
Blank == [name |-> Empty, image |-> Empty, attrs |-> 0, contract |-> Empty, public |-> FALSE]

Init ==
    /\ visit \in Visits /\ open = TRUE /\ made = 0
    /\ \/ /\ view \in Existing
          /\ \E n \in Names, i \in Images : item = [Blank EXCEPT !.name = n, !.image = i, !.attrs = 1]
       \/ view \notin Existing /\ item = Blank
    /\ copy = IF view = "detail" THEN item ELSE Blank
    /\ form = [name |-> copy.name, image |-> copy.image,
               attrs |-> IF view = "detail" THEN copy.attrs ELSE 1]
    /\ preview = copy.image /\ readers = <<>>
    /\ reqs = IF view = "updateNft" THEN <<[kind |-> "read", rec |-> Blank, at |-> "sent"]>> ELSE <<>>
    /\ sent = 0 /\ error = FALSE /\ link = Closed /\ raced = FALSE /\ failed = FALSE

Next ==
    \/ \E n \in Names \cup {Empty} : Type(n)
    \/ \E i \in Images : CreateFileSelected(i) \/ DetailFileSelected(i)
                         \/ CreateNftFileSelected(i) \/ UpdateNftFileSelected(i)
    \/ \E f \in DOMAIN readers : onload(f)
    \/ addAttribute \/ removeAttribute \/ handleBack
    \/ createCollection \/ updateCollection \/ createCollectible \/ updateCollectible
    \/ publicCollection \/ openLinkContractModal \/ dismiss \/ updateLinkContract
    \/ \E c \in Contracts \cup {Empty} : TypeContract(c)
    \/ \E k \in DOMAIN reqs :
          \/ Serve(k) \/ Uploaded(k) \/ UploadFailed(k) \/ Saved(k) \/ Left(k) \/ Refused(k)
          \/ handleDetail(k) \/ Published(k) \/ detailCollection(k) \/ Linked(k)

Spec == Init /\ [][Next]_vars

-----------------------------------------------------------------------------
(* Properties.                                                             *)

\* "Preview the image": when no answer and no preview is to come, none was an error and
\* no file was chosen while another was to come, the form holds the image that is shown,
\* whichever of the two came first.  (Not so on the page of a collection: publishing it
\* fills the form again and leaves the preview.)
PreviewIsAvatar ==
    view # "detail" /\ reqs = <<>> /\ readers = <<>> /\ ~failed /\ ~raced => form.image = preview

\* For a user who waits for every answer, and as long as none is an error, linking a
\* contract changes nothing else of the collection, whatever was typed, chosen,
\* uploaded or published before.
LinkKeepsRest ==
    [][ \A k \in DOMAIN reqs :
          Serve(k) /\ reqs[k].kind = "link" /\ Serial /\ ~failed /\ ~failed' =>
             item' = [item EXCEPT !.contract = reqs[k].rec.contract] ]_vars
=============================================================================
