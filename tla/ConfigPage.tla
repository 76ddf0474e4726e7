----------------------------- MODULE ConfigPage -----------------------------
(***************************************************************************)
(* The configuration page of the console UI: importing files into the       *)
(* storage and deleting all data.  Files are dropped several at a time; the  *)
(* browser hands each one over when it has opened it, and each is a request  *)
(* of its own.  All of them, and all deletes, share one set of flags.        *)
(***************************************************************************)
EXTENDS Naturals, SequencesExt

CONSTANTS MaxDrops,     \* bound: drops
          MaxFiles,     \* bound: files in a drop
          MaxDialogs,   \* bound: confirmations open at once
          MaxDeletes    \* bound: deletes sent

VARIABLES
    OneFile,    \* the user drops files one by one, and waits for each
    uploading, uploadSuccess, uploadError,
    deleting, deleteSuccess, deleteError,
    confirmDeleteForm,  \* the text of the form says DELETE
    dialogs,    \* confirmations that are open
    files,      \* files dropped: the drop they belong to and where they are
    drops,      \* drops so far
    deletes,    \* deletes under way
    asked,      \* history: deletes sent
    lost,       \* history: files that were refused, by drop
    rows        \* the storage has imported rows

upload == <<uploading, uploadSuccess, uploadError, files, drops, lost>>
delete == <<deleting, deleteSuccess, deleteError, confirmDeleteForm, dialogs, deletes, asked>>
vars == <<OneFile, upload, delete, rows>>

Stages == {"opening", "sent", "done", "refused"}
At == {"sent", "done", "refused"}

TypeOK ==
    /\ uploading \in BOOLEAN /\ uploadSuccess \in BOOLEAN /\ uploadError \in BOOLEAN
    /\ deleting \in BOOLEAN /\ deleteSuccess \in BOOLEAN /\ deleteError \in BOOLEAN
    /\ confirmDeleteForm \in BOOLEAN
    /\ dialogs \in 0 .. MaxDialogs /\ OneFile \in BOOLEAN
    /\ files \in Seq([drop: 1 .. MaxDrops, at: Stages]) /\ drops \in 0 .. MaxDrops
    /\ deletes \in Seq(At) /\ asked \in 0 .. MaxDeletes
    /\ lost \subseteq 1 .. MaxDrops /\ rows \in BOOLEAN

-----------------------------------------------------------------------------
(* Importing.                                                              *)

\* good files are opened, bad ones have another extension than json and csv.
dropped(good, bad) ==
    /\ ~uploading /\ drops < MaxDrops /\ (OneFile => files = <<>> /\ good + bad = 1)
    /\ uploadError' = (bad > 0) /\ uploadSuccess' = FALSE
    /\ drops' = drops + 1
    /\ files' = files \o [k \in 1 .. good |-> [drop |-> drops + 1, at |-> "opening"]]
    /\ lost' = IF bad > 0 THEN lost \cup {drops + 1} ELSE lost
    /\ UNCHANGED <<OneFile, uploading, delete, rows>>

\* The callback of fileEntry.file.
uploadFile(k) ==
    /\ k \in DOMAIN files /\ files[k].at = "opening"
    /\ uploading' = TRUE
    /\ files' = [files EXCEPT ![k].at = "sent"]
    /\ UNCHANGED <<OneFile, uploadSuccess, uploadError, drops, lost, delete, rows>>

Import(k) ==
    /\ k \in DOMAIN files /\ files[k].at = "sent"
    /\ \/ files' = [files EXCEPT ![k].at = "done"] /\ rows' = TRUE /\ UNCHANGED lost
       \/ /\ files' = [files EXCEPT ![k].at = "refused"]
          /\ lost' = lost \cup {files[k].drop} /\ UNCHANGED rows
    /\ UNCHANGED <<OneFile, uploading, uploadSuccess, uploadError, drops, delete>>

Imported(k) ==
    /\ k \in DOMAIN files /\ files[k].at = "done"
    /\ uploading' = FALSE /\ uploadSuccess' = TRUE
    /\ files' = RemoveAt(files, k)
    /\ UNCHANGED <<OneFile, uploadError, drops, lost, delete, rows>>

\* Mutated: the flag is cleared only by a success.
ImportFailedOff(k) ==
    /\ k \in DOMAIN files /\ files[k].at = "refused"
    /\ uploadError' = TRUE
    /\ files' = RemoveAt(files, k)
    /\ UNCHANGED <<OneFile, uploading, uploadSuccess, drops, lost, delete, rows>>
ImportFailed(k) ==
    /\ k \in DOMAIN files /\ files[k].at = "refused"
    /\ uploading' = FALSE /\ uploadError' = TRUE
    /\ files' = RemoveAt(files, k)
    /\ UNCHANGED <<OneFile, uploadSuccess, drops, lost, delete, rows>>

-----------------------------------------------------------------------------
(* Deleting everything.                                                    *)

deleteData ==
    /\ ~deleting /\ dialogs < MaxDialogs
    /\ dialogs' = dialogs + 1
    /\ UNCHANGED <<OneFile, upload, deleting, deleteSuccess, deleteError, confirmDeleteForm,
                   deletes, asked, rows>>

\* The form belongs to the page: every dialog shows the same one, and what was typed
\* into one is there in the next.
TypeDelete(right) ==
    /\ dialogs > 0
    /\ confirmDeleteForm' = right
    /\ UNCHANGED <<OneFile, upload, deleting, deleteSuccess, deleteError, dialogs, deletes,
                   asked, rows>>

confirm ==
    /\ dialogs > 0 /\ confirmDeleteForm /\ asked < MaxDeletes
    /\ deleteError' = FALSE /\ deleting' = TRUE
    /\ deletes' = Append(deletes, "sent") /\ asked' = asked + 1
    /\ dialogs' = dialogs - 1
    /\ UNCHANGED <<OneFile, upload, deleteSuccess, confirmDeleteForm, rows>>

cancel ==
    /\ dialogs > 0
    /\ dialogs' = dialogs - 1
    /\ UNCHANGED <<OneFile, upload, deleting, deleteSuccess, deleteError, confirmDeleteForm,
                   deletes, asked, rows>>

DeleteAllData(k) ==
    /\ k \in DOMAIN deletes /\ deletes[k] = "sent"
    /\ \/ deletes' = [deletes EXCEPT ![k] = "done"] /\ rows' = FALSE
       \/ deletes' = [deletes EXCEPT ![k] = "refused"] /\ UNCHANGED rows
    /\ UNCHANGED <<OneFile, upload, deleting, deleteSuccess, deleteError, confirmDeleteForm,
                   dialogs, asked>>

\* Two seconds after the answer (delay(2000)); an error is not delayed.
Deleted(k) ==
    /\ k \in DOMAIN deletes /\ deletes[k] = "done"
    /\ deleting' = FALSE /\ deleteError' = FALSE /\ deleteSuccess' = TRUE
    /\ deletes' = RemoveAt(deletes, k)
    /\ UNCHANGED <<OneFile, upload, confirmDeleteForm, dialogs, asked, rows>>

DeleteFailed(k) ==
    /\ k \in DOMAIN deletes /\ deletes[k] = "refused"
    /\ deleting' = FALSE /\ deleteError' = TRUE
    /\ deletes' = RemoveAt(deletes, k)
    /\ UNCHANGED <<OneFile, upload, deleteSuccess, confirmDeleteForm, dialogs, asked, rows>>

\* The close buttons of the two success alerts.
DismissImported ==
    /\ uploadSuccess /\ uploadSuccess' = FALSE
    /\ UNCHANGED <<OneFile, uploading, uploadError, files, drops, lost, delete, rows>>
DismissDeleted ==
    /\ deleteSuccess /\ deleteSuccess' = FALSE
    /\ UNCHANGED <<OneFile, upload, deleting, deleteError, confirmDeleteForm, dialogs,
                   deletes, asked, rows>>

-----------------------------------------------------------------------------
Init ==
    /\ OneFile \in BOOLEAN
    /\ uploading = FALSE /\ uploadSuccess = FALSE /\ uploadError = FALSE
    /\ deleting = FALSE /\ deleteSuccess = FALSE /\ deleteError = FALSE
    /\ confirmDeleteForm = FALSE /\ dialogs = 0 /\ files = <<>> /\ drops = 0
    /\ deletes = <<>> /\ asked = 0 /\ lost = {} /\ rows \in BOOLEAN

Next ==
    \/ \E good, bad \in 0 .. MaxFiles : good + bad \in 1 .. MaxFiles /\ dropped(good, bad)
    \/ \E k \in DOMAIN files : uploadFile(k) \/ Import(k) \/ Imported(k) \/ ImportFailed(k)
    \/ deleteData
    \/ confirm \/ cancel \/ \E right \in BOOLEAN : TypeDelete(right)
    \/ \E k \in DOMAIN deletes : DeleteAllData(k) \/ Deleted(k) \/ DeleteFailed(k)
    \/ DismissImported \/ DismissDeleted

Spec == Init /\ [][Next]_vars

-----------------------------------------------------------------------------
(* Properties.                                                             *)

\* The flags that switch off the drop zone and the delete button never stay up once
\* nothing is under way, whichever of several files or deletes failed: the page can
\* always be used again.  And while "Storage data successfully imported." is shown, no
\* file of the last drop was refused, if files are dropped one by one.
FlagsTellTruth ==
    /\ (\A k \in DOMAIN files : files[k].at = "opening") => ~uploading
    /\ deletes = <<>> => ~deleting
    /\ OneFile /\ uploadSuccess => drops \notin lost
=============================================================================
