------------------------- MODULE StorageObjectPage -------------------------
(***************************************************************************)
(* The page of one storage object in the console UI.  It reads the object   *)
(* once and saves it under the version it read; a save under another        *)
(* collection, key or user makes a copy and carries no version.  Meanwhile  *)
(* the game's own clients and server code write the same table.             *)
(*                                                                         *)
(* A version is the hash of the value, so the model uses the value itself.  *)
(* Only the submit button is off while a save is under way: the form and    *)
(* the editor stay open, and the answer meets what they hold by then.       *)
(***************************************************************************)
EXTENDS Naturals

CONSTANTS Ids,          \* collection, key and user of an object
          Values,       \* contents of an object
          Perms,        \* read and write permissions
          MaxWrites     \* bound: writes of others and saves of the page

Gone == [val |-> "gone", perm |-> "gone"]     \* no row
AnyVersion == "any"     \* version '': last write wins

ASSUME StorageAssumption ==
    /\ Gone.val \notin Values /\ AnyVersion \notin Values
    /\ MaxWrites \in Nat

Row == [val: Values, perm: Perms]
Save == [id: Ids, ver: Values \cup {AnyVersion}, val: Values, perm: Perms, at: {"sent", "done", "refused"}]
NoSave == [at |-> "none"]

VARIABLES
    patient,    \* the user leaves the form alone while a save is under way
    table,      \* the storage table
    object,     \* StorageObjectComponent.object: its id and the version it has
    form,       \* what the form and the editor hold
    updating, updated, error,
    save,       \* the save that is under way
    writes,     \* history: writes so far
    seen,       \* history: what this page read or wrote, by id
    last,       \* history: the object that was opened or saved last
    alone       \* history: since then nobody else wrote it, and no answer was lost

vars == <<patient, table, object, form, updating, updated, error, save, writes, seen, last, alone>>
alert == <<updating, updated, error>>
history == <<writes, seen, last, alone>>

TypeOK ==
    /\ patient \in BOOLEAN
    /\ table \in [Ids -> Row \cup {Gone}]
    /\ object \in [id: Ids, ver: Values]
    /\ form \in [id: Ids, val: Values, perm: Perms]
    /\ updating \in BOOLEAN /\ updated \in BOOLEAN /\ error \in BOOLEAN
    /\ save \in Save \cup {NoSave} /\ (updating <=> save # NoSave)
    /\ writes \in 0 .. MaxWrites /\ seen \in SUBSET (Ids \X Values)
    /\ last \in Ids /\ alone \in BOOLEAN

-----------------------------------------------------------------------------
(* The table: StorageWriteObjects for the console, and everybody else.      *)

OtherWrite(i, r) ==
    /\ writes < MaxWrites /\ table[i] # r
    /\ table' = [table EXCEPT ![i] = r]
    /\ writes' = writes + 1
    /\ alone' = (alone /\ i # last)
    /\ UNCHANGED <<patient, object, form, alert, save, seen, last>>

\* A write with a version wants the row to have it; one without always succeeds.
WriteStorageObject ==
    /\ save.at = "sent"
    /\ \/ /\ save.ver \in {AnyVersion, table[save.id].val}
          /\ table' = [table EXCEPT ![save.id] = [val |-> save.val, perm |-> save.perm]]
          /\ save' = [save EXCEPT !.at = "done"]
          /\ seen' = seen \cup {<<save.id, save.val>>}
          /\ last' = save.id /\ alone' = TRUE
       \/ /\ save' = [save EXCEPT !.at = "refused"]
          /\ UNCHANGED <<patient, table, seen, last, alone>>
    /\ UNCHANGED <<patient, object, form, alert, writes>>

\* The row was written, the answer is an error.
LoseAnswer ==
    /\ save.at = "done"
    /\ save' = [save EXCEPT !.at = "refused"]
    /\ alone' = FALSE
    /\ UNCHANGED <<patient, table, object, form, alert, writes, seen, last>>

-----------------------------------------------------------------------------
(* StorageObjectComponent.                                                  *)

\* StorageObjectResolver, ngOnInit and ngAfterViewInit: the row that was read fills the form.
ngOnInit ==
    \E i \in Ids :
        /\ table[i] # Gone
        /\ object = [id |-> i, ver |-> table[i].val]
        /\ form = [id |-> i, val |-> table[i].val, perm |-> table[i].perm]
        /\ seen = {<<i, table[i].val>>} /\ last = i /\ alone = TRUE

Type(g) ==
    /\ g # form /\ (patient => save = NoSave)
    /\ form' = g
    /\ UNCHANGED <<patient, table, object, alert, save, history>>

\* The version the save carries: none if it goes to another place.
\* Mutated: never one.
saveVersionNever == AnyVersion
saveVersion == IF form.id = object.id THEN object.ver ELSE AnyVersion

updateObject ==
    /\ ~updating /\ writes < MaxWrites
    /\ save' = [id |-> form.id, ver |-> saveVersion, val |-> form.val, perm |-> form.perm, at |-> "sent"]
    /\ updating' = TRUE /\ updated' = FALSE /\ error' = FALSE
    /\ writes' = writes + 1
    /\ UNCHANGED <<patient, table, object, form, seen, last, alone>>

\* The editor's text is not well formed.
updateObjectInvalid ==
    /\ ~updating
    /\ updated' = FALSE /\ error' = TRUE
    /\ UNCHANGED <<patient, table, object, form, updating, save, history>>

\* The answer brings the new version; after a copy the object is what the form names now.
\* Mutated: the object keeps its name.
UpdatedKeepsName ==
    /\ save.at = "done"
    /\ object' = [object EXCEPT !.ver = save.val]
    /\ save' = NoSave
    /\ updated' = TRUE /\ updating' = FALSE
    /\ UNCHANGED <<patient, table, form, error, history>>
Updated ==
    /\ save.at = "done"
    /\ object' = [id |-> IF save.ver = AnyVersion THEN form.id ELSE object.id, ver |-> save.val]
    /\ save' = NoSave
    /\ updated' = TRUE /\ updating' = FALSE
    /\ UNCHANGED <<patient, table, form, error, history>>

UpdateFailed ==
    /\ save.at = "refused"
    /\ save' = NoSave
    /\ error' = TRUE /\ updating' = FALSE
    /\ UNCHANGED <<patient, table, object, form, updated, history>>

-----------------------------------------------------------------------------
Init ==
    /\ patient \in BOOLEAN
    /\ table \in [Ids -> Row \cup {Gone}]
    /\ ngOnInit
    /\ updating = FALSE /\ updated = FALSE /\ error = FALSE
    /\ save = NoSave /\ writes = 0

Next ==
    \/ \E i \in Ids, r \in Row \cup {Gone} : OtherWrite(i, r)
    \/ WriteStorageObject \/ LoseAnswer
    \/ \E g \in [id: Ids, val: Values, perm: Perms] : Type(g)
    \/ updateObject \/ updateObjectInvalid \/ Updated \/ UpdateFailed

Spec == Init /\ [][Next]_vars

-----------------------------------------------------------------------------
(* Properties.                                                             *)

\* What the page overwrites with its button on "Save" is a value it has read from
\* this object or has written to it, however others write and whatever answers get lost:
\* nothing that somebody else wrote meanwhile disappears unseen.  (A copy may replace
\* an object the page never read, and permissions are not part of the version.)
SavesOverSeen ==
    [][ patient /\ WriteStorageObject /\ table' # table /\ save.id = object.id
          => <<save.id, table[save.id].val>> \in seen ]_vars

\* While nobody else has written the object the page has, and no answer was lost, the
\* page's version is that of the row it names, so its next save will not be refused.
\* Both want a user who leaves the form alone while a save is under way.
VersionIsCurrent ==
    patient /\ alone /\ save.at # "done" =>
        /\ object.id = last
        /\ table[object.id].val = object.ver
=============================================================================
