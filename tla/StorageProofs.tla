--------------------------- MODULE StorageProofs ----------------------------
(***************************************************************************)
(* Proofs about the storage object page, for any objects, values and       *)
(* permissions and any number of writes.                                   *)
(*                                                                         *)
(* What the page shows at rest depends on what is under way: the strength- *)
(* ening ties the save to the form and the object that made it, which a    *)
(* patient user does not change, and says where its value is once written. *)
(***************************************************************************)
EXTENDS StorageObjectPage, TLAPS

\* The save under way is the one the form would make again.
SaveFits ==
    patient /\ save # NoSave =>
        /\ save.id = form.id
        /\ save.ver = saveVersion

\* Once written, the save is what the table has for the object named last, until
\* somebody else writes it.
WrittenIsLast ==
    patient /\ alone /\ save.at = "done" =>
        /\ save.id = last
        /\ table[last].val = save.val

\* The page has seen the version it would save over, and the one it is about to take.
VersionSeen ==
    patient =>
        /\ <<object.id, object.ver>> \in seen
        /\ save.at = "done" => <<save.id, save.val>> \in seen

StorageInv == TypeOK /\ SaveFits /\ WrittenIsLast /\ VersionSeen /\ VersionIsCurrent

\* A save that is under way is a save: NoSave has another stage.
LEMMA UnderWay ==
  ASSUME TypeOK, save.at \in {"sent", "done", "refused"}
  PROVE  save \in Save /\ save # NoSave /\ updating
  BY DEF TypeOK, NoSave, Save

\* Every variable of the page starts in its domain.
LEMMA InitType == Init => TypeOK
<1> SUFFICES ASSUME Init PROVE TypeOK
  OBVIOUS
<1>1. PICK i \in Ids :
        /\ table[i] # Gone
        /\ object = [id |-> i, ver |-> table[i].val]
        /\ form = [id |-> i, val |-> table[i].val, perm |-> table[i].perm]
        /\ seen = {<<i, table[i].val>>} /\ last = i /\ alone = TRUE
  BY DEF Init, ngOnInit
<1>2. table[i].val \in Values /\ table[i].perm \in Perms
  BY <1>1 DEF Init, Row
<1>3. writes \in 0 .. MaxWrites
  BY StorageAssumption DEF Init
<1>4. /\ object \in [id: Ids, ver: Values]
      /\ form \in [id: Ids, val: Values, perm: Perms]
  BY <1>1, <1>2
<1>5. seen \in SUBSET (Ids \X Values) /\ last \in Ids /\ alone \in BOOLEAN
  BY <1>1, <1>2
<1>6. QED
  BY <1>3, <1>4, <1>5 DEF Init, TypeOK

\* Every step keeps every variable of the page in its domain.
LEMMA StepType == TypeOK /\ [Next]_vars => TypeOK'
<1> SUFFICES ASSUME TypeOK, [Next]_vars PROVE TypeOK'
  OBVIOUS
<1> USE StorageAssumption
<1>1. ASSUME NEW i \in Ids, NEW r \in Row \cup {Gone}, OtherWrite(i, r) PROVE TypeOK'
  BY <1>1 DEF OtherWrite, TypeOK, alert
<1>2. CASE WriteStorageObject
  <2>1. save \in Save /\ save # NoSave /\ updating
    BY <1>2, UnderWay DEF WriteStorageObject
  <2>2. CASE save' = [save EXCEPT !.at = "done"]
                /\ table' = [table EXCEPT ![save.id] = [val |-> save.val, perm |-> save.perm]]
                /\ seen' = seen \cup {<<save.id, save.val>>}
                /\ last' = save.id /\ alone' = TRUE
    <3>1. save' \in Save /\ save' # NoSave
      BY <2>1, <2>2 DEF Save, NoSave
    <3>2. [val |-> save.val, perm |-> save.perm] \in Row
      BY <2>1 DEF Save, Row
    <3>3. QED
      BY <1>2, <2>1, <2>2, <3>1, <3>2 DEF WriteStorageObject, TypeOK, alert, Save
  <2>3. CASE save' = [save EXCEPT !.at = "refused"] /\ UNCHANGED <<table, seen, last, alone>>
    <3>1. save' \in Save /\ save' # NoSave
      BY <2>1, <2>3 DEF Save, NoSave
    <3>2. QED
      BY <1>2, <2>1, <2>3, <3>1 DEF WriteStorageObject, TypeOK, alert
  <2>4. QED
    BY <1>2, <2>2, <2>3 DEF WriteStorageObject
<1>3. CASE LoseAnswer
  <2>1. save' \in Save /\ save' # NoSave /\ updating
    BY <1>3, UnderWay DEF LoseAnswer, Save, NoSave
  <2>2. QED
    BY <1>3, <2>1 DEF LoseAnswer, TypeOK, alert
<1>4. ASSUME NEW g \in [id: Ids, val: Values, perm: Perms], Type(g) PROVE TypeOK'
  BY <1>4 DEF Type, TypeOK, alert, history
<1>5. CASE updateObject
  <2>1. saveVersion \in Values \cup {AnyVersion}
    BY DEF TypeOK, saveVersion
  <2>2. save' \in Save /\ save' # NoSave
    BY <1>5, <2>1 DEF updateObject, TypeOK, Save, NoSave
  <2>3. writes' \in 0 .. MaxWrites
    BY <1>5 DEF updateObject, TypeOK
  <2>4. QED
    BY <1>5, <2>2, <2>3 DEF updateObject, TypeOK
<1>6. CASE updateObjectInvalid
  BY <1>6 DEF updateObjectInvalid, TypeOK, history
<1>7. CASE Updated
  BY <1>7, UnderWay DEF Updated, TypeOK, history, Save
<1>8. CASE UpdateFailed
  BY <1>8 DEF UpdateFailed, TypeOK, history
<1>9. CASE UNCHANGED vars
  BY <1>9 DEF vars, TypeOK
<1>10. QED
  BY <1>1, <1>2, <1>3, <1>4, <1>5, <1>6, <1>7, <1>8, <1>9 DEF Next

\* The strengthened invariant holds when the page opens.
LEMMA InitInv == Init => StorageInv
<1> SUFFICES ASSUME Init PROVE StorageInv
  OBVIOUS
<1>1. save = NoSave /\ save.at = "none"
  BY DEF Init, NoSave
<1>2. PICK i \in Ids :
        /\ object = [id |-> i, ver |-> table[i].val]
        /\ seen = {<<i, table[i].val>>} /\ last = i
  BY DEF Init, ngOnInit
<1>3. QED
  BY <1>1, <1>2, InitType DEF StorageInv, SaveFits, WrittenIsLast, VersionSeen,
     VersionIsCurrent

\* It is inductive.
LEMMA StepInv == StorageInv /\ [Next]_vars => StorageInv'
<1> SUFFICES ASSUME StorageInv, [Next]_vars PROVE StorageInv'
  OBVIOUS
<1> USE StorageAssumption
<1>0. TypeOK /\ TypeOK'
  BY StepType DEF StorageInv
<1>1. ASSUME NEW i \in Ids, NEW r \in Row \cup {Gone}, OtherWrite(i, r) PROVE StorageInv'
  BY <1>0, <1>1 DEF OtherWrite, alert, StorageInv, TypeOK, SaveFits, WrittenIsLast,
     VersionSeen, VersionIsCurrent, saveVersion
<1>2. CASE WriteStorageObject
  <2>1. save \in Save /\ save # NoSave
    BY <1>0, <1>2, UnderWay DEF WriteStorageObject
  <2>2. CASE save' = [save EXCEPT !.at = "done"]
                /\ table' = [table EXCEPT ![save.id] = [val |-> save.val, perm |-> save.perm]]
                /\ seen' = seen \cup {<<save.id, save.val>>}
                /\ last' = save.id /\ alone' = TRUE
    <3>1. /\ save'.at = "done" /\ save'.id = save.id /\ save'.ver = save.ver
          /\ save'.val = save.val
      BY <2>1, <2>2 DEF Save
    <3>2. table'[save.id].val = save.val
      BY <1>0, <2>1, <2>2 DEF TypeOK, Save
    <3>3. QED
      BY <1>0, <1>2, <2>1, <2>2, <3>1, <3>2 DEF WriteStorageObject, alert, StorageInv,
         SaveFits, WrittenIsLast, VersionSeen, VersionIsCurrent, saveVersion
  <2>3. CASE save' = [save EXCEPT !.at = "refused"] /\ UNCHANGED <<table, seen, last, alone>>
    <3>1. save'.at = "refused" /\ save'.id = save.id /\ save'.ver = save.ver
      BY <2>1, <2>3 DEF Save
    <3>2. QED
      BY <1>0, <1>2, <2>1, <2>3, <3>1 DEF WriteStorageObject, alert, StorageInv, SaveFits,
         WrittenIsLast, VersionSeen, VersionIsCurrent, saveVersion
  <2>4. QED
    BY <1>2, <2>2, <2>3 DEF WriteStorageObject
<1>3. CASE LoseAnswer
  <2>1. save \in Save /\ save # NoSave
    BY <1>0, <1>3, UnderWay DEF LoseAnswer
  <2>2. save'.at = "refused" /\ save'.id = save.id /\ save'.ver = save.ver
    BY <1>3, <2>1 DEF LoseAnswer, Save
  <2>3. QED
    BY <1>0, <1>3, <2>1, <2>2 DEF LoseAnswer, alert, StorageInv, SaveFits, WrittenIsLast,
       VersionSeen, VersionIsCurrent, saveVersion
<1>4. ASSUME NEW g \in [id: Ids, val: Values, perm: Perms], Type(g) PROVE StorageInv'
  BY <1>0, <1>4 DEF Type, alert, history, StorageInv, SaveFits, WrittenIsLast,
     VersionSeen, VersionIsCurrent, NoSave
<1>5. CASE updateObject
  BY <1>0, <1>5 DEF updateObject, StorageInv, TypeOK, SaveFits, WrittenIsLast,
     VersionSeen, VersionIsCurrent, saveVersion, NoSave
<1>6. CASE updateObjectInvalid
  BY <1>0, <1>6 DEF updateObjectInvalid, history, StorageInv, SaveFits, WrittenIsLast,
     VersionSeen, VersionIsCurrent, saveVersion
<1>7. CASE Updated
  <2>1. save \in Save /\ save # NoSave
    BY <1>0, <1>7, UnderWay DEF Updated
  <2>2. patient => object'.id = save.id /\ object'.ver = save.val
    BY <1>0, <1>7, <2>1 DEF Updated, StorageInv, SaveFits, saveVersion, TypeOK
  <2>3. save' = NoSave /\ save'.at = "none"
    BY <1>7 DEF Updated, NoSave
  <2>4. QED
    BY <1>0, <1>7, <2>2, <2>3 DEF Updated, history, StorageInv, SaveFits, WrittenIsLast,
       VersionSeen, VersionIsCurrent
<1>8. CASE UpdateFailed
  BY <1>0, <1>8 DEF UpdateFailed, history, StorageInv, SaveFits, WrittenIsLast,
     VersionSeen, VersionIsCurrent, NoSave
<1>9. CASE UNCHANGED vars
  BY <1>0, <1>9 DEF vars, StorageInv, SaveFits, WrittenIsLast, VersionSeen,
     VersionIsCurrent, saveVersion
<1>10. QED
  BY <1>1, <1>2, <1>3, <1>4, <1>5, <1>6, <1>7, <1>8, <1>9 DEF Next

\* The object, the form, the save under way and the table stay in their domains, and the
\* submit button is off exactly while a save is under way (StorageObjectComponent).
THEOREM TypeCorrect == Spec => []TypeOK
  BY InitType, StepType, PTL DEF Spec

\* The page's version is that of the row it names while nobody else has written it
\* and no answer was lost, copies to another place included (updateObject's
\* answer takes id and version together).
THEOREM VersionAlwaysCurrent == Spec => []VersionIsCurrent
<1>1. Spec => []StorageInv
  BY InitInv, StepInv, PTL DEF Spec
<1>2. StorageInv => VersionIsCurrent
  BY DEF StorageInv
<1>3. QED
  BY <1>1, <1>2, PTL

\* A save in place only replaces a value the page has read or written itself, however
\* others write and whatever answers are lost (the version updateObject sends).
THEOREM NothingUnseenReplaced == Spec => SavesOverSeen
<1>1. StorageInv /\ [Next]_vars =>
         [patient /\ WriteStorageObject /\ table' # table /\ save.id = object.id
            => <<save.id, table[save.id].val>> \in seen]_vars
  <2> SUFFICES ASSUME StorageInv, patient, WriteStorageObject, table' # table,
                      save.id = object.id
               PROVE  <<save.id, table[save.id].val>> \in seen
    OBVIOUS
  <2>1. save \in Save /\ save # NoSave
    BY UnderWay DEF StorageInv, WriteStorageObject
  <2>2. save.ver = object.ver /\ object.ver # AnyVersion
    BY <2>1, StorageAssumption DEF StorageInv, SaveFits, saveVersion, TypeOK
  <2>3. save.ver \in {AnyVersion, table[save.id].val}
    BY DEF WriteStorageObject
  <2>4. QED
    BY <2>2, <2>3 DEF StorageInv, VersionSeen
<1>2. Spec => []StorageInv
  BY InitInv, StepInv, PTL DEF Spec
<1>3. QED
  BY <1>1, <1>2, PTL DEF Spec, SavesOverSeen
=============================================================================
