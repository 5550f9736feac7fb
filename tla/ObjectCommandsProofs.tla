------------------------ MODULE ObjectCommandsProofs ------------------------
(***************************************************************************)
(* The locks of the object handlers make their transactions serializable:  *)
(* ObjectCommands implements the ledger, for any number of threads,        *)
(* objects, fields, values, keys and commands.  What is proved of the      *)
(* ledger then holds of the concurrent handlers.                           *)
(*                                                                         *)
(* The hypothesis DistinctTexts is what the advisory lock needs: it is     *)
(* taken on the JSON text of a value, while the lookup compares jsonb.     *)
(***************************************************************************)
EXTENDS ObjectCommands, TLAPS

-----------------------------------------------------------------------------
(***************************************************************************)
(* THE LEDGER.  What LedgerSpec promises about the tables, proved for      *)
(* every set of objects, fields, values, keys and commands.                *)
(***************************************************************************)
(* The parts of a command, and the rows it reads and writes.               *)

(* What a handler finds in a command that passed the validation.           *)
LEMMA CommandParts ==
  ASSUME NEW c \in Commands
  PROVE  /\ c.key \in Keys
         /\ c.kind \in Kinds
         /\ c.set \in [Fields -> Text \cup {Null, Absent}]
         /\ c.kind # "CreateObject" => c.obj \in Objects
         /\ c.kind = "CreateObject" => c.to \in Status
         /\ c.kind = "ChangeState" => c.to \in Status
BY CommandsWellFormed DEF Command, Status

(* A named field has a text or null, and Canon a jsonb value or null.      *)
LEMMA CanonType ==
  ASSUME NEW c \in Commands, NEW f \in Named(c)
  PROVE  /\ f \in Fields
         /\ c.set[f] \in Text \cup {Null}
         /\ Canon(c.set[f]) \in Value \cup {Null}
         /\ c.set[f] # Null => c.set[f] \in Text /\ Canon(c.set[f]) \in Value
BY CommandParts, ConstantsApart DEF Named, Canon

(* A CreateObject has no target.                                           *)
LEMMA CreateHasNoTarget ==
  ASSUME NEW c \in Commands, c.kind = "CreateObject"
  PROVE  c.obj \notin Objects
BY CommandsWellFormed, ConstantsApart DEF Command

(* The value an event shows for a row is a jsonb value or null.            *)
LEMMA FieldRowShown ==
  ASSUME NEW row \in FieldRow \cup {NoField}
  PROVE  row.version \in Nat /\ Shown(row) \in Value \cup {Null}
BY DEF FieldRow, NoField, Shown

(* What is read of the target is a row of its type, or none.               *)
LEMMA ReadType ==
  ASSUME TablesTypeOK, NEW c \in Commands
  PROVE  /\ Read(c).row \in ObjectRow \cup {NoObject}
         /\ Read(c).fld \in [Fields -> FieldRow \cup {NoField}]
         /\ c.kind # "CreateObject" =>
              Read(c).row = obj[c.obj] /\ Read(c).fld = fld[c.obj]
BY CommandParts DEF TablesTypeOK, Read, NothingRead

-----------------------------------------------------------------------------
(* Types.                                                                  *)

(* CreateObject writes rows and events of their types.                     *)
LEMMA CreateType ==
  ASSUME TablesTypeOK, NEW c \in Commands, CreateObject(c)
  PROVE  /\ obj' \in [Objects -> ObjectRow \cup {NoObject}]
         /\ fld' \in [Objects -> [Fields -> FieldRow \cup {NoField}]]
         /\ objEvents' \in [Objects -> Seq(ObjectEvent)]
         /\ fldEvents' \in [Objects -> [Fields -> Seq(FieldEvent)]]
<1> DEFINE given == {f \in Named(c) : c.set[f] # Null}
           row(f) == IF f \in given THEN [value |-> Canon(c.set[f]), version |-> 1]
                                    ELSE NoField
           created == [type |-> "ObjectCreated", seq |-> 1, status |-> c.to, changed |-> {}]
           event(f) == [seq |-> 1, before |-> Null, after |-> Canon(c.set[f])]
<1>1. PICK o \in Objects :
        /\ obj' = [obj EXCEPT ![o] = [status |-> c.to, version |-> 1]]
        /\ fld' = [fld EXCEPT ![o] = [f \in Fields |-> row(f)]]
        /\ objEvents' = [objEvents EXCEPT ![o] = Append(@, created)]
        /\ fldEvents' = [fldEvents EXCEPT ![o] =
             [f \in Fields |-> IF f \in given THEN Append(@[f], event(f)) ELSE @[f]]]
  BY DEF CreateObject
<1>2. [status |-> c.to, version |-> 1] \in ObjectRow
  BY CommandParts DEF ObjectRow, CreateObject
<1>3. \A f \in Fields : row(f) \in FieldRow \cup {NoField}
  BY CanonType DEF FieldRow
<1>4. created \in ObjectEvent
  BY CommandParts DEF ObjectEvent, CreateObject
<1>5. \A f \in given : event(f) \in FieldEvent
  BY CanonType DEF FieldEvent
<1>6. obj' \in [Objects -> ObjectRow \cup {NoObject}]
  BY <1>1, <1>2 DEF TablesTypeOK
<1>7. fld' \in [Objects -> [Fields -> FieldRow \cup {NoField}]]
  <2> HIDE DEF row
  <2> QED BY <1>1, <1>3 DEF TablesTypeOK
<1>8. objEvents' \in [Objects -> Seq(ObjectEvent)]
  <2> HIDE DEF created
  <2> QED BY <1>1, <1>4 DEF TablesTypeOK
<1>9. fldEvents' \in [Objects -> [Fields -> Seq(FieldEvent)]]
  <2> HIDE DEF event, given
  <2>1. \A f \in Fields : fldEvents[o][f] \in Seq(FieldEvent)
    BY DEF TablesTypeOK
  <2>2. \A f \in Fields :
          (IF f \in given THEN Append(fldEvents[o][f], event(f)) ELSE fldEvents[o][f])
            \in Seq(FieldEvent)
    BY <1>5, <2>1
  <2> QED BY <1>1, <2>2 DEF TablesTypeOK
<1> QED BY <1>6, <1>7, <1>8, <1>9

(* So does UpdateFields.                                                   *)
LEMMA UpdateType ==
  ASSUME TablesTypeOK, NEW c \in Commands, Admitted(c, Read(c)),
         UpdateFields(c, Read(c))
  PROVE  /\ obj' \in [Objects -> ObjectRow \cup {NoObject}]
         /\ fld' \in [Objects -> [Fields -> FieldRow \cup {NoField}]]
         /\ objEvents' \in [Objects -> Seq(ObjectEvent)]
         /\ fldEvents' \in [Objects -> [Fields -> Seq(FieldEvent)]]
<1> DEFINE seen == Read(c)
           o == c.obj
           changed == Changed(c, seen)
           event(f) == [seq    |-> seen.fld[f].version + 1,
                        before |-> Shown(seen.fld[f]),
                        after  |-> Canon(c.set[f])]
           updated == [type |-> "ObjectUpdated", seq |-> obj[o].version + 1,
                       status |-> Absent, changed |-> changed]
<1>1. /\ c.kind = "UpdateFields" /\ o \in Objects
      /\ obj[o] \in ObjectRow /\ obj[o].version \in Nat
      /\ seen.fld = fld[o]
  BY CommandParts, ReadType
     DEF UpdateFields, Admitted, CreateAdmitted, UpdateAdmitted, ChangeStateAdmitted,
         RemovalAdmitted, ObjectRow, TablesTypeOK
<1>2. \A f \in changed : f \in Named(c) /\ f \in Fields
  BY CanonType DEF Changed, Named
<1>3. \A f \in Fields : /\ seen.fld[f].version \in Nat
                        /\ Shown(seen.fld[f]) \in Value \cup {Null}
                        /\ seen.fld[f] = fld[o][f]
                        /\ fld[o][f] \in FieldRow \cup {NoField}
                        /\ fldEvents[o][f] \in Seq(FieldEvent)
  BY <1>1 DEF TablesTypeOK, FieldRow, NoField, Shown
<1>4. \A f \in changed : NewField(c, seen, f) \in FieldRow /\ event(f) \in FieldEvent
  BY <1>2, <1>3, CanonType DEF NewField, FieldRow, FieldEvent
<1>5. updated \in ObjectEvent
  BY <1>1, <1>2 DEF ObjectEvent
<1>6. obj' \in [Objects -> ObjectRow \cup {NoObject}]
  <2>1. [obj[o] EXCEPT !.version = @ + 1] \in ObjectRow
    BY <1>1 DEF ObjectRow
  <2> QED BY <1>1, <2>1 DEF UpdateFields, TouchObject, TablesTypeOK
<1>7. objEvents' \in [Objects -> Seq(ObjectEvent)]
  <2>1. objEvents' = objEvents \/ objEvents' = [objEvents EXCEPT ![o] = Append(@, updated)]
    BY DEF UpdateFields, TouchObject
  <2> HIDE DEF updated
  <2>2. Append(objEvents[o], updated) \in Seq(ObjectEvent)
    BY <1>1, <1>5 DEF TablesTypeOK
  <2> QED BY <1>1, <2>1, <2>2 DEF TablesTypeOK
<1>8. fld' \in [Objects -> [Fields -> FieldRow \cup {NoField}]]
  <2>1. fld' = [fld EXCEPT ![o] =
                  [f \in Fields |-> IF f \in changed THEN NewField(c, seen, f) ELSE @[f]]]
    BY DEF UpdateFields
  <2> HIDE DEF changed, seen
  <2> QED BY <1>1, <1>3, <1>4, <2>1 DEF TablesTypeOK
<1>9. fldEvents' \in [Objects -> [Fields -> Seq(FieldEvent)]]
  <2>1. fldEvents' = [fldEvents EXCEPT ![o] =
          [f \in Fields |-> IF f \in changed THEN Append(@[f], event(f)) ELSE @[f]]]
    BY DEF UpdateFields
  <2> HIDE DEF changed, event
  <2>2. \A f \in Fields :
          (IF f \in changed THEN Append(fldEvents[o][f], event(f)) ELSE fldEvents[o][f])
            \in Seq(FieldEvent)
    BY <1>3, <1>4
  <2> QED BY <1>1, <2>1, <2>2 DEF TablesTypeOK
<1> QED BY <1>6, <1>7, <1>8, <1>9

(* So does a change of status.                                             *)
LEMMA StatusType ==
  ASSUME TablesTypeOK, NEW o \in Objects, obj[o] \in ObjectRow, NEW s \in Status,
         NEW type \in {"StateChanged", "Archived", "SoftDeleted"},
         WriteStatus(o, s, type)
  PROVE  /\ obj' \in [Objects -> ObjectRow \cup {NoObject}]
         /\ objEvents' \in [Objects -> Seq(ObjectEvent)]
<1> DEFINE row == [status |-> s, version |-> obj[o].version + 1]
           event == [type |-> type, seq |-> obj[o].version + 1, status |-> s, changed |-> {}]
<1>1. row \in ObjectRow /\ event \in ObjectEvent
  BY DEF ObjectRow, ObjectEvent
<1>2. obj' = [obj EXCEPT ![o] = row] /\ objEvents' = [objEvents EXCEPT ![o] = Append(@, event)]
  BY DEF WriteStatus
<1>3. Append(objEvents[o], event) \in Seq(ObjectEvent)
  <2> HIDE DEF event
  <2> QED BY <1>1 DEF TablesTypeOK
<1> HIDE DEF row, event
<1> QED BY <1>1, <1>2, <1>3 DEF TablesTypeOK

(* The target of a command that passed its checks exists.                  *)
LEMMA AdmittedExists ==
  ASSUME TablesTypeOK, NEW c \in Commands, Admitted(c, Read(c)), c.kind # "CreateObject"
  PROVE  /\ c.obj \in Objects
         /\ Read(c).row = obj[c.obj] /\ Read(c).fld = fld[c.obj]
         /\ obj[c.obj] \in ObjectRow /\ Exists(c.obj)
         /\ obj[c.obj].version \in Nat \ {0} /\ obj[c.obj].status \in Status
BY CommandParts, ReadType
   DEF Admitted, CreateAdmitted, UpdateAdmitted, ChangeStateAdmitted, RemovalAdmitted,
       ObjectRow, TablesTypeOK, Exists

(***************************************************************************)
(* The status writes of the three handlers that do nothing else, seen as   *)
(* one: either nothing is written or WriteStatus is.                       *)
(***************************************************************************)
LEMMA StatusWrites ==
  ASSUME TablesTypeOK, NEW c \in Commands, Admitted(c, Read(c)),
         \/ ChangeState(c)
         \/ Archive(c, Read(c))
         \/ SoftDelete(c, Read(c))
  PROVE  \/ UNCHANGED << obj, fld, objEvents, fldEvents >>
         \/ \E s \in Status, type \in {"StateChanged", "Archived", "SoftDeleted"} :
              /\ WriteStatus(c.obj, s, type)
              /\ s \in Transitions(obj[c.obj].status) \cup {"VOID", "DELETED"}
<1>1. CASE ChangeState(c)
  <2>1. c.to \in Status /\ c.to \in Transitions(obj[c.obj].status)
    BY <1>1, CommandParts, AdmittedExists
       DEF ChangeState, Admitted, CreateAdmitted, UpdateAdmitted, ChangeStateAdmitted,
           RemovalAdmitted
  <2> QED BY <1>1, <2>1 DEF ChangeState
<1>2. CASE Archive(c, Read(c))
  BY <1>2 DEF Archive, Status
<1>3. CASE SoftDelete(c, Read(c))
  BY <1>3 DEF SoftDelete, Status
<1> QED BY <1>1, <1>2, <1>3

(* And the command_log keeps commands.                                     *)
LEMMA RecordType ==
  ASSUME TablesTypeOK, NEW c \in Commands, RecordCommand(c)
  PROVE  log' \in [Keys -> Commands \cup {Absent}]
BY DEF TablesTypeOK, RecordCommand

(* The writes of any command that passed its checks keep the types.        *)
LEMMA WriteType ==
  ASSUME TablesTypeOK, NEW c \in Commands, Admitted(c, Read(c)), Write(c, Read(c)),
         RecordCommand(c)
  PROVE  TablesTypeOK'
<1>1. CASE CreateObject(c)
  BY <1>1, CreateType, RecordType DEF TablesTypeOK
<1>2. CASE UpdateFields(c, Read(c))
  BY <1>2, UpdateType, RecordType DEF TablesTypeOK
<1>3. CASE ChangeState(c) \/ Archive(c, Read(c)) \/ SoftDelete(c, Read(c))
  <2>1. c.kind # "CreateObject"
    BY <1>3 DEF ChangeState, Archive, SoftDelete
  <2>2. CASE UNCHANGED << obj, fld, objEvents, fldEvents >>
    BY <2>2, RecordType DEF TablesTypeOK
  <2>3. CASE \E s \in Status, type \in {"StateChanged", "Archived", "SoftDeleted"} :
               WriteStatus(c.obj, s, type)
    <3>1. PICK s \in Status, type \in {"StateChanged", "Archived", "SoftDeleted"} :
            WriteStatus(c.obj, s, type)
      BY <2>3
    <3>2. /\ obj' \in [Objects -> ObjectRow \cup {NoObject}]
          /\ objEvents' \in [Objects -> Seq(ObjectEvent)]
      BY <2>1, <3>1, AdmittedExists, StatusType
    <3>3. UNCHANGED << fld, fldEvents >>
      BY <3>1 DEF WriteStatus
    <3> QED BY <3>2, <3>3, RecordType DEF TablesTypeOK
  <2> QED BY <1>3, <2>2, <2>3, StatusWrites
<1> QED BY <1>1, <1>2, <1>3 DEF Write

(***************************************************************************)
(* Every table holds rows of its type: the statuses, versions and events   *)
(* the handlers write are well formed.                                     *)
(***************************************************************************)
THEOREM LedgerTypeOK == LedgerSpec => []TablesTypeOK
<1>1. LedgerInit => TablesTypeOK
  BY DEF LedgerInit, TablesTypeOK
<1>2. TablesTypeOK /\ [LedgerNext]_tables => TablesTypeOK'
  <2> SUFFICES ASSUME TablesTypeOK, [LedgerNext]_tables PROVE TablesTypeOK'
    OBVIOUS
  <2>1. CASE LedgerNext
    BY <2>1, WriteType DEF LedgerNext, Decide
  <2>2. CASE UNCHANGED tables
    BY <2>2 DEF tables, TablesTypeOK
  <2> QED BY <2>1, <2>2
<1> QED BY <1>1, <1>2, PTL DEF LedgerSpec

-----------------------------------------------------------------------------
(* The writes of a command, row by row.                                    *)

(***************************************************************************)
(* What CreateObject leaves: one new object with a row and a history per   *)
(* given field, the others as they were.                                   *)
(***************************************************************************)
Created(c, o) ==
  /\ ~Exists(o)
  /\ obj'[o] = [status |-> c.to, version |-> 1]
  /\ objEvents'[o] = Append(objEvents[o],
       [type |-> "ObjectCreated", seq |-> 1, status |-> c.to, changed |-> {}])
  /\ \A f \in Fields :
       IF f \in Named(c) /\ c.set[f] # Null
       THEN /\ fld'[o][f] = [value |-> Canon(c.set[f]), version |-> 1]
            /\ fldEvents'[o][f] = Append(fldEvents[o][f],
                 [seq |-> 1, before |-> Null, after |-> Canon(c.set[f])])
       ELSE fld'[o][f] = NoField /\ fldEvents'[o][f] = fldEvents[o][f]
  /\ \A p \in Objects \ {o} :
       /\ obj'[p] = obj[p] /\ objEvents'[p] = objEvents[p]
       /\ fld'[p] = fld[p] /\ fldEvents'[p] = fldEvents[p]

LEMMA CreateWrites ==
  ASSUME TablesTypeOK, NEW c \in Commands, CreateObject(c)
  PROVE  \E o \in Objects : Created(c, o)
<1> DEFINE given == {f \in Named(c) : c.set[f] # Null}
           row(f) == IF f \in given THEN [value |-> Canon(c.set[f]), version |-> 1]
                                    ELSE NoField
           created == [type |-> "ObjectCreated", seq |-> 1, status |-> c.to, changed |-> {}]
           event(f) == [seq |-> 1, before |-> Null, after |-> Canon(c.set[f])]
<1>1. PICK o \in Objects :
        /\ ~Exists(o)
        /\ obj' = [obj EXCEPT ![o] = [status |-> c.to, version |-> 1]]
        /\ fld' = [fld EXCEPT ![o] = [f \in Fields |-> row(f)]]
        /\ objEvents' = [objEvents EXCEPT ![o] = Append(@, created)]
        /\ fldEvents' = [fldEvents EXCEPT ![o] =
             [f \in Fields |-> IF f \in given THEN Append(@[f], event(f)) ELSE @[f]]]
  BY DEF CreateObject
<1>2. /\ obj'[o] = [status |-> c.to, version |-> 1]
      /\ objEvents'[o] = Append(objEvents[o], created)
  BY <1>1 DEF TablesTypeOK
<1>3. \A f \in Fields : fld'[o][f] = row(f)
  <2> HIDE DEF row
  <2> QED BY <1>1 DEF TablesTypeOK
<1>4. \A f \in Fields : fldEvents'[o][f] =
        IF f \in given THEN Append(fldEvents[o][f], event(f)) ELSE fldEvents[o][f]
  <2> HIDE DEF event, given
  <2> QED BY <1>1 DEF TablesTypeOK
<1>5. \A p \in Objects \ {o} :
        /\ obj'[p] = obj[p] /\ objEvents'[p] = objEvents[p]
        /\ fld'[p] = fld[p] /\ fldEvents'[p] = fldEvents[p]
  <2> HIDE DEF row, event, created, given
  <2> QED BY <1>1 DEF TablesTypeOK
<1>6. ~Exists(o)
  BY <1>1
<1> QED BY <1>2, <1>3, <1>4, <1>5, <1>6 DEF Created

(***************************************************************************)
(* What UpdateFields leaves: new rows and longer histories of the fields   *)
(* that changed, the target's version one higher if there are any.         *)
(***************************************************************************)
LEMMA UpdateWrites ==
  ASSUME TablesTypeOK, NEW c \in Commands, Admitted(c, Read(c)),
         UpdateFields(c, Read(c))
  PROVE  LET o == c.obj
             changed == Changed(c, Read(c))
         IN
         /\ obj'[o].status = obj[o].status
         /\ obj'[o].version = obj[o].version + (IF changed = {} THEN 0 ELSE 1)
         /\ objEvents'[o] = IF changed = {} THEN objEvents[o] ELSE Append(objEvents[o],
              [type |-> "ObjectUpdated", seq |-> obj[o].version + 1,
               status |-> Absent, changed |-> changed])
         /\ changed \subseteq Fields
         /\ \A f \in Fields :
              IF f \in changed
              THEN /\ fld'[o][f] = [value |-> Canon(c.set[f]), version |-> fld[o][f].version + 1]
                   /\ fldEvents'[o][f] = Append(fldEvents[o][f],
                        [seq |-> fld[o][f].version + 1, before |-> Shown(fld[o][f]),
                         after |-> Canon(c.set[f])])
              ELSE fld'[o][f] = fld[o][f] /\ fldEvents'[o][f] = fldEvents[o][f]
         /\ \A p \in Objects \ {o} :
              /\ obj'[p] = obj[p] /\ objEvents'[p] = objEvents[p]
              /\ fld'[p] = fld[p] /\ fldEvents'[p] = fldEvents[p]
<1> DEFINE o == c.obj
           changed == Changed(c, Read(c))
<1>1. o \in Objects /\ Read(c).fld = fld[o] /\ obj[o] \in ObjectRow
  BY AdmittedExists DEF UpdateFields
<1>2. changed \subseteq Fields
  BY DEF Changed, Named
<1> DEFINE event(f) == [seq    |-> Read(c).fld[f].version + 1,
                        before |-> Shown(Read(c).fld[f]),
                        after  |-> Canon(c.set[f])]
<1>3. \A f \in Fields :
        /\ NewField(c, Read(c), f) = [value |-> Canon(c.set[f]), version |-> fld[o][f].version + 1]
        /\ event(f) = [seq |-> fld[o][f].version + 1, before |-> Shown(fld[o][f]),
                       after |-> Canon(c.set[f])]
  BY <1>1 DEF NewField
<1>4. /\ fld' = [fld EXCEPT ![o] = [f \in Fields |->
                   IF f \in changed THEN NewField(c, Read(c), f) ELSE @[f]]]
      /\ fldEvents' = [fldEvents EXCEPT ![o] = [f \in Fields |->
                         IF f \in changed THEN Append(@[f], event(f)) ELSE @[f]]]
      /\ TouchObject(o, changed)
  BY DEF UpdateFields
<1>5. /\ obj'[o].status = obj[o].status
      /\ obj'[o].version = obj[o].version + (IF changed = {} THEN 0 ELSE 1)
      /\ objEvents'[o] = IF changed = {} THEN objEvents[o] ELSE Append(objEvents[o],
              [type |-> "ObjectUpdated", seq |-> obj[o].version + 1,
               status |-> Absent, changed |-> changed])
      /\ \A p \in Objects \ {o} : obj'[p] = obj[p] /\ objEvents'[p] = objEvents[p]
  <2>1. TouchObject(o, changed)
    BY <1>4
  <2> HIDE DEF changed
  <2>2. CASE changed = {}
    BY <1>1, <2>1, <2>2 DEF TouchObject, TablesTypeOK, ObjectRow
  <2>3. CASE changed # {}
    <3>1. /\ obj' = [obj EXCEPT ![o].version = @ + 1]
          /\ objEvents' = [objEvents EXCEPT ![o] = Append(@,
               [type |-> "ObjectUpdated", seq |-> obj[o].version + 1,
                status |-> Absent, changed |-> changed])]
      BY <2>1, <2>3 DEF TouchObject
    <3>2. obj'[o] = [obj[o] EXCEPT !.version = @ + 1]
      BY <1>1, <3>1 DEF TablesTypeOK
    <3>3. obj'[o].status = obj[o].status /\ obj'[o].version = obj[o].version + 1
      BY <1>1, <3>2 DEF ObjectRow
    <3> QED BY <1>1, <2>3, <3>1, <3>3 DEF TablesTypeOK
  <2> QED BY <2>2, <2>3
<1>6. \A f \in Fields :
        IF f \in changed
        THEN /\ fld'[o][f] = [value |-> Canon(c.set[f]), version |-> fld[o][f].version + 1]
             /\ fldEvents'[o][f] = Append(fldEvents[o][f],
                  [seq |-> fld[o][f].version + 1, before |-> Shown(fld[o][f]),
                   after |-> Canon(c.set[f])])
        ELSE fld'[o][f] = fld[o][f] /\ fldEvents'[o][f] = fldEvents[o][f]
  <2> HIDE DEF event, changed
  <2>1. \A f \in Fields :
          /\ fld'[o][f] = IF f \in changed THEN NewField(c, Read(c), f) ELSE fld[o][f]
          /\ fldEvents'[o][f] = IF f \in changed THEN Append(fldEvents[o][f], event(f))
                                                ELSE fldEvents[o][f]
    BY <1>1, <1>4 DEF TablesTypeOK
  <2> QED BY <1>3, <2>1
<1>7. \A p \in Objects \ {o} : fld'[p] = fld[p] /\ fldEvents'[p] = fldEvents[p]
  <2> HIDE DEF event, changed
  <2> QED BY <1>1, <1>4 DEF TablesTypeOK
<1> QED BY <1>2, <1>5, <1>6, <1>7

(* What a change of status leaves: the fields as they were.                *)
LEMMA StatusWritten ==
  ASSUME TablesTypeOK, NEW o \in Objects, obj[o] \in ObjectRow, NEW s, NEW type,
         WriteStatus(o, s, type)
  PROVE  /\ obj'[o] = [status |-> s, version |-> obj[o].version + 1]
         /\ objEvents'[o] = Append(objEvents[o],
              [type |-> type, seq |-> obj[o].version + 1, status |-> s, changed |-> {}])
         /\ \A p \in Objects \ {o} : obj'[p] = obj[p] /\ objEvents'[p] = objEvents[p]
         /\ fld' = fld /\ fldEvents' = fldEvents
BY DEF TablesTypeOK, WriteStatus

(***************************************************************************)
(* The cases of a write, for the proofs below: a new object, new field     *)
(* values, a new status, or nothing.                                       *)
(***************************************************************************)
LEMMA WriteCases ==
  ASSUME TablesTypeOK, NEW c \in Commands, Admitted(c, Read(c)), Write(c, Read(c))
  PROVE  \/ CreateObject(c)
         \/ UpdateFields(c, Read(c))
         \/ UNCHANGED << obj, fld, objEvents, fldEvents >>
         \/ /\ c.obj \in Objects /\ obj[c.obj] \in ObjectRow
            /\ \E s \in Status, type \in {"StateChanged", "Archived", "SoftDeleted"} :
                 /\ WriteStatus(c.obj, s, type)
                 /\ s \in Transitions(obj[c.obj].status) \cup {"VOID", "DELETED"}
<1>1. CASE ChangeState(c) \/ Archive(c, Read(c)) \/ SoftDelete(c, Read(c))
  <2>1. c.kind # "CreateObject"
    BY <1>1 DEF ChangeState, Archive, SoftDelete
  <2>2. c.obj \in Objects /\ obj[c.obj] \in ObjectRow
    BY <2>1, AdmittedExists
  <2> QED BY <1>1, <2>2, StatusWrites
<1> QED BY <1>1 DEF Write

-----------------------------------------------------------------------------
(***************************************************************************)
(* A write touches one object, the target or a new one, and brings no      *)
(* unique value into the table but those the command claims.               *)
(***************************************************************************)
Brings(c, w) ==
  \A f \in UniqueFields :
    \/ fld'[w][f].value \in {fld[w][f].value, Null, Absent}
    \/ f \in Claims(c, Read(c)) /\ fld'[w][f].value = Canon(c.set[f])

(* Wherever a value changed, the command claims it or it is gone.          *)
LEMMA WriteTouches ==
  ASSUME TablesTypeOK, NEW c \in Commands, Admitted(c, Read(c)), Write(c, Read(c))
  PROVE  \E w \in Objects :
           /\ IF c.kind = "CreateObject" THEN ~Exists(w) ELSE w = c.obj
           /\ \A p \in Objects \ {w} : obj'[p] = obj[p] /\ fld'[p] = fld[p]
           /\ Brings(c, w)
<1>1. CASE CreateObject(c)
  <2>1. c.kind = "CreateObject"
    BY <1>1 DEF CreateObject
  <2>4. PICK w \in Objects : Created(c, w)
    BY <1>1, CreateWrites
  <2>2. /\ ~Exists(w)
        /\ \A f \in Fields :
             IF f \in Named(c) /\ c.set[f] # Null
             THEN fld'[w][f] = [value |-> Canon(c.set[f]), version |-> 1]
             ELSE fld'[w][f] = NoField
        /\ \A p \in Objects \ {w} : obj'[p] = obj[p] /\ fld'[p] = fld[p]
    BY <2>4 DEF Created
  <2>3. ASSUME NEW f \in UniqueFields
        PROVE  \/ fld'[w][f].value \in {fld[w][f].value, Null, Absent}
               \/ f \in Claims(c, Read(c)) /\ fld'[w][f].value = Canon(c.set[f])
    <3>1. f \in Fields
      BY ConstantsApart
    <3>2. CASE f \in Named(c) /\ c.set[f] # Null
      <4>1. fld'[w][f] = [value |-> Canon(c.set[f]), version |-> 1]
        BY <2>2, <3>1, <3>2
      <4>2. fld'[w][f].value = Canon(c.set[f])
        BY <4>1
      <4>3. f \in Claims(c, Read(c))
        BY <2>1, <3>2 DEF Claims
      <4> QED BY <4>2, <4>3
    <3>3. CASE ~(f \in Named(c) /\ c.set[f] # Null)
      <4>1. fld'[w][f] = NoField
        BY <2>2, <3>1, <3>3
      <4> QED BY <4>1 DEF NoField
    <3> QED BY <3>2, <3>3
  <2> QED BY <2>1, <2>2, <2>3 DEF Brings
<1>2. CASE UpdateFields(c, Read(c))
  <2>1. c.kind = "UpdateFields" /\ c.obj \in Objects
    BY <1>2, AdmittedExists DEF UpdateFields
  <2>2. /\ \A f \in Fields :
             IF f \in Changed(c, Read(c))
             THEN fld'[c.obj][f] = [value |-> Canon(c.set[f]), version |-> fld[c.obj][f].version + 1]
             ELSE fld'[c.obj][f] = fld[c.obj][f]
        /\ \A p \in Objects \ {c.obj} : obj'[p] = obj[p] /\ fld'[p] = fld[p]
    BY <1>2, UpdateWrites
  <2>3. ASSUME NEW f \in UniqueFields
        PROVE  \/ fld'[c.obj][f].value \in {fld[c.obj][f].value, Null, Absent}
               \/ f \in Claims(c, Read(c)) /\ fld'[c.obj][f].value = Canon(c.set[f])
    <3>1. f \in Fields
      BY ConstantsApart
    <3>2. CASE f \in Changed(c, Read(c))
      <4>1. fld'[c.obj][f] = [value |-> Canon(c.set[f]), version |-> fld[c.obj][f].version + 1]
        BY <2>2, <3>1, <3>2
      <4>2. fld'[c.obj][f].value = Canon(c.set[f])
        BY <4>1
      <4>3. c.set[f] = Null \/ f \in Claims(c, Read(c))
        BY <2>1, <3>2 DEF Claims
      <4> QED BY <4>2, <4>3 DEF Canon
    <3>3. CASE f \notin Changed(c, Read(c))
      BY <2>2, <3>1, <3>3
    <3> QED BY <3>2, <3>3
  <2> QED BY <2>1, <2>2, <2>3 DEF Brings
<1>3. ASSUME fld' = fld, c.kind # "CreateObject",
             \A p \in Objects \ {c.obj} : obj'[p] = obj[p]
      PROVE  \E w \in Objects :
               /\ w = c.obj
               /\ \A p \in Objects \ {w} : obj'[p] = obj[p] /\ fld'[p] = fld[p]
               /\ Brings(c, w)
  BY <1>3, CommandParts DEF Brings
<1>4. CASE UNCHANGED << obj, fld, objEvents, fldEvents >>
  BY <1>1, <1>2, <1>3, <1>4 DEF Write, ChangeState, Archive, SoftDelete
<1>5. ASSUME c.obj \in Objects, obj[c.obj] \in ObjectRow, NEW s, NEW type,
             WriteStatus(c.obj, s, type)
      PROVE  fld' = fld /\ \A p \in Objects \ {c.obj} : obj'[p] = obj[p]
  BY <1>5, StatusWritten
<1>6. c.obj \in Objects => c.kind # "CreateObject"
  BY CreateHasNoTarget
<1> QED BY <1>1, <1>2, <1>3, <1>4, <1>5, <1>6, WriteCases

(***************************************************************************)
(* Unique values: a command brings a value into the table only when        *)
(* uniqueValueExists has not found it, and the other writes bring none.    *)
(***************************************************************************)
LEMMA WriteKeepsUnique ==
  ASSUME TablesTypeOK, UniqueValues, NEW c \in Commands,
         Admitted(c, Read(c)), Unclaimed(c, Read(c)), Write(c, Read(c))
  PROVE  UniqueValues'
<1>1. PICK w \in Objects :
        /\ IF c.kind = "CreateObject" THEN ~Exists(w) ELSE w = c.obj
        /\ \A p \in Objects \ {w} : obj'[p] = obj[p] /\ fld'[p] = fld[p]
        /\ Brings(c, w)
  BY WriteTouches
<1>2. \A p \in Objects \ {w} : p # c.obj
  BY <1>1, CreateHasNoTarget
<1>3. ASSUME NEW f \in UniqueFields, NEW p \in Objects \ {w},
             fld'[w][f].value = fld[p][f].value
      PROVE  fld'[w][f].value \in {Null, Absent}
  <2>1. CASE fld'[w][f].value = fld[w][f].value
    BY <1>3, <2>1 DEF UniqueValues
  <2>2. CASE f \in Claims(c, Read(c)) /\ fld'[w][f].value = Canon(c.set[f])
    BY <1>2, <1>3, <2>2 DEF Unclaimed, Taken
  <2> QED BY <1>1, <2>1, <2>2 DEF Brings
<1> SUFFICES ASSUME NEW f \in UniqueFields, NEW p \in Objects, NEW q \in Objects,
                    fld'[p][f].value = fld'[q][f].value,
                    fld'[p][f].value \notin {Null, Absent}
             PROVE  p = q
  BY DEF UniqueValues
<1> QED BY <1>1, <1>3 DEF UniqueValues

(***************************************************************************)
(* UniqueValues: no value of a unique field ever belongs to two objects,   *)
(* whatever their statuses, since every write looked for it first.         *)
(***************************************************************************)
THEOREM LedgerUniqueValues == LedgerSpec => []UniqueValues
<1>1. LedgerInit => UniqueValues
  BY ConstantsApart DEF LedgerInit, UniqueValues, NoField
<1>2. TablesTypeOK /\ UniqueValues /\ [LedgerNext]_tables => UniqueValues'
  <2> SUFFICES ASSUME TablesTypeOK, UniqueValues, [LedgerNext]_tables PROVE UniqueValues'
    OBVIOUS
  <2>1. CASE LedgerNext
    BY <2>1, WriteKeepsUnique DEF LedgerNext, Decide
  <2>2. CASE UNCHANGED tables
    BY <2>2 DEF tables, UniqueValues
  <2> QED BY <2>1, <2>2
<1> QED BY <1>1, <1>2, LedgerTypeOK, PTL DEF LedgerSpec

-----------------------------------------------------------------------------
(***************************************************************************)
(* The histories.  Events are written with the rows they tell of, and an   *)
(* id that has not been handed out has neither.                            *)
(***************************************************************************)
NothingUnborn ==
  \A o \in Objects : ~Exists(o) => \A f \in Fields : fld[o][f] = NoField

Histories ==
  /\ NothingUnborn
  /\ FieldEventsTellTheValue
  /\ ObjectEventsTellTheStatus
  /\ ObjectVersionLeads

(* A history grown by the event of the next value still tells the value.   *)
FieldHistory(es, row) ==
  /\ Len(es) = row.version
  /\ \A i \in 1..Len(es) :
       /\ es[i].seq = i
       /\ es[i].before = IF i = 1 THEN Null ELSE es[i - 1].after
  /\ Len(es) > 0 => es[Len(es)].after = row.value

(* One more event, numbered and chained after the last, tells the new row. *)
LEMMA FieldHistoryGrows ==
  ASSUME NEW es \in Seq(FieldEvent), NEW row \in FieldRow \cup {NoField},
         FieldHistory(es, row), NEW x \in Value \cup {Null},
         NEW e, e = [seq |-> row.version + 1, before |-> Shown(row), after |-> x]
  PROVE  FieldHistory(Append(es, e), [value |-> x, version |-> row.version + 1])
<1> DEFINE grown == Append(es, e)
           n == Len(es)
<1>1. row.version \in Nat /\ n \in Nat /\ n = row.version
  BY DEF FieldHistory
<1>2. e \in FieldEvent
  BY <1>1, FieldRowShown DEF FieldEvent
<1>3. /\ Len(grown) = n + 1 /\ grown[n + 1] = e
      /\ \A i \in 1..n : grown[i] = es[i]
  BY <1>2
<1>4. ASSUME NEW i \in 1..(n + 1)
      PROVE /\ grown[i].seq = i
            /\ grown[i].before = IF i = 1 THEN Null ELSE grown[i - 1].after
  <2>1. CASE i \in 1..n
    BY <1>1, <1>3, <2>1 DEF FieldHistory
  <2>2. CASE i = n + 1
    <3>1. grown[i].seq = i
      BY <1>1, <1>3, <2>2
    <3>2. CASE n = 0
      BY <1>1, <1>3, <2>2, <3>2 DEF Shown
    <3>3. CASE n > 0
      <4>1. es[n].after = row.value /\ Shown(row) = row.value
        BY <1>1, <3>3 DEF FieldHistory, Shown
      <4> QED BY <1>1, <1>3, <2>2, <3>1, <3>3, <4>1
    <3> QED BY <1>1, <3>2, <3>3
  <2> QED BY <1>1, <2>1, <2>2
<1> QED BY <1>1, <1>3, <1>4 DEF FieldHistory

(***************************************************************************)
(* A status told by the last event that carries one: the event of the next *)
(* status, or an update, which carries none, may follow.                   *)
(***************************************************************************)
ObjectHistory(es, row) ==
  /\ Len(es) = row.version
  /\ \A i \in 1..Len(es) : es[i].seq = i
  /\ row # NoObject =>
       \E i \in 1..Len(es) :
         /\ es[i].status = row.status
         /\ \A j \in (i + 1)..Len(es) : es[j].status = Absent

(* The same of the object's own events.                                    *)
LEMMA ObjectHistoryGrows ==
  ASSUME NEW es \in Seq(ObjectEvent), NEW row \in ObjectRow \cup {NoObject},
         ObjectHistory(es, row), NEW s, NEW e \in ObjectEvent,
         e.seq = row.version + 1,
         \/ e.status = s
         \/ row # NoObject /\ e.status = Absent /\ s = row.status
  PROVE  ObjectHistory(Append(es, e), [status |-> s, version |-> row.version + 1])
<1> DEFINE grown == Append(es, e)
           n == Len(es)
<1>1. row.version \in Nat /\ n \in Nat /\ n = row.version
  BY DEF ObjectHistory, ObjectRow, NoObject
<1>2. /\ Len(grown) = n + 1 /\ grown[n + 1] = e
      /\ \A i \in 1..n : grown[i] = es[i]
  OBVIOUS
<1>3. \A i \in 1..(n + 1) : grown[i].seq = i
  BY <1>1, <1>2 DEF ObjectHistory
<1>4. \E i \in 1..(n + 1) :
        /\ grown[i].status = s
        /\ \A j \in (i + 1)..(n + 1) : grown[j].status = Absent
  <2>1. CASE e.status = s
    BY <1>1, <1>2, <2>1
  <2>2. CASE row # NoObject /\ e.status = Absent /\ s = row.status
    <3>1. PICK i \in 1..n : /\ es[i].status = row.status
                            /\ \A j \in (i + 1)..n : es[j].status = Absent
      BY <2>2 DEF ObjectHistory
    <3>2. \A j \in (i + 1)..(n + 1) : grown[j].status = Absent
      BY <1>1, <1>2, <2>2, <3>1
    <3> QED BY <1>1, <1>2, <2>2, <3>1, <3>2
  <2> QED BY <2>1, <2>2
<1> QED BY <1>1, <1>2, <1>3, <1>4 DEF ObjectHistory

(* The three histories of one object, as Histories states them of all.     *)
HistoryOf(o, row, fs, oes, fes) ==
  /\ ObjectHistory(oes, row)
  /\ \A f \in Fields : /\ FieldHistory(fes[f], fs[f])
                       /\ fs[f].version <= row.version
                       /\ row = NoObject => fs[f] = NoField

(* Histories speaks of each object on its own,                             *)
LEMMA HistoriesByObject ==
  Histories <=> \A o \in Objects : HistoryOf(o, obj[o], fld[o], objEvents[o], fldEvents[o])
BY DEF Histories, HistoryOf, NothingUnborn, FieldEventsTellTheValue, FieldHistory,
       ObjectEventsTellTheStatus, ObjectHistory, ObjectVersionLeads, Exists

(* and so it does of the next state.                                       *)
LEMMA HistoriesAfter ==
  (\A o \in Objects : HistoryOf(o, obj'[o], fld'[o], objEvents'[o], fldEvents'[o]))
    => Histories'
BY DEF Histories, HistoryOf, NothingUnborn, FieldEventsTellTheValue, FieldHistory,
       ObjectEventsTellTheStatus, ObjectHistory, ObjectVersionLeads, Exists

(* A missing row is no row.                                                *)
LEMMA NoObjectIsNoRow == NoObject \notin ObjectRow
BY DEF NoObject, ObjectRow

(* CreateObject starts the histories of an id that had none.               *)
LEMMA CreateKeepsHistories ==
  ASSUME TablesTypeOK, Histories, NEW c \in Commands, CreateObject(c)
  PROVE  Histories'
<1>0. PICK w \in Objects : Created(c, w)
  BY CreateWrites
<1>1. /\ ~Exists(w)
      /\ obj'[w] = [status |-> c.to, version |-> 1]
      /\ objEvents'[w] = Append(objEvents[w],
           [type |-> "ObjectCreated", seq |-> 1, status |-> c.to, changed |-> {}])
      /\ \A f \in Fields :
           IF f \in Named(c) /\ c.set[f] # Null
           THEN /\ fld'[w][f] = [value |-> Canon(c.set[f]), version |-> 1]
                /\ fldEvents'[w][f] = Append(fldEvents[w][f],
                     [seq |-> 1, before |-> Null, after |-> Canon(c.set[f])])
           ELSE fld'[w][f] = NoField /\ fldEvents'[w][f] = fldEvents[w][f]
      /\ \A p \in Objects \ {w} :
           /\ obj'[p] = obj[p] /\ objEvents'[p] = objEvents[p]
           /\ fld'[p] = fld[p] /\ fldEvents'[p] = fldEvents[p]
  BY <1>0 DEF Created
<1>2. /\ obj[w] = NoObject
      /\ ObjectHistory(objEvents[w], NoObject)
      /\ \A f \in Fields : fld[w][f] = NoField /\ FieldHistory(fldEvents[w][f], NoField)
  BY <1>1, HistoriesByObject DEF HistoryOf, Exists
<1>3. ObjectHistory(objEvents'[w], obj'[w])
  <2> DEFINE e == [type |-> "ObjectCreated", seq |-> 1, status |-> c.to, changed |-> {}]
  <2>1. e \in ObjectEvent
    BY CommandParts DEF ObjectEvent, CreateObject
  <2>2. NoObject.version = 0 /\ e.seq = 1 /\ e.status = c.to
    BY DEF NoObject
  <2>3. objEvents[w] \in Seq(ObjectEvent)
    BY DEF TablesTypeOK
  <2> HIDE DEF e
  <2>4. ObjectHistory(Append(objEvents[w], e), [status |-> c.to, version |-> NoObject.version + 1])
    BY <1>2, <2>1, <2>2, <2>3, ObjectHistoryGrows
  <2> QED BY <1>1, <2>2, <2>4 DEF e
<1>4. ASSUME NEW f \in Fields
      PROVE  FieldHistory(fldEvents'[w][f], fld'[w][f]) /\ fld'[w][f].version <= 1
  <2>1. CASE f \in Named(c) /\ c.set[f] # Null
    <3> DEFINE e == [seq |-> 1, before |-> Null, after |-> Canon(c.set[f])]
    <3>1. fldEvents[w][f] \in Seq(FieldEvent) /\ Canon(c.set[f]) \in Value \cup {Null}
      BY <2>1, CanonType DEF TablesTypeOK
    <3>2. NoField.version = 0 /\ Shown(NoField) = Null
      BY DEF NoField, Shown
    <3>3. e = [seq |-> NoField.version + 1, before |-> Shown(NoField), after |-> Canon(c.set[f])]
      BY <3>2
    <3> HIDE DEF e
    <3>4. FieldHistory(Append(fldEvents[w][f], e),
                       [value |-> Canon(c.set[f]), version |-> NoField.version + 1])
      BY <1>2, <3>1, <3>3, FieldHistoryGrows
    <3>5. fldEvents'[w][f] = Append(fldEvents[w][f], e)
          /\ fld'[w][f] = [value |-> Canon(c.set[f]), version |-> 1]
      BY <1>1, <2>1 DEF e
    <3> QED BY <3>2, <3>4, <3>5
  <2>2. CASE ~(f \in Named(c) /\ c.set[f] # Null)
    <3>1. fld'[w][f] = NoField /\ fldEvents'[w][f] = fldEvents[w][f]
      BY <1>1, <2>2
    <3> QED BY <1>2, <3>1 DEF NoField
  <2> QED BY <2>1, <2>2
<1>5. HistoryOf(w, obj'[w], fld'[w], objEvents'[w], fldEvents'[w])
  <2>1. obj'[w].version = 1 /\ obj'[w] # NoObject
    BY <1>1 DEF NoObject
  <2> QED BY <1>3, <1>4, <2>1 DEF HistoryOf
<1>6. \A p \in Objects : HistoryOf(p, obj'[p], fld'[p], objEvents'[p], fldEvents'[p])
  BY <1>1, <1>5, HistoriesByObject
<1> QED BY <1>6, HistoriesAfter

(* UpdateFields prolongs those of the fields that changed.                 *)
LEMMA UpdateKeepsHistories ==
  ASSUME TablesTypeOK, Histories, NEW c \in Commands, Admitted(c, Read(c)),
         UpdateFields(c, Read(c))
  PROVE  Histories'
<1> DEFINE o == c.obj
           changed == Changed(c, Read(c))
           v == obj[o].version
<1>1. /\ o \in Objects /\ obj[o] \in ObjectRow /\ Exists(o) /\ v \in Nat \ {0}
      /\ HistoryOf(o, obj[o], fld[o], objEvents[o], fldEvents[o])
  BY AdmittedExists, HistoriesByObject DEF UpdateFields
<1>2. /\ obj'[o].status = obj[o].status
      /\ obj'[o].version = v + (IF changed = {} THEN 0 ELSE 1)
      /\ objEvents'[o] = IF changed = {} THEN objEvents[o] ELSE Append(objEvents[o],
              [type |-> "ObjectUpdated", seq |-> v + 1,
               status |-> Absent, changed |-> changed])
      /\ changed \subseteq Fields
      /\ \A f \in Fields :
           IF f \in changed
           THEN /\ fld'[o][f] = [value |-> Canon(c.set[f]), version |-> fld[o][f].version + 1]
                /\ fldEvents'[o][f] = Append(fldEvents[o][f],
                     [seq |-> fld[o][f].version + 1, before |-> Shown(fld[o][f]),
                      after |-> Canon(c.set[f])])
           ELSE fld'[o][f] = fld[o][f] /\ fldEvents'[o][f] = fldEvents[o][f]
      /\ \A p \in Objects \ {o} :
           /\ obj'[p] = obj[p] /\ objEvents'[p] = objEvents[p]
           /\ fld'[p] = fld[p] /\ fldEvents'[p] = fldEvents[p]
  BY UpdateWrites
<1> HIDE DEF changed
<1>8. /\ v \in Nat \ {0} /\ changed \subseteq Fields
      /\ obj'[o].version = v + (IF changed = {} THEN 0 ELSE 1)
  BY <1>1, <1>2
<1>3. obj'[o] \in ObjectRow
  <2>1. obj'[o] \in ObjectRow \cup {NoObject}
    BY <1>1, UpdateType
  <2>2. obj'[o].version # 0
    BY <1>8
  <2> QED BY <2>1, <2>2 DEF NoObject
<1>4. ObjectHistory(objEvents'[o], obj'[o])
  <2>1. CASE changed = {}
    <3>1. obj'[o] = obj[o] /\ objEvents'[o] = objEvents[o]
      BY <1>1, <1>2, <1>3, <2>1 DEF ObjectRow
    <3> QED BY <1>1, <3>1 DEF HistoryOf
  <2>2. CASE changed # {}
    <3> DEFINE e == [type |-> "ObjectUpdated", seq |-> v + 1,
                     status |-> Absent, changed |-> changed]
    <3>1. e \in ObjectEvent /\ e.seq = v + 1 /\ e.status = Absent
      BY <1>8 DEF ObjectEvent
    <3>2. objEvents[o] \in Seq(ObjectEvent) /\ obj[o] # NoObject
      BY <1>1 DEF TablesTypeOK, Exists
    <3>3. objEvents'[o] = Append(objEvents[o], e)
      BY <1>2, <2>2
    <3>4. obj'[o] = [status |-> obj[o].status, version |-> v + 1]
      BY <1>2, <1>3, <2>2 DEF ObjectRow
    <3>5. ObjectHistory(objEvents[o], obj[o])
      BY <1>1 DEF HistoryOf
    <3> HIDE DEF e
    <3>6. ObjectHistory(Append(objEvents[o], e), [status |-> obj[o].status, version |-> v + 1])
      BY <1>1, <3>1, <3>2, <3>5, ObjectHistoryGrows
    <3> QED BY <3>3, <3>4, <3>6
  <2> QED BY <2>1, <2>2
<1>5. ASSUME NEW f \in Fields
      PROVE  FieldHistory(fldEvents'[o][f], fld'[o][f]) /\ fld'[o][f].version <= obj'[o].version
  <2>1. /\ FieldHistory(fldEvents[o][f], fld[o][f]) /\ fld[o][f].version <= v
        /\ fldEvents[o][f] \in Seq(FieldEvent) /\ fld[o][f] \in FieldRow \cup {NoField}
        /\ fld[o][f].version \in Nat
    BY <1>1, FieldRowShown DEF HistoryOf, TablesTypeOK
  <2>2. CASE f \in changed
    <3> DEFINE e == [seq |-> fld[o][f].version + 1, before |-> Shown(fld[o][f]),
                     after |-> Canon(c.set[f])]
               row == [value |-> Canon(c.set[f]), version |-> fld[o][f].version + 1]
    <3>1. Canon(c.set[f]) \in Value \cup {Null}
      BY <2>2, CanonType DEF changed, Changed
    <3>2. fldEvents'[o][f] = Append(fldEvents[o][f], e) /\ fld'[o][f] = row
      BY <1>2, <2>2
    <3>3. FieldHistory(Append(fldEvents[o][f], e), row)
      <4>1. e = [seq |-> fld[o][f].version + 1, before |-> Shown(fld[o][f]),
                 after |-> Canon(c.set[f])]
        OBVIOUS
      <4> HIDE DEF e
      <4> QED BY <2>1, <3>1, <4>1, FieldHistoryGrows
    <3>4. obj'[o].version = v + 1
      BY <1>2, <2>2
    <3>5. fld'[o][f].version = fld[o][f].version + 1
      BY <3>2
    <3> HIDE DEF e, row
    <3>6. fld'[o][f].version <= obj'[o].version
      BY <1>1, <2>1, <3>4, <3>5
    <3>7. FieldHistory(fldEvents'[o][f], fld'[o][f])
      BY <3>2, <3>3
    <3> QED BY <3>6, <3>7
  <2>3. CASE f \notin changed
    <3>1. fld'[o][f] = fld[o][f] /\ fldEvents'[o][f] = fldEvents[o][f]
      BY <1>2, <2>3
    <3>2. v <= obj'[o].version /\ obj'[o].version \in Nat
      BY <1>8
    <3>3. fld'[o][f].version <= obj'[o].version
      BY <1>1, <2>1, <3>1, <3>2
    <3> QED BY <2>1, <3>1, <3>3
  <2> QED BY <2>2, <2>3
<1>6. HistoryOf(o, obj'[o], fld'[o], objEvents'[o], fldEvents'[o])
  BY <1>3, <1>4, <1>5, NoObjectIsNoRow DEF HistoryOf
<1>7. \A p \in Objects : HistoryOf(p, obj'[p], fld'[p], objEvents'[p], fldEvents'[p])
  BY <1>2, <1>6, HistoriesByObject
<1> QED BY <1>7, HistoriesAfter

(* A change of status prolongs the object's own.                           *)
LEMMA StatusKeepsHistories ==
  ASSUME TablesTypeOK, Histories, NEW o \in Objects, obj[o] \in ObjectRow,
         NEW s \in Status, NEW type \in {"StateChanged", "Archived", "SoftDeleted"},
         WriteStatus(o, s, type)
  PROVE  Histories'
<1> DEFINE v == obj[o].version
           e == [type |-> type, seq |-> v + 1, status |-> s, changed |-> {}]
<1>1. /\ obj'[o] = [status |-> s, version |-> v + 1]
      /\ objEvents'[o] = Append(objEvents[o], e)
      /\ \A p \in Objects \ {o} : obj'[p] = obj[p] /\ objEvents'[p] = objEvents[p]
      /\ fld' = fld /\ fldEvents' = fldEvents
  BY StatusWritten
<1>2. /\ v \in Nat \ {0} /\ e \in ObjectEvent /\ e.seq = v + 1 /\ e.status = s
      /\ objEvents[o] \in Seq(ObjectEvent)
  <2>1. v \in Nat \ {0} /\ objEvents[o] \in Seq(ObjectEvent)
    BY DEF ObjectRow, TablesTypeOK
  <2>2. e \in ObjectEvent
    BY <2>1 DEF ObjectEvent
  <2> QED BY <2>1, <2>2
<1>3. HistoryOf(o, obj[o], fld[o], objEvents[o], fldEvents[o])
  BY HistoriesByObject
<1> HIDE DEF e
<1>4. ObjectHistory(Append(objEvents[o], e), [status |-> s, version |-> v + 1])
  BY <1>2, <1>3, ObjectHistoryGrows DEF HistoryOf
<1>5. \A f \in Fields : fld[o][f].version \in Nat
  BY FieldRowShown DEF TablesTypeOK
<1>6. obj'[o].version = v + 1 /\ obj'[o] # NoObject
  BY <1>1, <1>2 DEF NoObject
<1>7. HistoryOf(o, obj'[o], fld'[o], objEvents'[o], fldEvents'[o])
  BY <1>1, <1>2, <1>3, <1>4, <1>5, <1>6 DEF HistoryOf
<1>8. \A p \in Objects : HistoryOf(p, obj'[p], fld'[p], objEvents'[p], fldEvents'[p])
  BY <1>1, <1>7, HistoriesByObject
<1> QED BY <1>8, HistoriesAfter

(* So every write keeps all histories.                                     *)
LEMMA WriteKeepsHistories ==
  ASSUME TablesTypeOK, Histories, NEW c \in Commands, Admitted(c, Read(c)),
         Write(c, Read(c))
  PROVE  Histories'
<1>1. CASE CreateObject(c)
  BY <1>1, CreateKeepsHistories
<1>2. CASE UpdateFields(c, Read(c))
  BY <1>2, UpdateKeepsHistories
<1>3. CASE UNCHANGED << obj, fld, objEvents, fldEvents >>
  BY <1>3 DEF Histories, NothingUnborn, FieldEventsTellTheValue,
              ObjectEventsTellTheStatus, ObjectVersionLeads, Exists
<1>4. ASSUME c.obj \in Objects, obj[c.obj] \in ObjectRow,
             NEW s \in Status, NEW type \in {"StateChanged", "Archived", "SoftDeleted"},
             WriteStatus(c.obj, s, type)
      PROVE  Histories'
  BY <1>4, StatusKeepsHistories
<1> QED BY <1>1, <1>2, <1>3, <1>4, WriteCases

(***************************************************************************)
(* The events of an object and of its fields tell what the tables hold:    *)
(* FieldEventsTellTheValue, ObjectEventsTellTheStatus, ObjectVersionLeads. *)
(* They are inductive together, with NothingUnborn: CreateObject starts    *)
(* its histories on an id that has none.                                   *)
(***************************************************************************)
THEOREM LedgerHistories == LedgerSpec => []Histories
<1>1. LedgerInit => Histories
  BY DEF LedgerInit, Histories, NothingUnborn, FieldEventsTellTheValue,
         ObjectEventsTellTheStatus, ObjectVersionLeads, Exists, NoField, NoObject
<1>2. TablesTypeOK /\ Histories /\ [LedgerNext]_tables => Histories'
  <2> SUFFICES ASSUME TablesTypeOK, Histories, [LedgerNext]_tables PROVE Histories'
    OBVIOUS
  <2>1. CASE LedgerNext
    BY <2>1, WriteKeepsHistories DEF LedgerNext, Decide
  <2>2. CASE UNCHANGED tables
    BY <2>2 DEF tables, Histories, NothingUnborn, FieldEventsTellTheValue,
                ObjectEventsTellTheStatus, ObjectVersionLeads, Exists
  <2> QED BY <2>1, <2>2
<1> QED BY <1>1, <1>2, LedgerTypeOK, PTL DEF LedgerSpec

-----------------------------------------------------------------------------
(* Required fields: no write leaves one of an existing object without one. *)
LEMMA WriteKeepsRequired ==
  ASSUME TablesTypeOK, RequiredPresent, NEW c \in Commands, Admitted(c, Read(c)),
         Write(c, Read(c))
  PROVE  RequiredPresent'
<1> DEFINE Good(p) == obj'[p] # NoObject => \A f \in RequiredFields : fld'[p][f].value \in Value
<1>1. \A p \in Objects : obj'[p] = obj[p] /\ fld'[p] = fld[p] => Good(p)
  BY DEF RequiredPresent, Exists
<1>2. CASE CreateObject(c)
  <2>9. PICK w \in Objects : Created(c, w)
    BY <1>2, CreateWrites
  <2>1. /\ \A f \in Fields :
             f \in Named(c) /\ c.set[f] # Null
               => fld'[w][f] = [value |-> Canon(c.set[f]), version |-> 1]
        /\ \A p \in Objects \ {w} : obj'[p] = obj[p] /\ fld'[p] = fld[p]
    BY <2>9 DEF Created
  <2>2. RequiredGiven(c, Fields)
    BY <1>2 DEF CreateObject, Admitted, CreateAdmitted, UpdateAdmitted,
                ChangeStateAdmitted, RemovalAdmitted
  <2>3. ASSUME NEW f \in RequiredFields PROVE fld'[w][f].value \in Value
    <3>1. f \in Fields /\ c.set[f] \in Text
      BY <2>2, ConstantsApart DEF RequiredGiven
    <3>2. f \in Named(c) /\ c.set[f] # Null
      BY <3>1, ConstantsApart DEF Named
    <3>3. fld'[w][f] = [value |-> Canon(c.set[f]), version |-> 1]
      BY <2>1, <3>1, <3>2
    <3>4. Canon(c.set[f]) \in Value
      BY <3>2, CanonType
    <3> QED BY <3>3, <3>4
  <2> QED BY <1>1, <2>1, <2>3 DEF RequiredPresent, Exists
<1>3. CASE UpdateFields(c, Read(c))
  <2>1. /\ c.obj \in Objects /\ Exists(c.obj)
        /\ RequiredGiven(c, Named(c))
    BY <1>3, AdmittedExists
       DEF UpdateFields, Admitted, CreateAdmitted, UpdateAdmitted, ChangeStateAdmitted,
           RemovalAdmitted
  <2>2. /\ \A f \in Fields :
             IF f \in Changed(c, Read(c))
             THEN fld'[c.obj][f] = [value |-> Canon(c.set[f]), version |-> fld[c.obj][f].version + 1]
             ELSE fld'[c.obj][f] = fld[c.obj][f]
        /\ \A p \in Objects \ {c.obj} : obj'[p] = obj[p] /\ fld'[p] = fld[p]
    BY <1>3, UpdateWrites
  <2>3. ASSUME NEW f \in RequiredFields PROVE fld'[c.obj][f].value \in Value
    <3>1. f \in Fields
      BY ConstantsApart
    <3>2. CASE f \in Changed(c, Read(c))
      <4>1. f \in Named(c) /\ c.set[f] \in Text
        BY <2>1, <3>2 DEF Changed, RequiredGiven
      <4>2. Canon(c.set[f]) \in Value
        BY <4>1, CanonType, ConstantsApart
      <4>3. fld'[c.obj][f] = [value |-> Canon(c.set[f]), version |-> fld[c.obj][f].version + 1]
        BY <2>2, <3>1, <3>2
      <4> QED BY <4>2, <4>3
    <3>3. CASE f \notin Changed(c, Read(c))
      BY <2>1, <2>2, <3>1, <3>3 DEF RequiredPresent
    <3> QED BY <3>2, <3>3
  <2> QED BY <1>1, <2>2, <2>3 DEF RequiredPresent, Exists
<1>4. CASE UNCHANGED << obj, fld >>
  BY <1>1, <1>4 DEF RequiredPresent, Exists
<1>5. ASSUME c.obj \in Objects, obj[c.obj] \in ObjectRow, NEW s, NEW type,
             WriteStatus(c.obj, s, type)
      PROVE  RequiredPresent'
  <2>1. fld' = fld /\ Exists(c.obj) /\ \A p \in Objects \ {c.obj} : obj'[p] = obj[p]
    BY <1>5, StatusWritten, NoObjectIsNoRow DEF Exists
  <2> QED BY <2>1 DEF RequiredPresent, Exists
<1> QED BY <1>2, <1>3, <1>4, <1>5, WriteCases

(***************************************************************************)
(* A required field of an existing object always has a value.              *)
(***************************************************************************)
THEOREM LedgerRequired == LedgerSpec => []RequiredPresent
<1>1. LedgerInit => RequiredPresent
  BY DEF LedgerInit, RequiredPresent, Exists
<1>2. TablesTypeOK /\ RequiredPresent /\ [LedgerNext]_tables => RequiredPresent'
  <2> SUFFICES ASSUME TablesTypeOK, RequiredPresent, [LedgerNext]_tables
               PROVE RequiredPresent'
    OBVIOUS
  <2>1. CASE LedgerNext
    BY <2>1, WriteKeepsRequired DEF LedgerNext, Decide
  <2>2. CASE UNCHANGED tables
    BY <2>2 DEF tables, RequiredPresent, Exists
  <2> QED BY <2>1, <2>2
<1> QED BY <1>1, <1>2, LedgerTypeOK, PTL DEF LedgerSpec

-----------------------------------------------------------------------------
(***************************************************************************)
(* What no step does: ArchivedFieldsFrozen - the fields of an archived     *)
(* object never change - and StatusMovesForward.                           *)
(***************************************************************************)
THEOREM LedgerFrozen == LedgerSpec => ArchivedFieldsFrozen
<1> DEFINE Frozen == \A o \in Objects : obj[o].status \in Archived => fld'[o] = fld[o]
<1>1. ASSUME TablesTypeOK, NEW c \in Commands, Decide(c) PROVE Frozen
  <2>1. CASE CreateObject(c)
    <3>1. PICK w \in Objects : ~Exists(w) /\ \A p \in Objects \ {w} : fld'[p] = fld[p]
      BY <2>1, <1>1, CreateWrites DEF Created
    <3>2. obj[w].status \notin Archived
      BY <3>1, StatusIsPresent DEF Exists, NoObject, Archived, Status
    <3> QED BY <3>1, <3>2
  <2>2. CASE UpdateFields(c, Read(c))
    <3>1. obj[c.obj].status \notin Archived /\ c.obj \in Objects
      BY <1>1, <2>2, AdmittedExists
         DEF Decide, UpdateFields, Admitted, CreateAdmitted, UpdateAdmitted,
             ChangeStateAdmitted, RemovalAdmitted
    <3>2. \A p \in Objects \ {c.obj} : fld'[p] = fld[p]
      BY <1>1, <2>2, UpdateWrites DEF Decide
    <3> QED BY <3>1, <3>2
  <2>3. CASE UNCHANGED fld
    BY <2>3
  <2> QED BY <1>1, <2>1, <2>2, <2>3, WriteCases DEF Decide, WriteStatus
<1>2. TablesTypeOK /\ [LedgerNext]_tables => [Frozen]_tables
  BY <1>1 DEF LedgerNext
<1> QED BY <1>2, LedgerTypeOK, PTL DEF LedgerSpec, ArchivedFieldsFrozen

(***************************************************************************)
(* StatusMovesForward: a status moves one step along the controlled order, *)
(* to VOID or to DELETED, and its version with it.                         *)
(***************************************************************************)
THEOREM LedgerMovesForward == LedgerSpec => StatusMovesForward
<1> DEFINE Moved(o) == /\ \/ obj'[o].status \in Transitions(obj[o].status)
                          \/ obj'[o].status \in {"VOID", "DELETED"}
                       /\ obj'[o].version = obj[o].version + 1
           Forward == \A o \in Objects :
                        Exists(o) /\ obj'[o].status # obj[o].status => Moved(o)
<1>1. ASSUME TablesTypeOK, NEW c \in Commands, Decide(c) PROVE Forward
  <2>1. CASE CreateObject(c)
    <3>1. PICK w \in Objects : ~Exists(w) /\ \A p \in Objects \ {w} : obj'[p] = obj[p]
      BY <2>1, <1>1, CreateWrites DEF Created
    <3> QED BY <3>1
  <2>2. CASE UpdateFields(c, Read(c))
    <3>1. /\ obj'[c.obj].status = obj[c.obj].status
          /\ \A p \in Objects \ {c.obj} : obj'[p] = obj[p]
      BY <1>1, <2>2, UpdateWrites DEF Decide
    <3> QED BY <3>1
  <2>3. CASE UNCHANGED obj
    BY <2>3
  <2>4. ASSUME c.obj \in Objects, obj[c.obj] \in ObjectRow,
               NEW s \in Transitions(obj[c.obj].status) \cup {"VOID", "DELETED"}, NEW type,
               WriteStatus(c.obj, s, type)
        PROVE  Forward
    <3>1. /\ obj'[c.obj] = [status |-> s, version |-> obj[c.obj].version + 1]
          /\ \A p \in Objects \ {c.obj} : obj'[p] = obj[p]
      BY <1>1, <2>4, StatusWritten
    <3>2. obj'[c.obj].status = s /\ obj'[c.obj].version = obj[c.obj].version + 1
      BY <3>1
    <3>3. Moved(c.obj)
      BY <2>4, <3>2
    <3> QED BY <3>1, <3>3
  <2> QED BY <1>1, <2>1, <2>2, <2>3, <2>4, WriteCases DEF Decide
<1>2. TablesTypeOK /\ [LedgerNext]_tables => [Forward]_tables
  BY <1>1 DEF LedgerNext
<1> QED BY <1>2, LedgerTypeOK, PTL DEF LedgerSpec, StatusMovesForward

-----------------------------------------------------------------------------
(***************************************************************************)
(* THE HANDLERS.                                                           *)
(***************************************************************************)
DistinctTexts == \A x, y \in Text : Jsonb[x] = Jsonb[y] => x = y

(***************************************************************************)
(* What a transaction knows of the tables it has read, and the locks that  *)
(* keep it true.                                                           *)
(***************************************************************************)
Knows(t) ==
  LET c == tx[t].cmd
      claims == Claims(c, tx[t].seen)
  IN
  /\ tx[t].seen = Read(c)
  /\ Admitted(c, Read(c))
  /\ c.kind # "CreateObject" => ObjectLock(c.obj) \in held[t]
  /\ tx[t].todo \subseteq claims
  /\ \A f \in claims \ tx[t].todo :
       ValueLock(f, c.set[f]) \in held[t] /\ ~Taken(c, f)

Guarded ==
  \A t \in Threads :
    /\ tx[t].pc = "idle" => held[t] = {}
    /\ tx[t].pc \in {"unique", "commit"} => Knows(t)
    /\ tx[t].pc = "commit" => tx[t].todo = {}

(* Inductive: type, exclusive locks, and what they guard.                  *)
IndInv == TypeOK /\ LocksExclusive /\ Guarded

-----------------------------------------------------------------------------
(* A transaction that is under way has a command.                          *)
LEMMA RunningCommand ==
  ASSUME TypeOK, NEW t \in Threads, tx[t].pc # "idle"
  PROVE  tx[t].cmd \in Commands /\ TablesTypeOK /\ tx[t] \in Transaction
BY DEF TypeOK, Transaction

(* A claimed value is a text of a unique field, and its lock exists.       *)
LEMMA ClaimType ==
  ASSUME NEW c \in Commands, NEW seen, NEW f \in Claims(c, seen)
  PROVE  f \in UniqueFields /\ f \in Named(c) /\ c.set[f] \in Text
         /\ ValueLock(f, c.set[f]) \in Lock
BY CanonType DEF Claims, Changed, Lock

(* Absent is no command.                                                   *)
LEMMA CommandIsPresent == Absent \notin Commands
BY CommandsWellFormed

(* Reading nothing gives a snapshot.                                       *)
LEMMA NothingReadType == NothingRead \in Snapshot
BY DEF NothingRead, Snapshot

(* A transaction begins well typed.                                        *)
LEMMA BeginType ==
  ASSUME NEW c \in Commands \cup {Absent}, NEW pc \in PCs, NEW reply \in Replies
  PROVE  Begin(c, pc, reply) \in Transaction
         /\ Begin(c, pc, reply).pc = pc /\ Begin(c, pc, reply).cmd = c
<1>1. NothingRead \in Snapshot /\ {} \in SUBSET Fields
  BY NothingReadType
<1> HIDE DEF NothingRead, Snapshot
<1> QED BY <1>1 DEF Transaction, Begin

(* Nothing was read into a snapshot of the wrong type.                     *)
LEMMA ReadSnapshot ==
  ASSUME TablesTypeOK, NEW c \in Commands
  PROVE  Read(c) \in Snapshot /\ NothingRead \in Snapshot
BY ReadType DEF Snapshot, Read, NothingRead

-----------------------------------------------------------------------------
(***************************************************************************)
(* A commit does not disturb what another transaction knows: it writes a   *)
(* row the other has not read, and no value the other has found free.      *)
(***************************************************************************)
LEMMA CommitKeepsOthers ==
  ASSUME IndInv, DistinctTexts, NEW t \in Threads, NEW u \in Threads \ {t},
         tx[t].pc = "commit", Write(tx[t].cmd, tx[t].seen),
         tx[u].pc \in {"unique", "commit"}, NEW d \in Commands, d = tx[u].cmd
  PROVE  /\ Read(d)' = Read(d)
         /\ \A f \in Claims(d, tx[u].seen) \ tx[u].todo : ~Taken(d, f)'
<1> DEFINE c == tx[t].cmd
<1>1. /\ c \in Commands /\ d \in Commands /\ TablesTypeOK
      /\ Knows(t) /\ Knows(u) /\ tx[t].todo = {}
      /\ held[t] \cap held[u] = {}
  BY RunningCommand DEF IndInv, Guarded, LocksExclusive
<1>2. Admitted(c, Read(c)) /\ Write(c, Read(c))
  BY <1>1 DEF Knows
<1>3. PICK w \in Objects :
        /\ IF c.kind = "CreateObject" THEN ~Exists(w) ELSE w = c.obj
        /\ \A p \in Objects \ {w} : obj'[p] = obj[p] /\ fld'[p] = fld[p]
        /\ Brings(c, w)
  BY <1>1, <1>2, WriteTouches
<1>4. d.kind # "CreateObject" => d.obj \in Objects \ {w}
  <2> SUFFICES ASSUME d.kind # "CreateObject" PROVE d.obj \in Objects \ {w}
    OBVIOUS
  <2>1. d.obj \in Objects /\ Exists(d.obj) /\ ObjectLock(d.obj) \in held[u]
    BY <1>1, AdmittedExists DEF Knows
  <2>2. CASE c.kind = "CreateObject"
    BY <1>3, <2>1, <2>2
  <2>3. CASE c.kind # "CreateObject"
    <3>1. ObjectLock(w) \in held[t]
      BY <1>1, <1>3, <2>3 DEF Knows
    <3> QED BY <1>1, <2>1, <3>1
  <2> QED BY <2>2, <2>3
<1>5. Read(d)' = Read(d)
  BY <1>3, <1>4 DEF Read, NothingRead
<1>6. ASSUME NEW f \in Claims(d, tx[u].seen) \ tx[u].todo PROVE ~Taken(d, f)'
  <2>1. /\ f \in UniqueFields /\ f \in Named(d) /\ d.set[f] \in Text
        /\ ValueLock(f, d.set[f]) \in held[u] /\ ~Taken(d, f)
    BY <1>1, <1>6, ClaimType DEF Knows
  <2>2. Canon(d.set[f]) = Jsonb[d.set[f]] /\ Canon(d.set[f]) \notin {Null, Absent}
    BY <2>1, ConstantsApart DEF Canon
  <2>3. fld'[w][f].value = Canon(d.set[f]) => fld[w][f].value = Canon(d.set[f])
    <3> SUFFICES ASSUME fld'[w][f].value = Canon(d.set[f]),
                        f \in Claims(c, Read(c)), fld'[w][f].value = Canon(c.set[f])
                 PROVE  FALSE
      BY <1>3, <2>1, <2>2 DEF Brings
    <3>1. c.set[f] \in Text /\ ValueLock(f, c.set[f]) \in held[t]
      BY <1>1, ClaimType DEF Knows
    <3>2. Canon(c.set[f]) = Jsonb[c.set[f]]
      BY <3>1, ConstantsApart DEF Canon
    <3>3. Jsonb[c.set[f]] = Jsonb[d.set[f]]
      BY <2>2, <3>2
    <3>4. c.set[f] = d.set[f]
      BY <2>1, <3>1, <3>3 DEF DistinctTexts
    <3> QED BY <1>1, <2>1, <3>1, <3>4
  <2>4. \A p \in Objects : fld'[p][f].value = Canon(d.set[f]) => fld[p][f].value = Canon(d.set[f])
    BY <1>3, <2>3
  <2> QED BY <2>1, <2>4 DEF Taken
<1> QED BY <1>5, <1>6

-----------------------------------------------------------------------------
(* The steps.  Those that write no table differ in what they do to t only. *)

(* What a transaction knows of the tables survives a step that leaves them.*)
LEMMA QuietKeepsKnowledge ==
  ASSUME NEW u \in Threads, tx'[u] = tx[u], held'[u] = held[u], UNCHANGED tables
  PROVE  Knows(u) => Knows(u)'
BY DEF Knows, Read, NothingRead, Taken, tables

(***************************************************************************)
(* A step of t that writes no table keeps the invariant, if t's own record *)
(* does.                                                                   *)
(***************************************************************************)
LEMMA QuietStep ==
  ASSUME IndInv, NEW t \in Threads, NEW a \in Transaction, NEW H \in SUBSET Lock,
         tx' = [tx EXCEPT ![t] = a], held' = [held EXCEPT ![t] = H], UNCHANGED tables,
         a.pc # "idle" => a.cmd # Absent,
         \A u \in Threads \ {t} : H \cap held[u] = {},
         a.pc = "idle" => H = {},
         a.pc \in {"unique", "commit"} => Knows(t)',
         a.pc = "commit" => a.todo = {}
  PROVE  IndInv'
<1>1. /\ tx'[t] = a /\ held'[t] = H
      /\ \A u \in Threads \ {t} : tx'[u] = tx[u] /\ held'[u] = held[u]
  BY DEF IndInv, TypeOK
<1>2. TypeOK'
  <2>1. TablesTypeOK'
    BY DEF IndInv, TypeOK, TablesTypeOK, tables
  <2>2. tx' \in [Threads -> Transaction] /\ held' \in [Threads -> SUBSET Lock]
    BY DEF IndInv, TypeOK
  <2>3. \A u \in Threads : tx'[u].pc # "idle" => tx'[u].cmd # Absent
    BY <1>1 DEF IndInv, TypeOK
  <2> QED BY <2>1, <2>2, <2>3 DEF TypeOK
<1>3. LocksExclusive'
  BY <1>1 DEF IndInv, LocksExclusive
<1>4. Guarded'
  <2>1. ASSUME NEW u \in Threads \ {t}
        PROVE  /\ tx'[u].pc = "idle" => held'[u] = {}
               /\ tx'[u].pc \in {"unique", "commit"} => Knows(u)'
               /\ tx'[u].pc = "commit" => tx'[u].todo = {}
    BY <1>1, QuietKeepsKnowledge DEF IndInv, Guarded
  <2> QED BY <1>1, <2>1 DEF Guarded
<1> QED BY <1>2, <1>3, <1>4 DEF IndInv

(* The end of a transaction,                                               *)
LEMMA FinishKeeps ==
  ASSUME IndInv, NEW t \in Threads, NEW reply \in Replies, Finish(t, reply),
         UNCHANGED tables
  PROVE  IndInv'
<1> DEFINE a == Begin(tx[t].cmd, "idle", reply)
<1>1. a \in Transaction /\ a.pc = "idle"
  <2>1. tx[t].cmd \in Commands \cup {Absent}
    BY DEF IndInv, TypeOK, Transaction
  <2> QED BY <2>1, BeginType DEF PCs
<1>2. tx' = [tx EXCEPT ![t] = a] /\ held' = [held EXCEPT ![t] = {}]
  BY DEF Finish
<1> HIDE DEF a
<1>3. /\ a.pc \notin {"unique", "commit"} /\ {} \in SUBSET Lock
      /\ \A u \in Threads \ {t} : {} \cap held[u] = {}
  BY <1>1
<1> QED BY <1>1, <1>2, <1>3, QuietStep

(* its beginning,                                                          *)
LEMMA BeginKeeps ==
  ASSUME IndInv, NEW t \in Threads, NEW c \in Commands, NEW pc \in {"idle", "check"},
         NEW reply \in Replies, tx[t].pc = "idle",
         tx' = [tx EXCEPT ![t] = Begin(c, pc, reply)], UNCHANGED << tables, held >>
  PROVE  IndInv'
<1> DEFINE a == Begin(c, pc, reply)
<1>1. a \in Transaction /\ a.pc = pc /\ a.cmd = c
  BY BeginType DEF PCs
<1>2. c # Absent
  BY CommandIsPresent
<1>3. held' = [held EXCEPT ![t] = {}]
  BY DEF IndInv, TypeOK, Guarded
<1>4. UNCHANGED tables
  OBVIOUS
<1> HIDE DEF a
<1>5. tx' = [tx EXCEPT ![t] = a]
  BY DEF a
<1>6. /\ a.pc \notin {"unique", "commit"} /\ {} \in SUBSET Lock
      /\ \A u \in Threads \ {t} : {} \cap held[u] = {}
  BY <1>1
<1> QED BY <1>1, <1>2, <1>3, <1>4, <1>5, <1>6, QuietStep

(***************************************************************************)
(* The checks passed: t has read seen, H are its locks, fs is to be locked.*)
(***************************************************************************)
LEMMA ProceedKeeps ==
  ASSUME IndInv, NEW t \in Threads, tx[t].pc # "idle", NEW c \in Commands, c = tx[t].cmd,
         NEW H \in SUBSET Lock, NEW fs \in SUBSET Fields,
         Proceed(t, Read(c), fs), held' = [held EXCEPT ![t] = H], UNCHANGED tables,
         \A u \in Threads \ {t} : H \cap held[u] = {},
         Admitted(c, Read(c)),
         c.kind # "CreateObject" => ObjectLock(c.obj) \in H,
         fs \subseteq Claims(c, Read(c)),
         \A f \in Claims(c, Read(c)) \ fs : ValueLock(f, c.set[f]) \in H /\ ~Taken(c, f)
  PROVE  IndInv'
<1> DEFINE a == [tx[t] EXCEPT !.seen = Read(c), !.todo = fs,
                              !.pc = IF fs = {} THEN "commit" ELSE "unique"]
<1>1. tx[t] \in Transaction /\ Read(c) \in Snapshot /\ c # Absent
  BY ReadSnapshot, CommandIsPresent DEF IndInv, TypeOK
<1>2. a \in Transaction /\ a.cmd = c /\ a.seen = Read(c) /\ a.todo = fs
      /\ a.pc = IF fs = {} THEN "commit" ELSE "unique"
  BY <1>1 DEF Transaction, PCs
<1>3. tx' = [tx EXCEPT ![t] = a]
  BY <1>1 DEF Proceed, IndInv, TypeOK
<1> HIDE DEF a
<1>4. tx'[t] = a /\ held'[t] = H
  BY <1>3 DEF IndInv, TypeOK
<1>5. Read(c)' = Read(c) /\ \A f \in Fields : Taken(c, f)' = Taken(c, f)
  BY DEF Read, NothingRead, Taken, tables
<1>6. Knows(t)'
  <2>1. tx'[t].cmd = c /\ tx'[t].seen = Read(c) /\ tx'[t].todo = fs
    BY <1>2, <1>4
  <2>2. Claims(c, Read(c)) \subseteq Fields
    BY ClaimType, ConstantsApart
  <2> QED BY <1>4, <1>5, <2>1, <2>2 DEF Knows
<1> QED BY <1>1, <1>2, <1>3, <1>6, QuietStep

(* CreateObject has read nothing that could change.                        *)
LEMMA CheckCreateKeeps ==
  ASSUME IndInv, NEW t \in Threads, CheckCreate(t)
  PROVE  IndInv'
<1> DEFINE c == tx[t].cmd
           H == held[t]
           fs == Claims(c, Read(c))
<1>1. c \in Commands /\ tx[t].pc # "idle" /\ c.kind = "CreateObject"
  BY RunningCommand DEF CheckCreate, IndInv
<1>2. Read(c) = NothingRead
  BY <1>1 DEF Read
<1>3. /\ Proceed(t, Read(c), fs) /\ UNCHANGED << tables, held >> /\ Admitted(c, Read(c))
  BY <1>2 DEF CheckCreate
<1>4. /\ H \in SUBSET Lock /\ held' = [held EXCEPT ![t] = H]
      /\ \A u \in Threads \ {t} : H \cap held[u] = {}
  BY <1>3 DEF IndInv, TypeOK, LocksExclusive
<1>5. fs \in SUBSET Fields
  BY <1>1, ClaimType, ConstantsApart
<1> HIDE DEF H, fs
<1> QED BY <1>1, <1>3, <1>4, <1>5, ProceedKeeps DEF fs

(* The other handlers read under the lock they take.                       *)
LEMMA LockObjectKeeps ==
  ASSUME IndInv, NEW t \in Threads, LockObject(t)
  PROVE  IndInv'
<1> DEFINE c == tx[t].cmd
           H == {ObjectLock(c.obj)}
           fs == Claims(c, Read(c))
<1>1. c \in Commands /\ tx[t].pc # "idle" /\ c.obj \in Objects
  BY RunningCommand, CommandParts DEF LockObject, IndInv
<1>2. /\ Proceed(t, Read(c), fs) /\ UNCHANGED tables /\ Admitted(c, Read(c))
      /\ held' = [held EXCEPT ![t] = H]
  BY DEF LockObject
<1>3. H \in SUBSET Lock /\ ObjectLock(c.obj) \in H
  BY <1>1 DEF Lock
<1>4. \A u \in Threads \ {t} : H \cap held[u] = {}
  BY DEF LockObject, Free
<1>5. fs \in SUBSET Fields
  BY <1>1, ClaimType, ConstantsApart
<1> HIDE DEF H, fs
<1> QED BY <1>1, <1>2, <1>3, <1>4, <1>5, ProceedKeeps DEF fs

(* A value found free under its advisory lock stays free.                  *)
LEMMA LockValueKeeps ==
  ASSUME IndInv, NEW t \in Threads, NEW f \in UniqueFields, LockValue(t, f)
  PROVE  IndInv'
<1> DEFINE c == tx[t].cmd
           H == held[t] \cup {ValueLock(f, c.set[f])}
           fs == tx[t].todo \ {f}
<1>1. /\ c \in Commands /\ tx[t].pc # "idle" /\ Knows(t) /\ f \in tx[t].todo
      /\ tx[t].seen = Read(c)
  BY RunningCommand DEF LockValue, IndInv, Guarded, Knows
<1>2. f \in Claims(c, Read(c))
  BY <1>1 DEF Knows
<1>3. /\ Proceed(t, Read(c), fs) /\ UNCHANGED tables /\ ~Taken(c, f)
      /\ held' = [held EXCEPT ![t] = H]
  BY <1>1 DEF LockValue
<1>4. H \in SUBSET Lock
  BY <1>1, <1>2, ClaimType DEF IndInv, TypeOK
<1>5. \A u \in Threads \ {t} : H \cap held[u] = {}
  BY DEF LockValue, Free, IndInv, LocksExclusive
<1>6. /\ fs \in SUBSET Fields /\ fs \subseteq Claims(c, Read(c))
      /\ c.kind # "CreateObject" => ObjectLock(c.obj) \in H
      /\ Admitted(c, Read(c))
      /\ \A g \in Claims(c, Read(c)) \ fs : ValueLock(g, c.set[g]) \in H /\ ~Taken(c, g)
  BY <1>1, <1>3, ClaimType, ConstantsApart DEF Knows
<1> HIDE DEF H, fs
<1> QED BY <1>1, <1>3, <1>4, <1>5, <1>6, ProceedKeeps

(* A commit writes only what its transaction has locked.                   *)
LEMMA CommitKeeps ==
  ASSUME IndInv, DistinctTexts, NEW t \in Threads, Commit(t)
  PROVE  IndInv'
<1> DEFINE c == tx[t].cmd
           a == Begin(c, "idle", "committed")
<1>1. /\ c \in Commands /\ TablesTypeOK /\ tx[t].seen = Read(c) /\ Admitted(c, Read(c))
      /\ Write(c, Read(c)) /\ RecordCommand(c) /\ tx[t].pc = "commit"
      /\ Write(c, tx[t].seen)
  BY RunningCommand DEF Commit, IndInv, Guarded, Knows
<1>2. a \in Transaction /\ a.pc = "idle"
  BY <1>1, BeginType DEF PCs, Replies
<1>3. tx' = [tx EXCEPT ![t] = a] /\ held' = [held EXCEPT ![t] = {}]
  BY DEF Commit, Finish
<1> HIDE DEF a
<1>4. /\ tx'[t] = a /\ held'[t] = {}
      /\ \A u \in Threads \ {t} : tx'[u] = tx[u] /\ held'[u] = held[u]
  BY <1>3 DEF IndInv, TypeOK
<1>5. TypeOK'
  <2>1. TablesTypeOK'
    BY <1>1, WriteType
  <2>2. tx' \in [Threads -> Transaction] /\ held' \in [Threads -> SUBSET Lock]
    BY <1>2, <1>3 DEF IndInv, TypeOK
  <2>3. \A u \in Threads : tx'[u].pc # "idle" => tx'[u].cmd # Absent
    BY <1>2, <1>4 DEF IndInv, TypeOK
  <2> QED BY <2>1, <2>2, <2>3 DEF TypeOK
<1>6. LocksExclusive'
  BY <1>4 DEF IndInv, LocksExclusive
<1>7. ASSUME NEW u \in Threads \ {t}, tx[u].pc \in {"unique", "commit"}
      PROVE  Knows(u)'
  <2>1. PICK d \in Commands : d = tx[u].cmd
    BY <1>7, RunningCommand DEF IndInv
  <2>2. /\ Read(d)' = Read(d)
        /\ \A f \in Claims(d, tx[u].seen) \ tx[u].todo : ~Taken(d, f)'
    BY <1>1, <1>7, <2>1, CommitKeepsOthers
  <2>3. Knows(u)
    BY <1>7 DEF IndInv, Guarded
  <2>4. tx'[u] = tx[u] /\ held'[u] = held[u]
    BY <1>4
  <2> QED BY <2>1, <2>2, <2>3, <2>4 DEF Knows
<1>8. Guarded'
  BY <1>2, <1>4, <1>7 DEF IndInv, Guarded
<1> QED BY <1>5, <1>6, <1>8 DEF IndInv

(* Every step keeps the invariant: one case per action.                    *)
LEMMA NextKeeps ==
  ASSUME IndInv, DistinctTexts, [Next]_vars
  PROVE  IndInv'
<1>1. ASSUME NEW t \in Threads, NEW c \in Commands, Start(t, c) PROVE IndInv'
  BY <1>1, BeginKeeps DEF Start, Replies
<1>2. ASSUME NEW t \in Threads, NEW c \in Commands, Replay(t, c) PROVE IndInv'
  <2>1. PICK reply \in Replies : tx' = [tx EXCEPT ![t] = Begin(c, "idle", reply)]
    BY <1>2 DEF Replay, Replies
  <2> QED BY <1>2, <2>1, BeginKeeps DEF Replay
<1>3. ASSUME NEW t \in Threads, NEW f \in UniqueFields, RejectDuplicate(t, f) PROVE IndInv'
  BY <1>3, FinishKeeps DEF RejectDuplicate, Replies
<1>4. ASSUME NEW t \in Threads,
             Reject(t) \/ DuplicateKey(t) \/ DeadlockVictim(t) \/ Abort(t)
      PROVE  IndInv'
  BY <1>4, FinishKeeps DEF Reject, DuplicateKey, DeadlockVictim, Abort, Replies
<1>5. CASE UNCHANGED vars
  BY <1>5 DEF vars, tables, IndInv, TypeOK, TablesTypeOK, LocksExclusive, Guarded, Knows,
              Read, NothingRead, Taken
<1> QED BY <1>1, <1>2, <1>3, <1>4, <1>5, CheckCreateKeeps, LockObjectKeeps, LockValueKeeps,
           CommitKeeps DEF Next

(***************************************************************************)
(* The inductive invariant: types, exclusive locks, and for every          *)
(* transaction that what it checked is still so, because it holds the      *)
(* locks.                                                                  *)
(***************************************************************************)
THEOREM Invariance == ASSUME DistinctTexts PROVE Spec => []IndInv
<1>1. Init => IndInv
  <2> SUFFICES ASSUME Init PROVE IndInv
    OBVIOUS
  <2>1. TablesTypeOK
    BY DEF Init, LedgerInit, TablesTypeOK
  <2>2. Idle \in Transaction /\ Idle.pc = "idle"
    BY BeginType DEF Idle, PCs, Replies
  <2>3. \A t \in Threads : tx[t] = Idle /\ held[t] = {}
    BY DEF Init
  <2>4. TypeOK
    <3> HIDE DEF Idle
    <3> QED BY <2>1, <2>2, <2>3 DEF Init, TypeOK
  <2> QED BY <2>2, <2>3, <2>4 DEF IndInv, LocksExclusive, Guarded
<1>2. IndInv /\ [Next]_vars => IndInv'
  BY NextKeeps
<1> QED BY <1>1, <1>2, PTL DEF Spec

(***************************************************************************)
(* The invariants of the runs, for every instance.                         *)
(***************************************************************************)
THEOREM TypeCorrect == ASSUME DistinctTexts PROVE Spec => []TypeOK
BY Invariance, PTL DEF IndInv

(* LocksExclusive: no lock of a row or of a value has two holders.         *)
THEOREM Exclusive == ASSUME DistinctTexts PROVE Spec => []LocksExclusive
BY Invariance, PTL DEF IndInv

(***************************************************************************)
(* CheckedStaysValid: what a command was checked against still holds at    *)
(* its commit, for any number of threads, objects and commands.            *)
(***************************************************************************)
THEOREM StaysValid == ASSUME DistinctTexts PROVE Spec => []CheckedStaysValid
<1>1. IndInv => CheckedStaysValid
  BY DEF IndInv, Guarded, Knows, CheckedStaysValid, Unclaimed
<1> QED BY <1>1, Invariance, PTL

(***************************************************************************)
(* The handlers implement the ledger: a commit is a Decide, every other    *)
(* step leaves the tables alone.                                           *)
(***************************************************************************)
THEOREM Serializable == ASSUME DistinctTexts PROVE Spec => LedgerSpec
<1>1. Init => LedgerInit
  BY DEF Init
<1>2. IndInv /\ [Next]_vars => [LedgerNext]_tables
  <2> SUFFICES ASSUME IndInv, [Next]_vars PROVE [LedgerNext]_tables
    OBVIOUS
  <2>1. ASSUME NEW t \in Threads, Commit(t) PROVE LedgerNext
    <3> DEFINE c == tx[t].cmd
    <3>1. /\ c \in Commands /\ Knows(t) /\ tx[t].todo = {}
          /\ Write(c, tx[t].seen) /\ RecordCommand(c)
      BY <2>1, RunningCommand DEF Commit, IndInv, Guarded
    <3>2. Decide(c)
      BY <3>1 DEF Knows, Decide, Unclaimed
    <3> QED BY <3>1, <3>2 DEF LedgerNext
  <2>2. ASSUME NEW t \in Threads,
               \/ \E c \in Commands : Start(t, c) \/ Replay(t, c)
               \/ CheckCreate(t) \/ LockObject(t) \/ Reject(t)
               \/ \E f \in UniqueFields : LockValue(t, f) \/ RejectDuplicate(t, f)
               \/ DuplicateKey(t) \/ DeadlockVictim(t) \/ Abort(t)
        PROVE  UNCHANGED tables
    BY <2>2 DEF Start, Replay, CheckCreate, LockObject, Reject, LockValue, RejectDuplicate,
                DuplicateKey, DeadlockVictim, Abort
  <2>3. CASE UNCHANGED vars
    BY <2>3 DEF vars
  <2> QED BY <2>1, <2>2, <2>3 DEF Next
<1> QED BY <1>1, <1>2, Invariance, PTL DEF Spec, LedgerSpec

(***************************************************************************)
(* What was proved of the ledger, of the concurrent handlers.              *)
(***************************************************************************)
THEOREM TablesCorrect ==
  ASSUME DistinctTexts
  PROVE  Spec => /\ []UniqueValues
                 /\ []FieldEventsTellTheValue
                 /\ []ObjectEventsTellTheStatus
                 /\ []ObjectVersionLeads
                 /\ []RequiredPresent
                 /\ ArchivedFieldsFrozen
                 /\ StatusMovesForward
<1>1. Histories => FieldEventsTellTheValue /\ ObjectEventsTellTheStatus /\ ObjectVersionLeads
  BY DEF Histories
<1> QED BY <1>1, Serializable, LedgerUniqueValues, LedgerHistories, LedgerRequired,
           LedgerFrozen, LedgerMovesForward, PTL

(* UniqueValues, of transactions that race for one value.                  *)
THEOREM TablesUnique == ASSUME DistinctTexts PROVE Spec => []UniqueValues
BY TablesCorrect, PTL

(* EventsTellTheState, of transactions that interleave.                    *)
THEOREM TablesTold == ASSUME DistinctTexts PROVE Spec => []EventsTellTheState
<1>1. FieldEventsTellTheValue /\ ObjectEventsTellTheStatus /\ ObjectVersionLeads
        => EventsTellTheState
  BY DEF EventsTellTheState
<1> QED BY <1>1, TablesCorrect, PTL

-----------------------------------------------------------------------------
(* What t's client was told is so.                                         *)
Honest(t) ==
  tx[t].reply \in {"committed", "replayed"} =>
    log[tx[t].cmd.key] # Absent /\ Payload(log[tx[t].cmd.key]) = Payload(tx[t].cmd)

(* No row of command_log is ever replaced, so no reply becomes a lie.      *)
LEMMA HonestStays ==
  ASSUME NEW u \in Threads, Honest(u), tx'[u].reply = tx[u].reply, tx'[u].cmd = tx[u].cmd,
         \A k : log[k] # Absent => log'[k] = log[k]
  PROVE  Honest(u)'
BY DEF Honest

(* A step that keeps the log, and answers with neither.                    *)
LEMMA SilentStep ==
  ASSUME TypeOK, RepliesAreHonest, NEW t \in Threads, NEW a,
         tx' = [tx EXCEPT ![t] = a], UNCHANGED tables,
         \/ a.reply \notin {"committed", "replayed"}
         \/ a.reply = tx[t].reply /\ a.cmd = tx[t].cmd
  PROVE  RepliesAreHonest'
<1>1. tx'[t] = a /\ \A u \in Threads \ {t} : tx'[u] = tx[u]
  BY DEF TypeOK
<1>2. \A k : log'[k] = log[k]
  BY DEF tables
<1>3. ASSUME NEW u \in Threads PROVE Honest(u)'
  <2>1. Honest(u)
    BY DEF RepliesAreHonest, Honest
  <2>2. CASE u = t /\ a.reply \notin {"committed", "replayed"}
    BY <1>1, <2>2 DEF Honest
  <2>3. CASE u # t \/ (a.reply = tx[t].reply /\ a.cmd = tx[t].cmd)
    <3>1. tx'[u].reply = tx[u].reply /\ tx'[u].cmd = tx[u].cmd
      BY <1>1, <2>3
    <3> QED
      BY <1>2, <2>1, <3>1, HonestStays
  <2> QED
    BY <2>2, <2>3
<1> QED
  BY <1>3 DEF RepliesAreHonest, Honest

(* The row is written in the transaction that answers.                     *)
LEMMA CommitHonest ==
  ASSUME TypeOK, RepliesAreHonest, NEW t \in Threads, Commit(t)
  PROVE  RepliesAreHonest'
<1> DEFINE c == tx[t].cmd
<1>1. /\ c \in Commands /\ RecordCommand(c) /\ tx[t].pc = "commit"
      /\ tx' = [tx EXCEPT ![t] = Begin(c, "idle", "committed")]
  BY RunningCommand DEF Commit, Finish
<1>2. c.key \in Keys /\ c # Absent /\ log \in [Keys -> Commands \cup {Absent}]
  BY <1>1, CommandParts, CommandIsPresent DEF TypeOK, TablesTypeOK
<1>3. log[c.key] = Absent /\ log'[c.key] = c /\ \A k : k # c.key => log'[k] = log[k]
  BY <1>1, <1>2 DEF RecordCommand
<1>4. /\ tx'[t].cmd = c
      /\ \A u \in Threads \ {t} : tx'[u] = tx[u]
  BY <1>1 DEF TypeOK, Begin
<1>5. Honest(t)'
  BY <1>2, <1>3, <1>4 DEF Honest
<1>6. ASSUME NEW u \in Threads \ {t} PROVE Honest(u)'
  <2>1. Honest(u) /\ tx'[u].reply = tx[u].reply /\ tx'[u].cmd = tx[u].cmd
    BY <1>4 DEF RepliesAreHonest, Honest
  <2> QED
    BY <1>3, <2>1, HonestStays
<1> QED
  BY <1>5, <1>6 DEF RepliesAreHonest, Honest

(* A replay answers from the row it found.                                 *)
LEMMA ReplayHonest ==
  ASSUME TypeOK, RepliesAreHonest, NEW t \in Threads, NEW c \in Commands, Replay(t, c)
  PROVE  RepliesAreHonest'
<1> DEFINE same == Payload(log[c.key]) = Payload(c)
           a == Begin(c, "idle", IF same THEN "replayed" ELSE "conflict")
<1>1. log[c.key] # Absent /\ tx' = [tx EXCEPT ![t] = a] /\ UNCHANGED tables
  BY DEF Replay
<1>2. a.cmd = c /\ a.reply = IF same THEN "replayed" ELSE "conflict"
  BY DEF Begin
<1> HIDE DEF a
<1>3. CASE same
  <2>1. tx'[t] = a /\ \A u \in Threads \ {t} : tx'[u] = tx[u]
    BY <1>1 DEF TypeOK
  <2>2. \A k : log'[k] = log[k]
    BY <1>1 DEF tables
  <2>3. Honest(t)'
    BY <1>1, <1>2, <1>3, <2>1, <2>2 DEF Honest
  <2>4. ASSUME NEW u \in Threads \ {t} PROVE Honest(u)'
    <3>1. Honest(u) /\ tx'[u].reply = tx[u].reply /\ tx'[u].cmd = tx[u].cmd
      BY <2>1 DEF RepliesAreHonest, Honest
    <3> QED
      BY <2>2, <3>1, HonestStays
  <2> QED
    BY <2>3, <2>4 DEF RepliesAreHonest, Honest
<1>4. CASE ~same
  BY <1>1, <1>2, <1>4, SilentStep
<1> QED
  BY <1>3, <1>4

(* A step that only reads goes on with the same command.                   *)
LEMMA ProceedHonest ==
  ASSUME TypeOK, RepliesAreHonest, NEW t \in Threads, NEW seen, NEW fs,
         Proceed(t, seen, fs), UNCHANGED tables
  PROVE  RepliesAreHonest'
<1> DEFINE a == [tx[t] EXCEPT !.seen = seen, !.todo = fs,
                              !.pc = IF fs = {} THEN "commit" ELSE "unique"]
<1>1. tx[t] \in Transaction
  BY DEF TypeOK
<1>2. a.reply = tx[t].reply /\ a.cmd = tx[t].cmd
  BY <1>1 DEF Transaction
<1>3. tx' = [tx EXCEPT ![t] = a]
  BY <1>1 DEF Proceed, TypeOK
<1> HIDE DEF a
<1> QED
  BY <1>2, <1>3, SilentStep

(***************************************************************************)
(* RepliesAreHonest: who was told "committed", by the commit or by a later *)
(* replay, has the payload it sent in the log, now and for ever.           *)
(***************************************************************************)
THEOREM HonestReplies == ASSUME DistinctTexts PROVE Spec => []RepliesAreHonest
<1>1. Init => RepliesAreHonest
  BY DEF Init, RepliesAreHonest, Idle, Begin
<1>2. TypeOK /\ RepliesAreHonest /\ [Next]_vars => RepliesAreHonest'
  <2> SUFFICES ASSUME TypeOK, RepliesAreHonest, [Next]_vars PROVE RepliesAreHonest'
    OBVIOUS
  <2>1. ASSUME NEW t \in Threads, NEW c \in Commands, Start(t, c) PROVE RepliesAreHonest'
    <3>1. Begin(c, "check", "none").reply = "none"
      BY DEF Begin
    <3> QED
      BY <2>1, <3>1, SilentStep DEF Start
  <2>2. ASSUME NEW t \in Threads, NEW reply \in {"rejected", "failed"},
               Finish(t, reply), UNCHANGED tables
        PROVE  RepliesAreHonest'
    <3>1. Begin(tx[t].cmd, "idle", reply).reply = reply
      BY DEF Begin
    <3> QED
      BY <2>2, <3>1, SilentStep DEF Finish
  <2>3. ASSUME NEW t \in Threads,
               \/ CheckCreate(t) \/ LockObject(t)
               \/ \E f \in UniqueFields : LockValue(t, f)
        PROVE  RepliesAreHonest'
    BY <2>3, ProceedHonest DEF CheckCreate, LockObject, LockValue
  <2>4. ASSUME NEW t \in Threads,
               \/ Reject(t) \/ DuplicateKey(t) \/ DeadlockVictim(t) \/ Abort(t)
               \/ \E f \in UniqueFields : RejectDuplicate(t, f)
        PROVE  RepliesAreHonest'
    BY <2>2, <2>4 DEF Reject, DuplicateKey, DeadlockVictim, Abort, RejectDuplicate
  <2>5. CASE UNCHANGED vars
    BY <2>5 DEF vars, tables, RepliesAreHonest
  <2> QED
    BY <2>1, <2>3, <2>4, <2>5, CommitHonest, ReplayHonest DEF Next
<1> QED
  BY <1>1, <1>2, TypeCorrect, PTL DEF Spec

=============================================================================
