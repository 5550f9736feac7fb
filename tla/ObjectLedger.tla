---------------------------- MODULE ObjectLedger ----------------------------
(***************************************************************************)
(* The object tables of the data kernel - data_object, data_field_value,   *)
(* command_log and the object and field aggregates of event_outbox - and   *)
(* what ONE command does to them.  The operators are the bodies of the     *)
(* five object handlers between "replay found nothing" and the insert into *)
(* command_log.  LedgerSpec is what the kernel promises its clients: every *)
(* command takes effect at most once and in one piece, on the tables as    *)
(* they are at that moment.  How concurrent transactions keep that promise *)
(* is in ObjectCommands.                                                   *)
(*                                                                         *)
(* One workspace and one object type: unique values, row locks and keys    *)
(* are scoped by them, so other types and workspaces never meet here.      *)
(***************************************************************************)
EXTENDS Integers, Sequences

CONSTANTS
  Objects,          \* the ids UUID.randomUUID() may hand out
  Fields,           \* field_def codes of the type
  RequiredFields,   \* field_def.required
  UniqueFields,     \* field_def.unique_value
  Text,             \* the JSON texts JsonCodec.encode produces
  Value,            \* jsonb values
  Jsonb,            \* CAST(text AS jsonb)
  Null,             \* JSON null
  Absent,           \* "not given", "no row"
  Keys,             \* idempotency keys
  Commands          \* the commands clients send

(***************************************************************************)
(* Null and Absent are values of their own; several texts may mean one     *)
(* jsonb value.                                                            *)
(***************************************************************************)
ASSUME ConstantsApart ==
  /\ Null \notin Text \cup Value
  /\ Absent \notin Text \cup Value \cup {Null} \cup Nat \cup Objects
  /\ RequiredFields \subseteq Fields
  /\ UniqueFields \subseteq Fields
  /\ Jsonb \in [Text -> Value]

-----------------------------------------------------------------------------
(* Statuses and the state machine of ChangeState.                          *)

Controlled == << "DRAFT", "PENDING_CONFIRM", "CONFIRMED", "ISSUE", "TO_FIX",
                 "FIXED", "FILED" >>

Archived == {"VOID", "FILED", "DELETED"}

Status == {"DRAFT", "PENDING_CONFIRM", "CONFIRMED", "ISSUE", "TO_FIX",
           "FIXED", "FILED", "VOID", "DELETED"}

ASSUME StatusIsPresent == Absent \notin Status

(* allowed(current): the next controlled status, and VOID from each.       *)
Transitions(s) ==
  LET at == {i \in 1..7 : Controlled[i] = s}
  IN  {Controlled[i + 1] : i \in at \ {7}} \cup {"VOID" : i \in at}

-----------------------------------------------------------------------------
(* Commands.  One record shape; a kind ignores what it has no use for.     *)

Kinds == {"CreateObject", "UpdateFields", "ChangeState", "Archive", "SoftDelete"}

Command ==
  [ key      : Keys,
    kind     : Kinds,
    obj      : Objects \cup {Absent},          \* target; none for CreateObject
    from     : Status \cup {Absent},           \* ChangeState.fromState
    to       : Status \cup {Absent},           \* toState, initialState
    expected : Nat,                            \* expected object version
    set      : [Fields -> Text \cup {Null, Absent}],  \* the fields named
    fexp     : [Fields -> Nat \cup {Absent}] ] \* expectedFieldVersion

(***************************************************************************)
(* What the handlers' validate methods let through: CreateObject starts in *)
(* DRAFT or PENDING_CONFIRM, the others name a target and a version >= 1.  *)
(***************************************************************************)
ASSUME CommandsWellFormed ==
  /\ Commands \subseteq Command
  /\ Absent \notin Commands
  /\ \A c \in Commands :
       /\ c.kind = "CreateObject" =>
            c.to \in {"DRAFT", "PENDING_CONFIRM"} /\ c.obj = Absent
       /\ c.kind # "CreateObject" => c.obj \in Objects /\ c.expected >= 1
       /\ c.kind = "ChangeState" => c.from \in Status /\ c.to \in Status

(***************************************************************************)
(* What payloadHash covers.  The command type is not part of the hashed    *)
(* map, and Archive and SoftDelete hash the same five entries.             *)
(***************************************************************************)
Payload(c) ==
  [c EXCEPT !.kind = IF @ = "SoftDelete" THEN "Archive" ELSE @]

Named(c) == {f \in Fields : c.set[f] # Absent}

(* The jsonb value a field given as x stores.                              *)
Canon(x) == IF x = Null THEN Null ELSE Jsonb[x]

-----------------------------------------------------------------------------
VARIABLES
  obj,        \* data_object: id -> status and version
  fld,        \* data_field_value: id -> code -> value and version
  objEvents,  \* event_outbox rows of aggregate "object"
  fldEvents,  \* event_outbox rows of aggregate "fieldValue"
  log         \* command_log: key -> the command decided under it

tables == << obj, fld, objEvents, fldEvents, log >>

NoObject == [status |-> Absent, version |-> 0]
NoField  == [value |-> Absent, version |-> 0]

ObjectRow == [status : Status, version : Nat \ {0}]
FieldRow  == [value : Value \cup {Null}, version : Nat \ {0}]

ObjectEvent ==
  [ type    : {"ObjectCreated", "ObjectUpdated", "StateChanged", "Archived", "SoftDeleted"},
    seq     : Nat \ {0},
    status  : Status \cup {Absent},   \* ObjectUpdated does not carry it
    changed : SUBSET Fields ]

FieldEvent ==
  [ seq : Nat \ {0}, before : Value \cup {Null}, after : Value \cup {Null} ]

Exists(o) == obj[o] # NoObject

(***************************************************************************)
(* What a handler reads of its target before it decides: lockObject's row, *)
(* and lockField's row of every field.  CreateObject reads nothing.        *)
(***************************************************************************)
NothingRead == [row |-> NoObject, fld |-> [f \in Fields |-> NoField]]

Read(c) ==
  IF c.kind = "CreateObject" THEN NothingRead
                             ELSE [row |-> obj[c.obj], fld |-> fld[c.obj]]

(* The value an event shows for a row, or for none.                        *)
Shown(row) == IF row.version = 0 THEN Null ELSE row.value

(***************************************************************************)
(* Conflicts: the field version counts when the client gave one, else the  *)
(* object version; a field without a row has version 0.                    *)
(***************************************************************************)
NoConflict(c, seen, f) ==
  IF c.fexp[f] = Absent THEN c.expected = seen.row.version
                        ELSE c.fexp[f] = seen.fld[f].version

(***************************************************************************)
(* isChanged: the named fields whose stored jsonb value differs, those     *)
(* without a row included.                                                 *)
(***************************************************************************)
Changed(c, seen) ==
  {f \in Named(c) : seen.fld[f].value # Canon(c.set[f])}

(* The unique fields whose value the command brings into the table.        *)
Claims(c, seen) ==
  {f \in UniqueFields \cap
         (IF c.kind = "CreateObject" THEN Named(c)
          ELSE IF c.kind = "UpdateFields" THEN Changed(c, seen) ELSE {}) :
     c.set[f] # Null}

(* Mutant of Taken: a lookup among the objects that are not deleted.       *)
TakenByLive(c, f) ==
  \E o \in Objects : /\ o # c.obj /\ fld[o][f].value = Canon(c.set[f])
                     /\ obj[o].status # "DELETED"

(* uniqueValueExists: another object, in whatever status, has the value.   *)
Taken(c, f) ==
  \E o \in Objects : o # c.obj /\ fld[o][f].value = Canon(c.set[f])

(* validateDefinitions, FieldValidator: no required field of fs is null.   *)
RequiredGiven(c, fs) == \A f \in RequiredFields \cap fs : c.set[f] \in Text

(***************************************************************************)
(* The checks of each handler except uniqueness.  Permissions, the BLOCK   *)
(* rules of RuleChecker, field constraints, and for Archive and SoftDelete *)
(* the relations still active, can refuse a command too; they read nothing *)
(* kept here, and Abort in ObjectCommands stands for their refusals.       *)
(***************************************************************************)
CreateAdmitted(c) ==
  c.kind = "CreateObject" /\ RequiredGiven(c, Fields)

UpdateAdmitted(c, seen) ==
  /\ c.kind = "UpdateFields"
  /\ seen.row # NoObject
  /\ seen.row.status \notin Archived
  /\ RequiredGiven(c, Named(c))
  /\ \A f \in Named(c) : NoConflict(c, seen, f)

ChangeStateAdmitted(c, seen) ==
  /\ c.kind = "ChangeState"
  /\ seen.row # NoObject
  /\ seen.row.status = c.from
  /\ c.to \in Transitions(seen.row.status)
  /\ c.expected = seen.row.version

(* Repeating an Archive or a SoftDelete succeeds whatever the version.     *)
RemovalAdmitted(c, seen) ==
  /\ c.kind \in {"Archive", "SoftDelete"}
  /\ seen.row # NoObject
  /\ \/ c.kind = "Archive" /\ seen.row.status = "VOID"
     \/ c.kind = "SoftDelete" /\ seen.row.status = "DELETED"
     \/ c.expected = seen.row.version

Admitted(c, seen) ==
  \/ CreateAdmitted(c)
  \/ UpdateAdmitted(c, seen)
  \/ ChangeStateAdmitted(c, seen)
  \/ RemovalAdmitted(c, seen)

Unclaimed(c, seen) == \A f \in Claims(c, seen) : ~Taken(c, f)

-----------------------------------------------------------------------------
(* The writes of each handler, from what it read.                          *)

(* A row per non-null initial field, each with its FieldChanged.           *)
CreateObject(c) ==
  LET given == {f \in Named(c) : c.set[f] # Null} IN
  /\ c.kind = "CreateObject"
  /\ \E o \in Objects :
       /\ ~Exists(o)
       /\ obj' = [obj EXCEPT ![o] = [status |-> c.to, version |-> 1]]
       /\ fld' = [fld EXCEPT ![o] =
                    [f \in Fields |-> IF f \in given
                                      THEN [value |-> Canon(c.set[f]), version |-> 1]
                                      ELSE NoField]]
       /\ objEvents' = [objEvents EXCEPT ![o] =
                          Append(@, [type |-> "ObjectCreated", seq |-> 1,
                                     status |-> c.to, changed |-> {}])]
       /\ fldEvents' = [fldEvents EXCEPT ![o] =
                          [f \in Fields |-> IF f \in given
                             THEN Append(@[f], [seq |-> 1, before |-> Null,
                                                after |-> Canon(c.set[f])])
                             ELSE @[f]]]

(* Mutant of NewField: the field's version is not counted up.              *)
NewFieldSameVersion(c, seen, f) ==
  [value |-> Canon(c.set[f]), version |-> seen.fld[f].version]

(* The row written for a field, numbered after the row that was read.      *)
NewField(c, seen, f) ==
  [value |-> Canon(c.set[f]), version |-> seen.fld[f].version + 1]

(***************************************************************************)
(* incrementObjectVersion adds to the row as it is, not as it was read;    *)
(* ObjectUpdated names the fields that changed.                            *)
(***************************************************************************)
TouchObject(o, changed) ==
  IF changed = {}
  THEN UNCHANGED << obj, objEvents >>
  ELSE /\ obj' = [obj EXCEPT ![o].version = @ + 1]
       /\ objEvents' = [objEvents EXCEPT ![o] =
                          Append(@, [type |-> "ObjectUpdated", seq |-> obj[o].version + 1,
                                     status |-> Absent, changed |-> changed])]

(***************************************************************************)
(* Only fields that change are written, each with its FieldChanged.        *)
(* insertMissingField fails where a row has appeared since the read.       *)
(***************************************************************************)
UpdateFields(c, seen) ==
  LET o == c.obj
      changed == Changed(c, seen)
  IN
  /\ c.kind = "UpdateFields"
  /\ \A f \in changed : seen.fld[f].version = 0 => fld[o][f].version = 0
  /\ fld' = [fld EXCEPT ![o] =
               [f \in Fields |-> IF f \in changed THEN NewField(c, seen, f) ELSE @[f]]]
  /\ fldEvents' = [fldEvents EXCEPT ![o] =
                     [f \in Fields |-> IF f \in changed
                        THEN Append(@[f], [seq    |-> seen.fld[f].version + 1,
                                           before |-> Shown(seen.fld[f]),
                                           after  |-> Canon(c.set[f])])
                        ELSE @[f]]]
  /\ TouchObject(o, changed)

(* updateObjectStatus and the event of the status change.                  *)
WriteStatus(o, s, type) ==
  LET v == obj[o].version + 1 IN
  /\ obj' = [obj EXCEPT ![o] = [status |-> s, version |-> v]]
  /\ objEvents' = [objEvents EXCEPT ![o] =
                     Append(@, [type |-> type, seq |-> v, status |-> s, changed |-> {}])]
  /\ UNCHANGED << fld, fldEvents >>

ChangeState(c) ==
  c.kind = "ChangeState" /\ WriteStatus(c.obj, c.to, "StateChanged")

(* An object that is there already is left alone: no version, no event.    *)
Archive(c, seen) ==
  /\ c.kind = "Archive"
  /\ IF seen.row.status = "VOID"
     THEN UNCHANGED << obj, fld, objEvents, fldEvents >>
     ELSE WriteStatus(c.obj, "VOID", "Archived")

SoftDelete(c, seen) ==
  /\ c.kind = "SoftDelete"
  /\ IF seen.row.status = "DELETED"
     THEN UNCHANGED << obj, fld, objEvents, fldEvents >>
     ELSE WriteStatus(c.obj, "DELETED", "SoftDeleted")

Write(c, seen) ==
  \/ CreateObject(c)
  \/ UpdateFields(c, seen)
  \/ ChangeState(c)
  \/ Archive(c, seen)
  \/ SoftDelete(c, seen)

(* insertCommand: the primary key (workspace, key) admits one row.         *)
RecordCommand(c) ==
  /\ log[c.key] = Absent
  /\ log' = [log EXCEPT ![c.key] = c]

-----------------------------------------------------------------------------
(* The promise: a command is decided in one step.                          *)

LedgerInit ==
  /\ obj = [o \in Objects |-> NoObject]
  /\ fld = [o \in Objects |-> [f \in Fields |-> NoField]]
  /\ objEvents = [o \in Objects |-> << >>]
  /\ fldEvents = [o \in Objects |-> [f \in Fields |-> << >>]]
  /\ log = [k \in Keys |-> Absent]

Decide(c) ==
  /\ Admitted(c, Read(c))
  /\ Unclaimed(c, Read(c))
  /\ Write(c, Read(c))
  /\ RecordCommand(c)

LedgerNext == \E c \in Commands : Decide(c)

LedgerSpec == LedgerInit /\ [][LedgerNext]_tables

-----------------------------------------------------------------------------
(* What follows from the promise.                                          *)

(* Every table holds rows of its type.                                     *)
TablesTypeOK ==
  /\ obj \in [Objects -> ObjectRow \cup {NoObject}]
  /\ fld \in [Objects -> [Fields -> FieldRow \cup {NoField}]]
  /\ objEvents \in [Objects -> Seq(ObjectEvent)]
  /\ fldEvents \in [Objects -> [Fields -> Seq(FieldEvent)]]
  /\ log \in [Keys -> Commands \cup {Absent}]

(***************************************************************************)
(* A unique value belongs to one object, whatever the objects' statuses:   *)
(* the lookup of uniqueValueExists does not look at them.                  *)
(***************************************************************************)
UniqueValues ==
  \A f \in UniqueFields : \A o, p \in Objects :
    fld[o][f].value = fld[p][f].value /\ fld[o][f].value \notin {Null, Absent}
      => o = p

(***************************************************************************)
(* The field events of an object tell the field's whole history: numbered  *)
(* 1, 2, ... without gap or repetition, each starting from the value the   *)
(* one before it left, the last one leaving the stored value.  A lost      *)
(* update would break the chain.                                           *)
(***************************************************************************)
FieldEventsTellTheValue ==
  \A o \in Objects, f \in Fields :
    LET es == fldEvents[o][f] IN
    /\ Len(es) = fld[o][f].version
    /\ \A i \in 1..Len(es) :
         /\ es[i].seq = i
         /\ es[i].before = IF i = 1 THEN Null ELSE es[i - 1].after
    /\ Len(es) > 0 => es[Len(es)].after = fld[o][f].value

(***************************************************************************)
(* So do the object's own events: numbered by the object's version, and    *)
(* the latest one that carries a status carries the stored one.            *)
(***************************************************************************)
ObjectEventsTellTheStatus ==
  \A o \in Objects :
    LET es == objEvents[o] IN
    /\ Len(es) = obj[o].version
    /\ \A i \in 1..Len(es) : es[i].seq = i
    /\ Exists(o) =>
         \E i \in 1..Len(es) :
           /\ es[i].status = obj[o].status
           /\ \A j \in (i + 1)..Len(es) : es[j].status = Absent

(***************************************************************************)
(* An object's version counts what happened to it: it is never less than   *)
(* the version of one of its fields, so a client that saw the object at    *)
(* version v has a bound on every field version it may have missed.        *)
(***************************************************************************)
ObjectVersionLeads ==
  \A o \in Objects, f \in Fields : fld[o][f].version <= obj[o].version

(***************************************************************************)
(* What subscribers rely on: the events of an object and of its fields,    *)
(* numbered without a gap, add up to its present state, however commands   *)
(* raced and whatever they found unchanged (EventFactory, updateField).    *)
(***************************************************************************)
EventsTellTheState ==
  /\ FieldEventsTellTheValue
  /\ ObjectEventsTellTheStatus
  /\ ObjectVersionLeads

(* A required field of an existing object has a value: no command nulls it. *)
RequiredPresent ==
  \A o \in Objects : Exists(o) =>
    \A f \in RequiredFields : fld[o][f].value \in Value

(***************************************************************************)
(* The fields of a void, filed or deleted object never change again, even  *)
(* when the update started before the object was archived.                 *)
(***************************************************************************)
ArchivedFieldsFrozen ==
  [][\A o \in Objects : obj[o].status \in Archived => fld'[o] = fld[o]]_tables

(***************************************************************************)
(* A status only moves one step forward, to VOID, or to DELETED, and it    *)
(* moves with the version.                                                 *)
(***************************************************************************)
StatusMovesForward ==
  [][\A o \in Objects :
       Exists(o) /\ obj'[o].status # obj[o].status =>
         /\ \/ obj'[o].status \in Transitions(obj[o].status)
            \/ obj'[o].status \in {"VOID", "DELETED"}
         /\ obj'[o].version = obj[o].version + 1]_tables

=============================================================================
