----------------------------- MODULE Templates -----------------------------
(***************************************************************************)
(* A template's versions (MetaCommandServiceImpl, MetaModelRepository):    *)
(* object types with a parent and fields that a subtype may redefine, each *)
(* version drafted, published, withdrawn and restored; a workspace made    *)
(* from a published version and upgraded from version to version while it  *)
(* holds objects.  The handlers take no lock: a command is one step here,  *)
(* what two at once can do is outside this module.                         *)
(*                                                                         *)
(* One field code stands for every one, its constraints for a greatest     *)
(* value; one workspace and one object stand for all of them, as nothing   *)
(* relates two of either.                                                  *)
(***************************************************************************)
EXTENDS Naturals, FiniteSets

CONSTANTS
  Versions,     \* scene_template_version.version
  Types,        \* codes of object types, as numbers in their order
  MaxLimit,     \* the greatest limit a field can have
  Definitions,  \* the field definitions clients send
  MaxEdits,     \* bound: definitions added to versions that were published
  None

(* The queries that look up a chain of types go 32 parents far.            *)
ASSUME TemplatesAssumption ==
  /\ Versions \subseteq Nat /\ Types \subseteq Nat
  /\ IsFiniteSet(Types) /\ Cardinality(Types) <= 33
  /\ MaxLimit \in Nat /\ MaxEdits \in Nat /\ None \notin Nat
  /\ Definitions \subseteq [required : BOOLEAN, limit : 1..(MaxLimit + 1)]

NoLimit == MaxLimit + 1     \* constraints.max is absent; no value exceeds it
NoValue == 0                \* the object has no such field
Limits  == 1..NoLimit
Values  == NoValue..NoLimit

VARIABLES
  status,       \* scene_template_version.status of each version
  template,     \* the types and fields of each version
  runtime,      \* those of the workspace
  at,           \* workspace.template_version, or None
  object,       \* an object of the workspace, or None
  edited,       \* how many definitions were added to a version once published
  narrowed      \* types whose inherited field an upgrade has overridden

vars == << status, template, runtime, at, object, edited, narrowed >>

Statuses  == {"none", "draft", "published", "withdrawn"}
TypeRow   == [parent : Types \cup {None}, published : BOOLEAN]
FieldRow  == [required : BOOLEAN, limit : Limits, redefines : BOOLEAN]
Metamodel == [types : [Types -> TypeRow \cup {None}], fields : [Types -> FieldRow \cup {None}]]

ASSUME NoneIsNoRow == None \notin TypeRow /\ None \notin FieldRow

(***************************************************************************)
(* An object has at most one data_field_value of the code: a value under   *)
(* the field of a type (owner), or no row.  told is what the last          *)
(* FieldChanged told of it.                                                *)
(***************************************************************************)
Object == [type : Types, value : Values, owner : Types \cup {None}, told : Values]

Empty == [types |-> [c \in Types |-> None], fields |-> [c \in Types |-> None]]

Init ==
  /\ status = [v \in Versions |-> "none"]
  /\ template = [v \in Versions |-> Empty]
  /\ runtime = Empty /\ at = None /\ object = None
  /\ edited = 0 /\ narrowed = {}

-----------------------------------------------------------------------------
(* The chain of a type: itself, its parent, the parent's parent, ...       *)

ParentOf(m, c) == IF m.types[c] = None THEN None ELSE m.types[c].parent

(* With a type, S has its parent.                                          *)
Closed(m, S) == \A c \in S : ParentOf(m, c) # None => ParentOf(m, c) \in S

Lineage(m, c) == {a \in Types : \A S \in SUBSET Types : c \in S /\ Closed(m, S) => a \in S}

(* The nearest type up the chain that defines the field.                   *)
Definers(m, c) == {a \in Types : m.fields[a] # None /\ a \in Lineage(m, c)}

Definer(m, c) ==
  LET defs == Definers(m, c) IN
  IF defs = {} THEN None ELSE CHOOSE a \in defs : defs \subseteq Lineage(m, a)

(* resolveEffectiveFields, and ancestorFieldByCode.                        *)
Effective(m, c) ==
  LET definer == Definer(m, c) IN IF definer = None THEN None ELSE m.fields[definer]

Inherited(m, c) == IF ParentOf(m, c) = None THEN None ELSE Effective(m, ParentOf(m, c))

(* FieldValidator: what a value of an object of a type must satisfy.       *)
Valid(m, c, value) ==
  LET f == Effective(m, c) IN
  IF f = None THEN value = NoValue
  ELSE (f.required => value # NoValue) /\ value <= f.limit

-----------------------------------------------------------------------------
(* Drafting a version.                                                     *)

(* CreateTemplate makes the first version, CreateTemplateVersion the next. *)
CreateTemplateVersion(v) ==
  /\ status[v] = "none"
  /\ \A u \in Versions : u < v => status[u] # "none"
  /\ status' = [status EXCEPT ![v] = "draft"]
  /\ UNCHANGED << template, runtime, at, object, edited, narrowed >>

Mutable(v) == status[v] \in {"draft", "withdrawn"}

CountEdit(v) ==
  \/ status[v] = "draft" /\ UNCHANGED edited
  \/ status[v] = "withdrawn" /\ edited < MaxEdits /\ edited' = edited + 1

(* Mutant of ParentAllowed: a parent of another version is taken as well.  *)
ParentAnywhere(m, c, p) == p # None => c \notin Lineage(m, p)

(* A type of this version that is neither the type itself nor below it.    *)
ParentAllowed(m, c, p) ==
  p # None => m.types[p] # None /\ c \notin Lineage(m, p)

(* DefineObjectType: a new type, or another parent for one that is not     *)
(* published.                                                              *)
DefineObjectType(v, c, p) ==
  LET m == template[v] IN
  /\ Mutable(v)
  /\ m.types[c] # None => ~m.types[c].published
  /\ ParentAllowed(m, c, p)
  /\ template' = [template EXCEPT ![v].types[c] = [parent |-> p, published |-> FALSE]]
  /\ CountEdit(v)
  /\ UNCHANGED << status, runtime, at, object, narrowed >>

(* redefinitionViolations; a child without a limit passes.                 *)
Narrows(child, parent) ==
  /\ parent.required => child.required
  /\ child.limit # NoLimit => child.limit <= parent.limit

(* DefineFieldDef: a field of the type's own, which redefines the one its  *)
(* ancestors have, if they have one.                                       *)
DefineFieldDef(v, c, d) ==
  LET m     == template[v]
      above == Inherited(m, c)
      f     == [required |-> d.required, limit |-> d.limit, redefines |-> above # None] IN
  /\ Mutable(v)
  /\ m.types[c] # None /\ ~m.types[c].published
  /\ m.fields[c] = None
  /\ above # None => Narrows(f, above)
  /\ template' = [template EXCEPT ![v].fields[c] = f]
  /\ CountEdit(v)
  /\ UNCHANGED << status, runtime, at, object, narrowed >>

-----------------------------------------------------------------------------
(* The life of a version.                                                  *)

MarkPublished(m) ==
  [m EXCEPT !.types = [c \in Types |-> IF m.types[c] = None THEN None
                                       ELSE [m.types[c] EXCEPT !.published = TRUE]]]

PublishTemplateVersion(v) ==
  /\ status[v] \in {"draft", "withdrawn"}
  /\ template[v] # Empty
  /\ status' = [status EXCEPT ![v] = "published"]
  /\ template' = [template EXCEPT ![v] = MarkPublished(@)]
  /\ UNCHANGED << runtime, at, object, edited, narrowed >>

SetStatus(v, from, to) ==
  /\ status[v] = from
  /\ status' = [status EXCEPT ![v] = to]
  /\ UNCHANGED << template, runtime, at, object, edited, narrowed >>

WithdrawTemplateVersion(v) == SetStatus(v, "published", "withdrawn")
RestoreTemplateVersion(v)  == SetStatus(v, "withdrawn", "published")

(* A workspace is made: a copy of the version.                             *)
InstantiateWorkspace(v) ==
  /\ at = None
  /\ status[v] = "published"
  /\ runtime' = MarkPublished(template[v])
  /\ at' = v
  /\ UNCHANGED << status, template, object, edited, narrowed >>

-----------------------------------------------------------------------------
(* An upgrade: the two versions are compared, not the workspace.           *)

NewTypes(from, to)  == {c \in Types : from.types[c] = None /\ to.types[c] # None}
NewFields(from, to) == {c \in Types : from.fields[c] = None /\ to.fields[c] # None}
Kept(from)          == {c \in Types : from.fields[c] # None}

(* compareObjectTypes.                                                     *)
TypeBlocks(from, to) ==
  \E c \in Types : /\ from.types[c] # None
                   /\ to.types[c] = None \/ to.types[c].parent # from.types[c].parent

(* validRedefinitionConstraints: a child without a limit does not pass.    *)
StillRedefines(m, c) ==
  LET above == Inherited(m, c) IN above # None /\ m.fields[c].limit <= above.limit

(* Mutant of Relaxed: a limit may become smaller.                          *)
RelaxedRequired(f, g) == f.required \/ ~g.required

(* constraintsRelaxed, required fields included.                           *)
Relaxed(f, g) == (f.required \/ ~g.required) /\ f.limit <= g.limit

(* compareExistingField.                                                   *)
FieldBlocks(from, to, c) ==
  LET f == from.fields[c]
      g == to.fields[c] IN
  \/ g = None
  \/ f.redefines # g.redefines
  \/ g.redefines /\ ~StillRedefines(to, c)
  \/ ~Relaxed(f, g)

(* compareFieldDefs.                                                       *)
Blocked(from, to) ==
  \/ TypeBlocks(from, to)
  \/ \E c \in Kept(from) : FieldBlocks(from, to, c)
  \/ \E c \in NewFields(from, to) : from.types[c] # None /\ to.fields[c].required

(* ensureRuntimeObjectType: a type comes with its parents.                 *)
Needed(from, to) == UNION {Lineage(to, c) : c \in NewTypes(from, to) \cup NewFields(from, to)}

(* Mutant of Upgraded: a relaxed field keeps what it had.                  *)
UpgradedNewOnly(from, to) ==
  [types  |-> [c \in Types |->
                 IF runtime.types[c] = None /\ c \in Needed(from, to)
                 THEN [parent |-> to.types[c].parent, published |-> TRUE]
                 ELSE runtime.types[c]],
   fields |-> [c \in Types |->
                 IF c \in NewFields(from, to) THEN to.fields[c] ELSE runtime.fields[c]]]

(* applyTemplateVersion: new types and fields, and relaxed constraints of  *)
(* the fields the workspace has.                                           *)
Upgraded(from, to) ==
  [types  |-> [c \in Types |->
                 IF runtime.types[c] = None /\ c \in Needed(from, to)
                 THEN [parent |-> to.types[c].parent, published |-> TRUE]
                 ELSE runtime.types[c]],
   fields |-> [c \in Types |->
                 IF c \in NewFields(from, to) THEN to.fields[c]
                 ELSE IF c \in Kept(from) /\ runtime.fields[c] # None
                 THEN [runtime.fields[c] EXCEPT !.required = to.fields[c].required,
                                                !.limit = to.fields[c].limit]
                 ELSE runtime.fields[c]]]

(* runtimeRedefinedFieldId: fields are inserted in the order of their      *)
(* types' codes, and the one a field redefines has to be there.            *)
InOrder(from, to) ==
  \A c \in NewFields(from, to) :
    /\ runtime.fields[c] = None
    /\ to.fields[c].redefines =>
         \E a \in Lineage(Upgraded(from, to), c) \ {c} :
           runtime.fields[a] # None \/ (a \in NewFields(from, to) /\ a < c)

ApplyTemplateVersion(v) ==
  LET from == template[at]
      to   == template[v] IN
  /\ at # None
  /\ status[v] = "published"
  /\ ~Blocked(from, to)
  /\ InOrder(from, to)
  /\ runtime' = Upgraded(from, to)
  /\ at' = v
  /\ narrowed' = narrowed \cup {c \in NewFields(from, to) : Inherited(runtime, c) # None}
  /\ UNCHANGED << status, template, object, edited >>

-----------------------------------------------------------------------------
(* Objects of the workspace.                                               *)

CreateObject(c, value) ==
  /\ object = None
  /\ runtime.types[c] # None
  /\ Valid(runtime, c, value)
  /\ object' = [type |-> c, value |-> value, told |-> value,
                owner |-> IF value = NoValue THEN None ELSE Definer(runtime, c)]
  /\ UNCHANGED << status, template, runtime, at, edited, narrowed >>

(***************************************************************************)
(* The row is found by the field's code (lockField), and updated under the *)
(* field in force: updateField changes no row where the two differ.        *)
(***************************************************************************)
UpdateFields(value) ==
  LET field == Definer(runtime, object.type) IN
  /\ object # None
  /\ object.owner # None => object.value # value
  /\ field # None
  /\ Valid(runtime, object.type, value)
  /\ object' = [object EXCEPT !.told = value,
                              !.value = IF object.owner \in {None, field} THEN value ELSE @,
                              !.owner = IF @ = None THEN field ELSE @]
  /\ UNCHANGED << status, template, runtime, at, edited, narrowed >>

Next ==
  \/ \E v \in Versions :
       \/ CreateTemplateVersion(v)
       \/ \E c \in Types, p \in Types \cup {None} : DefineObjectType(v, c, p)
       \/ \E c \in Types, d \in Definitions : DefineFieldDef(v, c, d)
       \/ PublishTemplateVersion(v) \/ WithdrawTemplateVersion(v) \/ RestoreTemplateVersion(v)
       \/ InstantiateWorkspace(v) \/ ApplyTemplateVersion(v)
  \/ \E c \in Types, value \in Values : CreateObject(c, value)
  \/ \E value \in Values : UpdateFields(value)

Spec == Init /\ [][Next]_vars

-----------------------------------------------------------------------------
(* Properties.                                                             *)

(* A parent is a type of the same version, a field belongs to a type.      *)
Linked(m) ==
  \A c \in Types :
    /\ m.types[c] # None /\ m.types[c].parent # None => m.types[m.types[c].parent] # None
    /\ m.fields[c] # None => m.types[c] # None

(***************************************************************************)
(* Each variable holds values of its type, and no version and no workspace *)
(* has a reference that leads nowhere (copyObjectTypes,                    *)
(* ensureRuntimeObjectType).                                               *)
(***************************************************************************)
TypeOK ==
  /\ status \in [Versions -> Statuses]
  /\ template \in [Versions -> Metamodel] /\ \A v \in Versions : Linked(template[v])
  /\ runtime \in Metamodel /\ Linked(runtime)
  /\ at \in Versions \cup {None}
  /\ object \in Object \cup {None}
  /\ edited \in 0..MaxEdits /\ narrowed \subseteq Types

(***************************************************************************)
(* Whatever versions a workspace is led through, the objects in it satisfy *)
(* the constraints in force, a field that became required, lost its limit  *)
(* or was added to a parent included; except where an upgrade has put a    *)
(* field of its own over one they inherit (planTemplateVersionApply,       *)
(* resolveEffectiveFields).                                                *)
(***************************************************************************)
ObjectsStayValid ==
  object # None /\ Lineage(runtime, object.type) \cap narrowed = {}
  => Valid(runtime, object.type, object.value)

(***************************************************************************)
(* A workspace that was led to a version through others has the types and  *)
(* fields a workspace made from that version has, as long as no withdrawn  *)
(* version was edited (instantiateTemplateVersion, applyTemplateVersion).  *)
(***************************************************************************)
RuntimeIsVersion ==
  at # None /\ edited = 0 => runtime = template[at]

(***************************************************************************)
(* The contract: a FieldChanged carries the value after the change; what a *)
(* committed UpdateFields told of a field is the field's value.            *)
(***************************************************************************)
ChangesAreStored ==
  object # None => object.value = object.told

=============================================================================
