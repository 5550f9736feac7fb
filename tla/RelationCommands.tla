-------------------------- MODULE RelationCommands --------------------------
(***************************************************************************)
(* The relation handlers and the parts of Archive, SoftDelete and          *)
(* ChangeState that meet them: which rows they lock, in which order, and   *)
(* what they may have read before another transaction committed.           *)
(*                                                                         *)
(* One workspace and one relation type: duplicates, cardinality and the    *)
(* closure table are kept per type.  An object's status is LIVE for every  *)
(* controlled status but FILED; fields, history rows, events and the       *)
(* command log, which ObjectCommands models, are left out.                 *)
(***************************************************************************)
EXTENDS Integers, FiniteSets

CONSTANTS
  Objects,        \* ids of data_object rows, naturals: rows are locked by id
  Relations,      \* ids of data_relation rows
  Threads,        \* request threads of all server instances
  OneToMany,      \* relation_type.cardinality = 'one_to_many'
  Hierarchical,   \* relation_type.hierarchical
  Absent,         \* no row, not given
  Commands        \* what clients send

(* DefineRelationType admits a hierarchy only with cardinality one_to_many. *)
ASSUME RelationTypeValid ==
  /\ Objects \subseteq Nat /\ Relations \subseteq Nat
  /\ OneToMany \in BOOLEAN /\ Hierarchical \in BOOLEAN
  /\ Hierarchical => OneToMany

(* Each server has so many request threads and no more.                    *)
ASSUME ThreadsFinite == IsFiniteSet(Threads)

ObjectStatus   == {"LIVE", "VOID", "FILED", "DELETED"}
RelationStatus == {"ACTIVE", "UNLINKED", "VOID", "DELETED"}

ObjectKinds   == {"ChangeState", "Archive", "SoftDelete"}
RelationKinds == {"UpdateRelation", "Unlink", "ArchiveRelation", "SoftDeleteRelation"}

Command ==
  [ kind     : {"CreateRelation"} \cup RelationKinds \cup ObjectKinds,
    obj      : Objects \cup {Absent},
    rel      : Relations \cup {Absent},
    src      : Objects \cup {Absent},     \* Absent in UpdateRelation: unchanged
    tgt      : Objects \cup {Absent},
    to       : ObjectStatus \cup {Absent},   \* ChangeState.toState
    expected : Nat,
    policy   : {"reject", "unlink"} ]     \* relationPolicy

(* What is not there is no id, no status and no command.                   *)
ASSUME AbsentApart ==
  /\ Absent \notin Objects /\ Absent \notin Relations /\ Absent \notin Commands
  /\ Absent \notin ObjectStatus /\ Absent \notin RelationStatus

ASSUME CommandsValid ==
  /\ Commands \subseteq Command
  /\ \A c \in Commands :
       /\ c.kind \in ObjectKinds => c.obj \in Objects
       /\ c.kind \in RelationKinds => c.rel \in Relations
       /\ c.kind = "CreateRelation" => c.src \in Objects /\ c.tgt \in Objects /\ c.rel = Absent
       /\ c.kind = "ChangeState" => c.to \in ObjectStatus \ {"DELETED"}

VARIABLES
  obj,      \* data_object: status and version
  rel,      \* data_relation
  closure,  \* relation_closure: ancestor and descendant, the depth left out
  tx,       \* the transaction of each thread
  held      \* the row locks it holds until it ends

tables == << obj, rel, closure >>
vars == << tables, tx, held >>

NoRelation == [src |-> Absent, tgt |-> Absent, status |-> Absent, version |-> 0]

Relation == [src : Objects, tgt : Objects, status : RelationStatus, version : Nat \ {0}]

Pairs == Objects \X Objects

PCs == {"idle", "object", "relation", "endpoints", "validate", "cascade", "clear", "write", "commit"}

Transaction ==
  [ pc   : PCs,
    cmd  : Commands \cup {Absent},
    row  : Relation \cup {NoRelation},    \* the relation as lockRelation read it
    todo : SUBSET (Objects \cup Relations),   \* rows still to be locked, by id
    got  : SUBSET Relations,              \* active relations locked for a cascade
    del  : SUBSET Pairs,                  \* closure rows deleted
    ins  : SUBSET Pairs ]                 \* closure rows inserted

Begin(c, pc, rows) ==
  [pc |-> pc, cmd |-> c, row |-> NoRelation, todo |-> rows, got |-> {},
   del |-> {}, ins |-> {}]

ObjectLock(o)   == << "object", o >>
RelationLock(r) == << "relation", r >>

Lock == {ObjectLock(o) : o \in Objects} \cup {RelationLock(r) : r \in Relations}

Free(t, l) == \A u \in Threads \ {t} : l \notin held[u]

Init ==
  /\ obj = [o \in Objects |-> [status |-> "LIVE", version |-> 1]]
  /\ rel = [r \in Relations |-> NoRelation]
  /\ closure = {}
  /\ tx = [t \in Threads |-> Begin(Absent, "idle", {})]
  /\ held = [t \in Threads |-> {}]

-----------------------------------------------------------------------------
(* What the repositories read and compute.                                 *)

Active(r) == rel[r].status = "ACTIVE"

Touches(r, o) == o \in {rel[r].src, rel[r].tgt}

(* The closure as the transaction itself sees it.                          *)
View(t) == closure \ tx[t].del

Ancestors(view, o)   == {p[1] : p \in {q \in view : q[2] = o}}
Descendants(view, o) == {p[2] : p \in {q \in view : q[1] = o}}

(* insertClosure and deleteClosure range over the same rows.               *)
Spanned(view, s, d) ==
  (Ancestors(view, s) \cup {s}) \X (Descendants(view, d) \cup {d})

(* Mutant of Cleared: only the pair itself goes.                           *)
ClearedPair(view, row) == view \cap {<< row.src, row.tgt >>}

(* deleteClosure, which only a hierarchical type needs.                    *)
Cleared(view, row) ==
  IF Hierarchical THEN view \cap Spanned(view, row.src, row.tgt) ELSE {}

(***************************************************************************)
(* A statement that meets closure rows another transaction has written     *)
(* waits for its end; here it takes its snapshot after that.               *)
(***************************************************************************)
Uncontended(t, pairs) ==
  \A u \in Threads \ {t} : pairs \cap (tx[u].del \cup tx[u].ins) = {}

(* Mutant of InvalidEndpoint: the status is not looked at.                 *)
AnyEndpoint(o) == FALSE

InvalidEndpoint(o) == obj[o].status \in {"VOID", "FILED", "DELETED"}

(* The candidate's endpoints: an UpdateRelation may keep either.           *)
Source(t) == IF tx[t].cmd.src = Absent THEN tx[t].row.src ELSE tx[t].cmd.src
Target(t) == IF tx[t].cmd.tgt = Absent THEN tx[t].row.tgt ELSE tx[t].cmd.tgt

(* Always so for CreateRelation, which has no row.                         *)
EndpointsChanged(t) ==
  << Source(t), Target(t) >> # << tx[t].row.src, tx[t].row.tgt >>

(* validateDuplicate and validateCardinality leave out the relation itself. *)
Others(t) == {r \in Relations : Active(r) /\ r # tx[t].cmd.rel}

Duplicate(t) == \E r \in Others(t) : rel[r].src = Source(t) /\ rel[r].tgt = Target(t)

(* Mutant of TooMany: the count is taken for the source.                   *)
TooManyChildren(t) == OneToMany /\ \E r \in Others(t) : rel[r].src = Source(t)

TooMany(t) == OneToMany /\ \E r \in Others(t) : rel[r].tgt = Target(t)

(* validateCycle: pathExists from the target to the source.                *)
Cycle(t) == Hierarchical /\ << Target(t), Source(t) >> \in View(t)

Admissible(t) ==
  /\ Source(t) # Target(t)
  /\ ~InvalidEndpoint(Source(t)) /\ ~InvalidEndpoint(Target(t))
  /\ ~Duplicate(t) /\ ~TooMany(t) /\ ~Cycle(t)

(* allowed(current) of ChangeState, for the statuses kept here.            *)
MayChange(s, to) ==
  \/ s = "LIVE" /\ to \in {"LIVE", "FILED", "VOID"}
  \/ s = "FILED" /\ to = "VOID"

(* Mutant of Final: an unlinked relation gets a status nobody knows.       *)
FinalRemoved(kind) == CASE kind \in {"Archive", "ArchiveRelation"} -> "VOID"
                        [] kind \in {"SoftDelete", "SoftDeleteRelation"} -> "DELETED"
                        [] kind = "Unlink" -> "REMOVED"

(* The status each removal leads to.                                       *)
Final(kind) == CASE kind \in {"Archive", "ArchiveRelation"} -> "VOID"
                 [] kind \in {"SoftDelete", "SoftDeleteRelation"} -> "DELETED"
                 [] kind = "Unlink" -> "UNLINKED"

-----------------------------------------------------------------------------
(* Mutant of Finish: the locks stay with the connection.                   *)
FinishHolding(t) ==
  /\ tx' = [tx EXCEPT ![t] = Begin(Absent, "idle", {})]
  /\ UNCHANGED held

(* The transaction ends, with or without a commit, and drops its locks.    *)
Finish(t) ==
  /\ tx' = [tx EXCEPT ![t] = Begin(Absent, "idle", {})]
  /\ held' = [held EXCEPT ![t] = {}]

Take(t, l) == held' = [held EXCEPT ![t] = @ \cup {l}]

(* A refusal, or a command that finds its work done: nothing is written.   *)
Quit(t) == Finish(t) /\ UNCHANGED tables

(* Bound: a relation is created only while an id is left for its row.      *)
Room ==
  Cardinality({r \in Relations : rel[r] = NoRelation})
    > Cardinality({u \in Threads : tx[u].pc # "idle" /\ tx[u].cmd.kind = "CreateRelation"})

(***************************************************************************)
(* A command arrives.  CreateRelation goes for its endpoints, the others   *)
(* for the row they name.                                                  *)
(***************************************************************************)
Start(t, c) ==
  /\ tx[t].pc = "idle"
  /\ c.kind = "CreateRelation" => Room
  /\ tx' = [tx EXCEPT ![t] =
       CASE c.kind = "CreateRelation" -> Begin(c, "endpoints", {c.src, c.tgt})
         [] c.kind \in RelationKinds  -> Begin(c, "relation", {})
         [] c.kind \in ObjectKinds    -> Begin(c, "object", {})]
  /\ UNCHANGED << tables, held >>

-----------------------------------------------------------------------------
(* Commands that name a relation.                                          *)

(* There is no such row, it is not ACTIVE, or its version is another.      *)
Refused(c, row) ==
  \/ row = NoRelation
  \/ c.kind = "UpdateRelation" /\ row.status # "ACTIVE"
  \/ row.version # c.expected

(* lockRelation, and the command ends: refused, or already done.           *)
LockRelationAndQuit(t) ==
  LET c == tx[t].cmd
      row == rel[c.rel]
  IN
  /\ tx[t].pc = "relation"
  /\ Free(t, RelationLock(c.rel))
  /\ \/ Refused(c, row)
     \/ c.kind # "UpdateRelation" /\ row.status = Final(c.kind)
  /\ Quit(t)

(***************************************************************************)
(* Unlink, Archive and SoftDelete of a relation: the closure rows that go  *)
(* with its endpoints are deleted, whatever status it had.                 *)
(***************************************************************************)
LockRelation(t) ==
  LET c == tx[t].cmd
      row == rel[c.rel]
  IN
  /\ tx[t].pc = "relation"
  /\ c.kind # "UpdateRelation"
  /\ Free(t, RelationLock(c.rel))
  /\ ~Refused(c, row) /\ row.status # Final(c.kind)
  /\ Uncontended(t, Cleared(closure, row))
  /\ Take(t, RelationLock(c.rel))
  /\ tx' = [tx EXCEPT ![t].pc = "commit", ![t].row = row,
                      ![t].del = Cleared(closure, row)]
  /\ UNCHANGED tables

(***************************************************************************)
(* UpdateRelation: it deletes the closure rows of the old endpoints before *)
(* it locks the new ones.                                                  *)
(***************************************************************************)
LockForUpdate(t) ==
  LET c == tx[t].cmd
      row == rel[c.rel]
      s == IF c.src = Absent THEN row.src ELSE c.src
      d == IF c.tgt = Absent THEN row.tgt ELSE c.tgt
      gone == IF << s, d >> = << row.src, row.tgt >> THEN {} ELSE Cleared(closure, row)
  IN
  /\ tx[t].pc = "relation"
  /\ c.kind = "UpdateRelation"
  /\ Free(t, RelationLock(c.rel))
  /\ ~Refused(c, row)
  /\ Uncontended(t, gone)
  /\ Take(t, RelationLock(c.rel))
  /\ tx' = [tx EXCEPT ![t].pc = "endpoints", ![t].row = row, ![t].todo = {s, d},
                      ![t].del = gone]
  /\ UNCHANGED tables

-----------------------------------------------------------------------------
(* validateCandidate.                                                      *)

(* Mutant of First: the rows are locked in no order.                       *)
AnyOf(ids, i) == i \in ids

(* ORDER BY id FOR UPDATE locks one row after the other, by id.            *)
First(ids, i) == i \in ids /\ \A j \in ids : i <= j

(* Mutant of LockEndpoint: the endpoints are read without FOR UPDATE.      *)
ReadEndpoint(t, o) ==
  LET rest == tx[t].todo \ {o} IN
  /\ tx[t].pc = "endpoints"
  /\ First(tx[t].todo, o)
  /\ tx' = [tx EXCEPT ![t].todo = rest,
                      ![t].pc = IF rest = {} THEN "validate" ELSE "endpoints"]
  /\ UNCHANGED << tables, held >>

(* lockEndpoints takes both rows FOR UPDATE.                               *)
LockEndpoint(t, o) ==
  LET rest == tx[t].todo \ {o} IN
  /\ tx[t].pc = "endpoints"
  /\ First(tx[t].todo, o)
  /\ Free(t, ObjectLock(o))
  /\ Take(t, ObjectLock(o))
  /\ tx' = [tx EXCEPT ![t].todo = rest,
                      ![t].pc = IF rest = {} THEN "validate" ELSE "endpoints"]
  /\ UNCHANGED tables

(* The endpoints' statuses, duplicates, cardinality and cycles are read.   *)
Validate(t) ==
  /\ tx[t].pc = "validate"
  /\ Admissible(t)
  /\ tx' = [tx EXCEPT ![t].pc = "write"]
  /\ UNCHANGED << tables, held >>

Invalidate(t) ==
  /\ tx[t].pc = "validate"
  /\ ~Admissible(t)
  /\ Quit(t)

(* insertClosure reads the closure once more, after the validation.        *)
InsertClosure(t) ==
  LET new == IF Hierarchical /\ EndpointsChanged(t)
             THEN Spanned(View(t), Source(t), Target(t)) ELSE {}
  IN
  /\ tx[t].pc = "write"
  /\ Uncontended(t, new)
  /\ tx' = [tx EXCEPT ![t].pc = "commit", ![t].ins = new]
  /\ UNCHANGED << tables, held >>

-----------------------------------------------------------------------------
(* Commands that name an object.                                           *)

(* The version or, for ChangeState, the status does not fit.               *)
RefusedObject(c) ==
  \/ obj[c.obj].version # c.expected
  \/ c.kind = "ChangeState" /\ ~MayChange(obj[c.obj].status, c.to)

(* lockObject, and the command ends: refused, or already done.             *)
LockObjectAndQuit(t) ==
  LET c == tx[t].cmd IN
  /\ tx[t].pc = "object"
  /\ Free(t, ObjectLock(c.obj))
  /\ \/ RefusedObject(c)
     \/ c.kind # "ChangeState" /\ obj[c.obj].status = Final(c.kind)
  /\ Quit(t)

(***************************************************************************)
(* ChangeState needs the object alone.  Archive and SoftDelete find the    *)
(* relations ACTIVE now, to lock them one by one.                          *)
(***************************************************************************)
LockObject(t) ==
  LET c == tx[t].cmd
      found == {r \in Relations : Active(r) /\ Touches(r, c.obj)}
  IN
  /\ tx[t].pc = "object"
  /\ Free(t, ObjectLock(c.obj))
  /\ ~RefusedObject(c)
  /\ c.kind # "ChangeState" => obj[c.obj].status # Final(c.kind)
  /\ Take(t, ObjectLock(c.obj))
  /\ tx' = [tx EXCEPT
       ![t].pc = IF c.kind = "ChangeState" THEN "commit" ELSE "cascade",
       ![t].todo = IF c.kind = "ChangeState" THEN {} ELSE found]
  /\ UNCHANGED tables

(* Mutant of LockActive: the row is taken as it was found.                 *)
LockFound(t, r) ==
  /\ tx[t].pc = "cascade"
  /\ First(tx[t].todo, r)
  /\ Free(t, RelationLock(r))
  /\ Take(t, RelationLock(r))
  /\ tx' = [tx EXCEPT ![t].todo = @ \ {r}, ![t].got = @ \cup {r}]
  /\ UNCHANGED tables

(***************************************************************************)
(* lockActiveForObject: after a wait PostgreSQL looks at the row again and *)
(* leaves out one that is no longer ACTIVE or has moved elsewhere.         *)
(***************************************************************************)
LockActive(t, r) ==
  /\ tx[t].pc = "cascade"
  /\ First(tx[t].todo, r)
  /\ Free(t, RelationLock(r))
  /\ Take(t, RelationLock(r))
  /\ tx' = [tx EXCEPT ![t].todo = @ \ {r},
       ![t].got = IF Active(r) /\ Touches(r, tx[t].cmd.obj) THEN @ \cup {r} ELSE @]
  /\ UNCHANGED tables

(* validateRelations: with policy reject an active relation is in the way. *)
RejectActive(t) ==
  /\ tx[t].pc = "cascade" /\ tx[t].todo = {}
  /\ tx[t].got # {} /\ tx[t].cmd.policy = "reject"
  /\ Quit(t)

(* Nothing is in the way, or all of it is to be unlinked.                  *)
AcceptActive(t) ==
  /\ tx[t].pc = "cascade" /\ tx[t].todo = {}
  /\ tx[t].got = {} \/ tx[t].cmd.policy = "unlink"
  /\ tx' = [tx EXCEPT ![t].pc = IF tx[t].got = {} THEN "commit" ELSE "clear",
                      ![t].todo = tx[t].got]
  /\ UNCHANGED << tables, held >>

(* unlinkForCascade: each relation in turn loses its closure rows.         *)
ClearCascade(t, r) ==
  LET rest == tx[t].todo \ {r} IN
  /\ tx[t].pc = "clear"
  /\ First(tx[t].todo, r)
  /\ Uncontended(t, Cleared(View(t), rel[r]))
  /\ tx' = [tx EXCEPT ![t].todo = rest,
                      ![t].pc = IF rest = {} THEN "commit" ELSE "clear",
                      ![t].del = @ \cup Cleared(View(t), rel[r])]
  /\ UNCHANGED << tables, held >>

-----------------------------------------------------------------------------
(* The rows written, and the commit that publishes them.                   *)

WriteClosure(t) == closure' = (closure \ tx[t].del) \cup tx[t].ins

CommitCreate(t) ==
  /\ tx[t].pc = "commit" /\ tx[t].cmd.kind = "CreateRelation"
  /\ \E r \in Relations :
       /\ rel[r] = NoRelation
       /\ rel' = [rel EXCEPT ![r] = [src |-> Source(t), tgt |-> Target(t),
                                     status |-> "ACTIVE", version |-> 1]]
  /\ WriteClosure(t)
  /\ Finish(t)
  /\ UNCHANGED obj

CommitUpdate(t) ==
  /\ tx[t].pc = "commit" /\ tx[t].cmd.kind = "UpdateRelation"
  /\ rel' = [rel EXCEPT ![tx[t].cmd.rel].src = Source(t),
                        ![tx[t].cmd.rel].tgt = Target(t),
                        ![tx[t].cmd.rel].version = tx[t].row.version + 1]
  /\ WriteClosure(t)
  /\ Finish(t)
  /\ UNCHANGED obj

CommitRelation(t) ==
  /\ tx[t].pc = "commit" /\ tx[t].cmd.kind \in RelationKinds \ {"UpdateRelation"}
  /\ rel' = [rel EXCEPT ![tx[t].cmd.rel].status = Final(tx[t].cmd.kind),
                        ![tx[t].cmd.rel].version = tx[t].row.version + 1]
  /\ WriteClosure(t)
  /\ Finish(t)
  /\ UNCHANGED obj

CommitObject(t) ==
  LET c == tx[t].cmd IN
  /\ tx[t].pc = "commit" /\ c.kind \in ObjectKinds
  /\ obj' = [obj EXCEPT ![c.obj] =
               [status |-> IF c.kind = "ChangeState" THEN c.to ELSE Final(c.kind),
                version |-> @.version + 1]]
  /\ rel' = [r \in Relations |-> IF r \in tx[t].got
               THEN [rel[r] EXCEPT !.status = "UNLINKED", !.version = @ + 1]
               ELSE rel[r]]
  /\ WriteClosure(t)
  /\ Finish(t)

-----------------------------------------------------------------------------
(***************************************************************************)
(* Waiting.  A transaction asks for one row at a time.                     *)
(***************************************************************************)
WaitsFor(t) ==
  CASE tx[t].pc = "object"    -> {ObjectLock(tx[t].cmd.obj)}
    [] tx[t].pc = "relation"  -> {RelationLock(tx[t].cmd.rel)}
    [] tx[t].pc = "endpoints" -> {ObjectLock(o) : o \in {p \in tx[t].todo : First(tx[t].todo, p)}}
    [] tx[t].pc = "cascade"   -> {RelationLock(r) : r \in {q \in tx[t].todo : First(tx[t].todo, q)}}
    [] OTHER -> {}

Deadlocked(D) ==
  D # {} /\ \A t \in D : \E l \in WaitsFor(t) : \E u \in D \ {t} : l \in held[u]

(* PostgreSQL finds the cycle and rolls one of the transactions back.      *)
DeadlockVictim(t) ==
  /\ \E D \in SUBSET Threads : t \in D /\ Deadlocked(D)
  /\ Quit(t)

(* A refusal that reads nothing kept here, a lost connection, a crash.     *)
Abort(t) == tx[t].pc # "idle" /\ Quit(t)

-----------------------------------------------------------------------------
Run(t) ==
  \/ LockRelationAndQuit(t)
  \/ LockRelation(t)
  \/ LockForUpdate(t)
  \/ \E o \in Objects : LockEndpoint(t, o)
  \/ Validate(t)
  \/ Invalidate(t)
  \/ InsertClosure(t)
  \/ LockObjectAndQuit(t)
  \/ LockObject(t)
  \/ \E r \in Relations : LockActive(t, r)
  \/ RejectActive(t)
  \/ AcceptActive(t)
  \/ \E r \in Relations : ClearCascade(t, r)
  \/ CommitCreate(t)
  \/ CommitUpdate(t)
  \/ CommitRelation(t)
  \/ CommitObject(t)
  \/ DeadlockVictim(t)

Next ==
  \E t \in Threads :
    \/ \E c \in Commands : Start(t, c)
    \/ Run(t)
    \/ Abort(t)

Spec == Init /\ [][Next]_vars

-----------------------------------------------------------------------------
(* The tables and the transactions are of their type.                      *)
TypeOK ==
  /\ obj \in [Objects -> [status : ObjectStatus, version : Nat \ {0}]]
  /\ rel \in [Relations -> Relation \cup {NoRelation}]
  /\ closure \subseteq Pairs
  /\ tx \in [Threads -> Transaction]
  /\ held \in [Threads -> SUBSET Lock]

(***************************************************************************)
(* What the endpoint locks are for: of a one_to_many type an object never  *)
(* has two parents, and no two active relations join the same objects, so  *)
(* the partial unique index never has to refuse a row; the validations     *)
(* were read before the commit, and other commands ran since.              *)
(***************************************************************************)
OneParent ==
  \A r, q \in Relations :
    r # q /\ Active(r) /\ Active(q) =>
      /\ << rel[r].src, rel[r].tgt >> # << rel[q].src, rel[q].tgt >>
      /\ OneToMany => rel[r].tgt # rel[q].tgt

(***************************************************************************)
(* A deleted object is the endpoint of no active relation: no command that *)
(* found it alive commits a relation after the cascade looked.             *)
(***************************************************************************)
DeletedIsUnrelated ==
  \A r \in Relations : Active(r) =>
    \A o \in {rel[r].src, rel[r].tgt} : obj[o].status # "DELETED"

(* What was validated before a commit holds after it.                      *)
ValidatedHolds == OneParent /\ DeletedIsUnrelated

(***************************************************************************)
(* The transactions, however they interleave, act on the graph of active   *)
(* relations as if each ran alone at its commit: a relation is made or     *)
(* moved only between objects live at that moment, a cascade ends every    *)
(* relation there is, and an ended relation never comes back.              *)
(***************************************************************************)
Graph == INSTANCE RelationGraph WITH
  status <- [o \in Objects |-> obj[o].status],
  edges  <- {[rel |-> r, src |-> rel[r].src, tgt |-> rel[r].tgt] :
               r \in {q \in Relations : Active(q)}},
  used   <- {r \in Relations : rel[r] # NoRelation}

ActsOnGraph == Graph!GraphSpec

(***************************************************************************)
(* What a transaction decided on is still so when it commits: the relation *)
(* it read has not changed, and the candidate is still admissible.         *)
(***************************************************************************)
DecidedStaysValid ==
  \A t \in Threads :
    /\ tx[t].row # NoRelation => rel[tx[t].cmd.rel] = tx[t].row
    /\ tx[t].pc \in {"write", "commit"} /\ tx[t].cmd.kind \in {"CreateRelation", "UpdateRelation"}
         => /\ ~InvalidEndpoint(Source(t)) /\ ~InvalidEndpoint(Target(t))
            /\ ~Duplicate(t) /\ ~TooMany(t)
    /\ \A r \in tx[t].got : Active(r) /\ Touches(r, tx[t].cmd.obj)

(***************************************************************************)
(* The order in which rows are locked (objects by id, then relations by    *)
(* id) excludes deadlocks, but for UpdateRelation, which locks its         *)
(* relation before the endpoints.                                          *)
(***************************************************************************)
OnlyUpdatesDeadlock ==
  \A D \in SUBSET Threads :
    Deadlocked(D) => \E t \in D : tx[t].cmd.kind = "UpdateRelation"

-----------------------------------------------------------------------------
(* The closure table.                                                      *)

Edges == {<< rel[r].src, rel[r].tgt >> : r \in {q \in Relations : Active(q)}}

(***************************************************************************)
(* The pairs a path joins: the second is in every set that has what the    *)
(* first leads to, and what the members of the set lead to.                *)
(***************************************************************************)
Leads(o, S) == \A e \in Edges : e[1] = o \/ e[1] \in S => e[2] \in S

Paths == {p \in Pairs : \A S \in SUBSET Objects : Leads(p[1], S) => p[2] \in S}

(***************************************************************************)
(* The closure table holds the paths through active relations: it is       *)
(* maintained in the command's own transaction.                            *)
(***************************************************************************)
ClosureIsPaths == Hierarchical => closure = Paths

(* A hierarchy has no cycle: validateCycle refuses the relation closing it. *)
NoCycle == Hierarchical => \A o \in Objects : << o, o >> \notin Paths

(***************************************************************************)
(* Growing, regrafting and cutting a hierarchy keeps it one, and the       *)
(* closure table in step with it (insertClosure, clearClosure,             *)
(* validateCycle).                                                         *)
(***************************************************************************)
HierarchyKept == ClosureIsPaths /\ NoCycle

-----------------------------------------------------------------------------
(* Progress: request threads keep running, PostgreSQL grants row locks in  *)
(* the order they were asked for and finds deadlocks.                      *)
FairSpec == Spec /\ \A t \in Threads : SF_vars(Run(t))

(* Every command ends: the locks are not waited for in a circle forever.   *)
EveryCommandEnds ==
  \A t \in Threads : tx[t].pc # "idle" ~> tx[t].pc = "idle"

=============================================================================
