---------------------------- MODULE WriteBridge ----------------------------
(***************************************************************************)
(* The bridge from the browser's copy of a workspace to the kernel         *)
(* (write-bridge.ts, the write paths of kernel-gateway.ts).  A user's edit *)
(* shows at once (WorkspaceStore) and becomes a task: a command that waits *)
(* for the earlier tasks with a key of its own, is accepted or refused,    *)
(* and is then looked up in the read model, which lags behind the kernel,  *)
(* object by object and field by field.  Meanwhile the user goes on        *)
(* editing and other users write the same objects.                         *)
(***************************************************************************)
EXTENDS WorkspaceStore, SequencesExt

CONSTANTS
  Loaded,       \* the objects loaded when the session starts
  Sessions,     \* bound: the kinds of edits a user makes, one after the other
  OtherValues   \* bound: what other users write, each value once

MaxWrites == Max({Len(s) : s \in Sessions})

ASSUME BridgeAssumption ==
  /\ Loaded \subseteq Servers
  /\ OtherValues \subseteq Values \ {0}
  /\ \A s \in Sessions : 1 .. Len(s) \subseteq Values \ OtherValues

VARIABLES
  tasks,      \* the writes of the session in the order the user made them
  idMap,      \* objectIdMap: temporary id -> kernel id, or None
  gens,       \* refreshGenerationByObjectId
  fetches,    \* refreshes under way
  kernel,     \* object id -> its states in the kernel, oldest first
  links,      \* relation id -> the kernel's relation, or None
  seen,       \* how far the read model has got, as far as it has been read
  others      \* what other users have written

server == << kernel, links, others >>
vars == << store, tasks, idMap, gens, fetches, server, seen >>

Tasks == DOMAIN tasks

(***************************************************************************)
(* A task: the descriptor the store hands over (op, id, rel, f, v, src,    *)
(* tgt, the version and the state before the edit), the keys it queues     *)
(* under, and what came of it: the ids it was sent with, the row claimed,  *)
(* and the state it left in the kernel (its index at).                     *)
(***************************************************************************)
Ops      == {"update", "create", "delete", "relate", "unlink"}
Pcs      == {"queued", "accepted", "claimed", "endpoints", "related", "done"}
Outcomes == {"none", "synced", "pending", "failed"}

Blank ==
  [op |-> "none", id |-> None, rel |-> None, f |-> None, v |-> 0, src |-> None, tgt |-> None,
   expected |-> 0, prev |-> None, keys |-> {}, sent |-> {}, target |-> None, at |-> 0,
   row |-> None, pc |-> "queued", stale |-> FALSE, outcome |-> "none"]

Initial == [version |-> 1, live |-> TRUE, val |-> [f \in Fields |-> 0]]

Init ==
  /\ objects = [o \in Ids |-> IF o \in Loaded THEN Initial ELSE None]
  /\ relations = [r \in RelIds |-> None]
  /\ tasks = << >>
  /\ idMap = [n \in Temps |-> None]
  /\ gens = [o \in Servers |-> 0]
  /\ fetches = {}
  /\ kernel = [o \in Servers |-> IF o \in Loaded THEN << Initial >> ELSE << >>]
  /\ links = [r \in Links |-> None]
  /\ seen = [o \in Servers |-> [row |-> 1, f |-> [f \in Fields |-> 1]]]
  /\ others = {}

Resolve(id) == IF id \in Temps /\ idMap[id] # None THEN idMap[id] ELSE id

-----------------------------------------------------------------------------
(* The edits.  Each shows at once and is queued; keys are resolved now.    *)

Enqueue(d, ids) ==
  /\ \E s \in Sessions : /\ Len(tasks) < Len(s) /\ s[Len(tasks) + 1] = d.op
                        /\ \A t \in Tasks : tasks[t].op = s[t]
  /\ tasks' = Append(tasks, [d EXCEPT !.keys = {Resolve(id) : id \in ids}])
  /\ UNCHANGED << idMap, gens, fetches, server, seen >>

(* The user writes something new, or what was there at the start.          *)
EditField(o, f, v) ==
  /\ UpdateField(o, f, v)
  /\ Enqueue([Blank EXCEPT !.op = "update", !.id = o, !.f = f, !.v = v,
                           !.expected = objects[o].version, !.prev = objects[o]], {o})

AddObject(n) ==
  /\ \A t \in Tasks : tasks[t].id # n
  /\ LET v == Len(tasks) + 1 IN
       /\ CreateObject(n, [f \in Fields |-> v])
       /\ Enqueue([Blank EXCEPT !.op = "create", !.id = n, !.v = v], {n})

RemoveObject(o) ==
  /\ Shown(o)
  /\ DeleteObject(o)
  /\ Enqueue([Blank EXCEPT !.op = "delete", !.id = o, !.expected = objects[o].version,
                           !.prev = Snapshot(o)], {o})

(* Mutant of Relate: the task waits for its target only.                   *)
RelateByTarget(m, a, b) ==
  /\ Shown(a) /\ Shown(b) /\ a # b
  /\ \A t \in Tasks : tasks[t].rel # m
  /\ CreateRelation(m, a, b)
  /\ Enqueue([Blank EXCEPT !.op = "relate", !.rel = m, !.src = a, !.tgt = b], {b, m})

Relate(m, a, b) ==
  /\ Shown(a) /\ Shown(b) /\ a # b
  /\ \A t \in Tasks : tasks[t].rel # m
  /\ CreateRelation(m, a, b)
  /\ Enqueue([Blank EXCEPT !.op = "relate", !.rel = m, !.src = a, !.tgt = b], {a, b, m})

Unrelate(r) ==
  /\ Present(r) /\ relations[r].active
  /\ UnlinkRelation(r)
  /\ Enqueue([Blank EXCEPT !.op = "unlink", !.rel = r, !.expected = relations[r].version,
                           !.prev = relations[r]], {r})

-----------------------------------------------------------------------------
(* The kernel: what a command needs and what it does.                      *)

Now(o) == Last(kernel[o])

(* A value that does not change is accepted and makes no new version.      *)
KernelUpdate(o, f, v, expected) ==
  /\ o \in Servers /\ kernel[o] # << >>
  /\ Now(o).live /\ Now(o).version = expected
  /\ kernel' = IF Now(o).val[f] = v THEN kernel
               ELSE [kernel EXCEPT ![o] =
                       Append(@, [Now(o) EXCEPT !.version = @ + 1, !.val[f] = v])]
  /\ UNCHANGED << links, others >>

KernelCreate(o, v) ==
  /\ o \in Servers /\ kernel[o] = << >>
  /\ kernel' = [kernel EXCEPT ![o] = << [Initial EXCEPT !.val = [f \in Fields |-> v]] >>]
  /\ UNCHANGED << links, others >>

(* Archive with relationPolicy "unlink".                                   *)
KernelArchive(o, expected) ==
  /\ o \in Servers /\ kernel[o] # << >>
  /\ \/ ~Now(o).live /\ UNCHANGED << kernel, links >>
     \/ /\ Now(o).live /\ Now(o).version = expected
        /\ kernel' = [kernel EXCEPT ![o] =
                        Append(@, [Now(o) EXCEPT !.version = @ + 1, !.live = FALSE])]
        /\ links' = [r \in Links |->
             IF links[r] # None /\ links[r].active /\ o \in {links[r].src, links[r].tgt}
             THEN [links[r] EXCEPT !.active = FALSE, !.version = @ + 1] ELSE links[r]]
  /\ UNCHANGED others

KernelRelate(r, a, b) ==
  /\ r \in Links /\ links[r] = None
  /\ \A o \in {a, b} : o \in Servers /\ kernel[o] # << >> /\ Now(o).live
  /\ links' = [links EXCEPT ![r] = [src |-> a, tgt |-> b, active |-> TRUE, version |-> 1]]
  /\ UNCHANGED << kernel, others >>

KernelUnlink(r, expected) ==
  /\ r \in Links /\ links[r] # None
  /\ links[r].active /\ links[r].version = expected
  /\ links' = [links EXCEPT ![r].active = FALSE, ![r].version = @ + 1]
  /\ UNCHANGED << kernel, others >>

(* Another user writes a field of an object as it is.                      *)
OtherUpdate(o, f, w) ==
  /\ w \notin others
  /\ kernel[o] # << >> /\ Now(o).live
  /\ kernel' = [kernel EXCEPT ![o] = Append(@, [Now(o) EXCEPT !.version = @ + 1, !.val[f] = w])]
  /\ others' = others \cup {w}
  /\ UNCHANGED << store, tasks, idMap, gens, fetches, links, seen >>

(***************************************************************************)
(* The read model shows the object at some version, and each field at      *)
(* some version of its own, never one older than it has shown before.      *)
(***************************************************************************)
RowAt(o, i, j) ==
  [version |-> kernel[o][i].version, live |-> kernel[o][i].live,
   val |-> [f \in Fields |-> kernel[o][j[f]].val[f]]]

ReadRow(o, i, j) ==
  /\ o \in Servers /\ kernel[o] # << >>
  /\ i \in seen[o].row .. Len(kernel[o])
  /\ \A f \in Fields : j[f] \in seen[o].f[f] .. Len(kernel[o])
  /\ seen' = [seen EXCEPT ![o] = [row |-> i, f |-> j]]

Steps == 1 .. MaxWrites + Cardinality(OtherValues) + 1

-----------------------------------------------------------------------------
(* The tasks.                                                              *)

(* Mutant of Ready: a task waits for later ones of its keys too.           *)
ReadyAfterAll(t) ==
  /\ tasks[t].pc = "queued"
  /\ \A s \in Tasks \ {t} : tasks[s].keys \cap tasks[t].keys # {} => tasks[s].pc = "done"

(***************************************************************************)
(* enqueue: a task runs after the latest earlier task of each of its keys, *)
(* hence after all of them.                                                *)
(***************************************************************************)
Ready(t) ==
  /\ tasks[t].pc = "queued"
  /\ \A s \in 1 .. t - 1 : tasks[s].keys \cap tasks[t].keys # {} => tasks[s].pc = "done"

Done(t, outcome) == [tasks EXCEPT ![t].pc = "done", ![t].outcome = outcome]

(* The ids a command names.                                                *)
SentIds(t) ==
  CASE tasks[t].op \in {"update", "delete"} -> {Resolve(tasks[t].id)}
    [] tasks[t].op = "relate" -> {Resolve(tasks[t].src), Resolve(tasks[t].tgt)}
    [] OTHER -> {}

(* The command reaches the kernel and is carried out.                      *)
Carried(t, x) ==
  LET d == tasks[t] IN
  CASE d.op = "update" -> x = Resolve(d.id) /\ KernelUpdate(x, d.f, d.v, d.expected)
    [] d.op = "create" -> KernelCreate(x, d.v)
    [] d.op = "delete" -> x = Resolve(d.id) /\ KernelArchive(x, d.expected)
    [] d.op = "relate" -> KernelRelate(x, Resolve(d.src), Resolve(d.tgt))
    [] d.op = "unlink" -> x = d.rel /\ KernelUnlink(x, d.expected)

Accept(t) ==
  /\ Ready(t)
  /\ \E x \in Servers \cup Links :
       /\ Carried(t, x)
       /\ tasks' = [tasks EXCEPT ![t].pc = "accepted", ![t].target = x, ![t].sent = SentIds(t),
                      ![t].at = IF x \in Servers THEN Len(kernel'[x]) ELSE 0]
  /\ UNCHANGED << store, idMap, gens, fetches, seen >>

(* What the catch block of each operation takes back.                      *)
Undo(t) ==
  LET d == tasks[t] IN
  CASE d.op = "update" -> RollbackField(Resolve(d.id), d.prev, d.id)
    [] d.op = "create" -> DeleteObject(d.id)
    [] d.op = "delete" -> RestoreObject(Resolve(d.id), d.prev, d.id)
    [] d.op = "relate" -> RemoveRelation(d.rel)
    [] d.op = "unlink" -> ReconcileRelation(d.rel, d.prev)

(* A conflict, a rule, a permission, an unknown id, or no connection.      *)
Refuse(t) ==
  /\ Ready(t)
  /\ Undo(t)
  /\ tasks' = [Done(t, "failed") EXCEPT ![t].sent = SentIds(t)]
  /\ UNCHANGED << idMap, gens, fetches, server, seen >>

(* The kernel has done it and the answer is lost.                          *)
LoseAnswer(t) ==
  /\ tasks[t].pc = "accepted"
  /\ Undo(t)
  /\ tasks' = Done(t, "failed")
  /\ UNCHANGED << idMap, gens, fetches, server, seen >>

(* Mutant of Claims: any newer version will do.                            *)
ClaimsNewer(t, row) ==
  tasks[t].op = "update" => row.version > tasks[t].expected

(* claimUpdatedObject, claimObject: the row that shows the write.          *)
Claims(t, row) ==
  tasks[t].op = "update" =>
    row.version > tasks[t].expected /\ row.val[tasks[t].f] = tasks[t].v

Claim(t) ==
  /\ tasks[t].pc = "accepted" /\ tasks[t].op \in {"update", "create"}
  /\ LET o == tasks[t].target IN
     \E i \in Steps, j \in [Fields -> Steps] :
       /\ ReadRow(o, i, j)
       /\ Claims(t, RowAt(o, i, j))
       /\ tasks' = [tasks EXCEPT ![t].pc = "claimed", ![t].row = RowAt(o, i, j)]
  /\ UNCHANGED << store, idMap, gens, fetches, server >>

(* Five reads have not shown it: CommittedPendingProjectionError.          *)
GiveUpClaim(t) ==
  /\ tasks[t].pc = "accepted" /\ tasks[t].op \in {"update", "create", "relate"}
  /\ tasks' = Done(t, "pending")
  /\ UNCHANGED << store, idMap, gens, fetches, server, seen >>

-----------------------------------------------------------------------------
(* Refreshes of the objects a write may have changed the derived fields of *)

Around(S) ==
  LET joining == {r \in RelIds : /\ Present(r) /\ relations[r].active
                                 /\ {relations[r].src, relations[r].tgt} \cap S # {}}
  IN {IF relations[r].src \in S THEN relations[r].tgt ELSE relations[r].src : r \in joining}

Refreshable(S) == {o \in S : Shown(o) /\ objects[o].live}

(* derivedRefreshObjectIds: up to DERIVED_REFRESH_DEPTH relations away.    *)
Related(o) ==
  LET near == Refreshable(Around({o}) \ {o})
  IN near \cup Refreshable(Around(near) \ (near \cup {o}))

(* Each refresh takes a new generation of its object.                      *)
StartFetches(t, ids) ==
  /\ gens' = [o \in Servers |-> IF o \in ids THEN gens[o] + 1 ELSE gens[o]]
  /\ fetches' = fetches \cup
       {[task |-> t, obj |-> o, gen |-> IF o \in Servers THEN gens[o] + 1 ELSE 0,
         row |-> None] : o \in ids}

(* What a write refreshes first.                                           *)
Endpoints(t) ==
  LET d == tasks[t] IN
  CASE d.op = "relate" -> {d.src, d.tgt}
    [] d.op = "unlink" -> {d.prev.src, d.prev.tgt}
    [] d.op = "delete" ->
         LET cut == {r \in RelIds : d.prev.rels[r] # None}
         IN UNION {{d.prev.rels[r].src, d.prev.rels[r].tgt} : r \in cut} \ {Resolve(d.id)}

(* A field: the row that was claimed is shown, then the objects around.    *)
FieldWritten(t) ==
  /\ tasks[t].pc = "claimed" /\ tasks[t].op = "update"
  /\ ReconcileObject(tasks[t].target, tasks[t].row)
  /\ tasks' = [tasks EXCEPT ![t].pc = "related"]
  /\ StartFetches(t, Related(tasks[t].target))
  /\ UNCHANGED << idMap, server, seen >>

(* An object: its id is known from now on.                                 *)
ObjectCreated(t) ==
  /\ tasks[t].pc = "claimed" /\ tasks[t].op = "create"
  /\ idMap' = [idMap EXCEPT ![tasks[t].id] = tasks[t].target]
  /\ ReconcileObjectId(tasks[t].id, tasks[t].target, tasks[t].row)
  /\ tasks' = Done(t, "synced")
  /\ UNCHANGED << gens, fetches, server, seen >>

RelationWritten(t) ==
  LET d == tasks[t] IN
  /\ d.pc = "accepted" /\ d.op \in {"relate", "unlink", "delete"}
  /\ CASE d.op = "relate" ->
            ReconcileRelationId(d.rel, d.target,
              [src |-> Resolve(d.src), tgt |-> Resolve(d.tgt), active |-> TRUE, version |-> 1])
       [] d.op = "unlink" ->
            ReconcileRelation(d.rel, [d.prev EXCEPT !.active = FALSE, !.version = d.expected + 1])
       [] d.op = "delete" -> UNCHANGED store
  /\ tasks' = [tasks EXCEPT ![t].pc = "endpoints"]
  /\ StartFetches(t, {Resolve(o) : o \in Endpoints(t)})
  /\ UNCHANGED << idMap, server, seen >>

FetchRow(x) ==
  /\ x.row = None
  /\ \E i \in Steps, j \in [Fields -> Steps] :
       /\ ReadRow(x.obj, i, j)
       /\ fetches' = (fetches \ {x}) \cup {[x EXCEPT !.row = RowAt(x.obj, i, j)]}
  /\ UNCHANGED << store, tasks, idMap, gens, server >>

(* Only the latest refresh of an object is shown.                          *)
ShowRow(x) ==
  /\ x.row # None
  /\ IF gens[x.obj] = x.gen THEN ReconcileObject(x.obj, x.row) ELSE UNCHANGED store
  /\ fetches' = fetches \ {x}
  /\ UNCHANGED << tasks, idMap, gens, server, seen >>

(***************************************************************************)
(* A read fails.  The endpoints are awaited together: the first failure    *)
(* ends the wait, the other reads go on for nobody (task 0).               *)
(***************************************************************************)
FetchFails(x) ==
  /\ x.row = None
  /\ LET rest == fetches \ {x} IN
     IF x.task = 0
     THEN fetches' = rest /\ UNCHANGED tasks
     ELSE /\ tasks' = [tasks EXCEPT ![x.task].stale = TRUE]
          /\ fetches' = IF tasks[x.task].pc = "endpoints"
                        THEN {IF y.task = x.task THEN [y EXCEPT !.task = 0] ELSE y : y \in rest}
                        ELSE rest
  /\ UNCHANGED << store, idMap, gens, server, seen >>

Awaited(t) == \E x \in fetches : x.task = t

RefreshRelated(t) ==
  /\ tasks[t].pc = "endpoints" /\ ~Awaited(t)
  /\ tasks' = [tasks EXCEPT ![t].pc = "related"]
  /\ StartFetches(t, UNION {Related(o) : o \in Endpoints(t)})
  /\ UNCHANGED << store, idMap, server, seen >>

Finish(t) ==
  /\ tasks[t].pc = "related" /\ ~Awaited(t)
  /\ tasks' = Done(t, IF tasks[t].stale THEN "pending" ELSE "synced")
  /\ UNCHANGED << store, idMap, gens, fetches, server, seen >>

-----------------------------------------------------------------------------
User ==
  \/ \E o \in Ids, f \in Fields, v \in {0, Len(tasks) + 1} : EditField(o, f, v)
  \/ \E n \in Temps : AddObject(n)
  \/ \E o \in Ids : RemoveObject(o)
  \/ \E m \in TempLinks, a, b \in Ids : Relate(m, a, b)
  \/ \E r \in RelIds : Unrelate(r)

Run(t) ==
  \/ Accept(t) \/ Refuse(t) \/ LoseAnswer(t) \/ Claim(t) \/ GiveUpClaim(t)
  \/ FieldWritten(t) \/ ObjectCreated(t) \/ RelationWritten(t)
  \/ RefreshRelated(t) \/ Finish(t)

Refresh == \E x \in fetches : FetchRow(x) \/ ShowRow(x) \/ FetchFails(x)

Next ==
  \/ User
  \/ \E o \in Loaded, f \in Fields, w \in OtherValues : OtherUpdate(o, f, w)
  \/ \E t \in Tasks : Run(t)
  \/ Refresh

Spec == Init /\ [][Next]_vars

(***************************************************************************)
(* Every request is answered or fails in the end, and the event loop of    *)
(* the browser runs what is ready.                                         *)
(***************************************************************************)
FairSpec ==
  /\ Spec
  /\ \A t \in 1 .. MaxWrites : WF_vars(t \in Tasks /\ Run(t))
  /\ WF_vars(Refresh)

-----------------------------------------------------------------------------
(* Properties.                                                             *)

Snapshots == [obj : DataObject, rels : [RelIds -> DataRelation \cup {None}]]

Task ==
  [op : Ops, id : Ids \cup {None}, rel : RelIds \cup {None}, f : Fields \cup {None}, v : Values,
   src : Ids \cup {None}, tgt : Ids \cup {None}, expected : Nat,
   prev : DataObject \cup DataRelation \cup Snapshots \cup {None},
   keys : SUBSET (Ids \cup RelIds), sent : SUBSET Ids, target : Servers \cup Links \cup {None},
   at : Nat, row : DataObject \cup {None}, pc : Pcs, stale : BOOLEAN, outcome : Outcomes]

(* The read model has shown a row at some version, each field at another.  *)
Reading == [row : Nat \ {0}, f : [Fields -> Nat \ {0}]]

(* Each variable holds values of its type.                                 *)
TypeOK ==
  /\ StoreTypeOK
  /\ tasks \in Seq(Task)
  /\ idMap \in [Temps -> Servers \cup {None}]
  /\ gens \in [Servers -> Nat]
  /\ \A x \in fetches : /\ x.task \in Tasks \cup {0} /\ x.obj \in Ids /\ x.gen \in Nat
                         /\ x.row \in DataObject \cup {None}
  /\ kernel \in [Servers -> Seq(DataObject)]
  /\ links \in [Links -> DataRelation \cup {None}]
  /\ seen \in [Servers -> Reading]
  /\ others \subseteq OtherValues

Idle == fetches = {} /\ \A t \in Tasks : tasks[t].pc = "done"

(* The task that creates the object shown under the temporary id n.        *)
Creates(t, n) == tasks[t].op = "create" /\ tasks[t].id = n

(***************************************************************************)
(* A command never names a temporary id of an object the kernel has: what  *)
(* is queued on a new object waits for its creation and is sent with the   *)
(* id found then (enqueue, resolveObjectId, objectIdMap).                  *)
(***************************************************************************)
NewIdsAreSent ==
  \A t, c \in Tasks : \A n \in tasks[t].sent \cap Temps :
    Creates(c, n) => tasks[c].pc = "done" /\ tasks[c].outcome # "synced"

(***************************************************************************)
(* Once all is done, nothing on the screen refers to the temporary id of   *)
(* an object that was created: not the object, not a relation's end        *)
(* (reconcileObjectId).  A refused deletion or unlinking is the exception: *)
(* it puts back what it kept, with the ids of then (restoreObject,         *)
(* reconcileRelation).                                                     *)
(***************************************************************************)
NoTempIsLeft ==
  Idle /\ (\A t \in Tasks : tasks[t].op \in {"delete", "unlink"} => tasks[t].outcome # "failed") =>
    \A c \in Tasks, n \in Temps :
      Creates(c, n) /\ tasks[c].outcome = "synced" =>
        ~Shown(n) /\ \A r \in RelIds : ~Touches(r, n)

(* The writes of a loaded object, and of its field f.                      *)
WritesOf(o) == {t \in Tasks : tasks[t].id = o}
WritesOfField(o, f) == {t \in WritesOf(o) : tasks[t].op = "update" /\ tasks[t].f = f}

(* A new value, or the last write of the object.                           *)
Lasting(t) ==
  tasks[t].v # 0 \/ \A s \in WritesOf(tasks[t].id) : s <= t

Alone(o) ==
  \A t \in Tasks : tasks[t].op = "relate" => o \notin {tasks[t].src, tasks[t].tgt}

(***************************************************************************)
(* Once all is done and every write of an object that was loaded, and that *)
(* no relation reaches, was reported as synced, each of its fields shows   *)
(* what the user wrote last or what another user wrote over it, and the    *)
(* version shown is one the kernel has reached (claimUpdatedObject,        *)
(* reconcileObject, the queue of the object).  The exception is a write of *)
(* the value the field had at the start, followed by a write of the same   *)
(* object: the row that confirms it may hold that value of old, and a row  *)
(* read later a value from between.                                        *)
(***************************************************************************)
SyncedIsShown ==
  Idle =>
    \A o \in Loaded :
      /\ Shown(o) /\ Alone(o)
      /\ \A t \in WritesOf(o) : tasks[t].outcome = "synced"
      => /\ objects[o].version <= Now(o).version
         /\ \A f \in Fields : \A t \in {w \in WritesOfField(o, f) : Lasting(w)} :
              \E i \in tasks[t].at .. Len(kernel[o]) : objects[o].val[f] = kernel[o][i].val[f]

(***************************************************************************)
(* A deletion the kernel has accepted stays on the screen: no answer that  *)
(* was on its way, no refresh and no rollback of an earlier edit brings    *)
(* the object back (reconcileObject, rollbackField, reconcileObjectId).    *)
(***************************************************************************)
DeletedStaysGone ==
  \A t \in Tasks :
    tasks[t].op = "delete" /\ tasks[t].outcome \in {"synced", "pending"} =>
      ~Shown(tasks[t].target)

(***************************************************************************)
(* No write waits for ever: tasks that queue under the keys of several     *)
(* objects (createRelation) do not wait for each other, and a request that *)
(* fails releases its successors.                                          *)
(***************************************************************************)
EveryWriteEnds ==
  \A t \in 1 .. MaxWrites : t \in Tasks ~> t \in Tasks /\ tasks[t].pc = "done"

=============================================================================
