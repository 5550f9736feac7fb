------------------------- MODULE WriteBridgeProofs -------------------------
(***************************************************************************)
(* What the write bridge sends and shows, for any number of objects,       *)
(* fields, values, sessions and tasks.                                     *)
(*                                                                         *)
(* The argument: a task that names a temporary id queues under it, behind  *)
(* the task that creates the object, until the kernel's id is known; from  *)
(* then on nothing shows the temporary id.  An object comes back to the    *)
(* screen only where a task that has not failed names it.  The writes of a *)
(* loaded object run one after the other, and each reads the object at     *)
(* least as far as the one before it.                                      *)
(***************************************************************************)
EXTENDS WriteBridge, WellFoundedInduction, TLAPS

(* The kernel has carried a task out, and the browser has not given it up. *)
Taken(t) == tasks[t].pc # "queued" /\ tasks[t].outcome # "failed"

Writes == {"update", "create", "delete"}

(* What a task of each kind says.                                          *)
Shape(t) ==
  LET d == tasks[t] IN
  /\ d.op \in Writes => d.id \in Ids /\ d.src = None /\ d.tgt = None
  /\ d.op = "update" => d.f \in Fields /\ d.v \in {0, t} /\ d.prev \in DataObject
  /\ d.op = "create" => d.id \in Temps /\ d.v = t
  /\ d.op = "delete" => d.prev \in Snapshots
  /\ d.op \in {"relate", "unlink"} => d.id = None /\ d.rel \in RelIds
  /\ d.op = "relate" => d.src \in Ids /\ d.tgt \in Ids
  /\ d.op = "unlink" => d.prev \in DataRelation /\ d.src = None /\ d.tgt = None
  /\ t \in Values \ OtherValues

(* How far a task of each kind may be.                                     *)
Progress(t) ==
  LET d == tasks[t] IN
  /\ d.pc = "done" <=> d.outcome # "none"
  /\ d.pc = "claimed" => d.op \in {"update", "create"}
  /\ d.pc = "endpoints" => d.op \in {"relate", "unlink", "delete"}
  /\ d.pc = "related" => d.op # "create"
  /\ d.op \in Writes => d.target \in Servers \cup {None}
  /\ d.op \notin Writes => d.target \in Links \cup {None}
  /\ Taken(t) => d.target # None
  /\ d.pc = "queued" => d.target = None /\ d.sent = {}
  /\ d.pc \in {"queued", "accepted"} => d.row = None
  /\ d.target # None /\ d.op = "unlink" => d.target = d.rel
  /\ \/ d.pc = "claimed"
     \/ d.op = "update" /\ (d.pc = "related" \/ d.outcome = "synced")
     => d.row # None
  /\ d.row # None => d.target # None

(* A row that was read is one of the kernel's.                             *)
FetchesOK == \A x \in fetches : x.row # None => x.obj \in Servers

TypeInv ==
  /\ TypeOK
  /\ \A t \in Tasks : Shape(t) /\ Progress(t)
  /\ FetchesOK

-----------------------------------------------------------------------------
(* The objects a task names.                                               *)
Names(t) == {tasks[t].id, tasks[t].src, tasks[t].tgt} \cap Ids

(* A temporary id is named behind the one task that creates the object,    *)
(* under its key until the kernel's id is known.                           *)
TempsAreCreated ==
  /\ \A t \in Tasks : \A n \in Names(t) \cap Temps :
       /\ \E c \in 1 .. t : Creates(c, n)
       /\ n \in tasks[t].keys \/ idMap[n] # None
  /\ \A t \in Tasks : tasks[t].sent \cap Temps \subseteq Names(t)
  /\ \A n \in Temps : Shown(n) \/ idMap[n] # None => \E c \in Tasks : Creates(c, n)
  /\ \A n \in Temps, c, d \in Tasks : Creates(c, n) /\ Creates(d, n) => c = d

(* A temporary id is known as soon as its task is synced, and then gone.   *)
IdsAreKnown ==
  /\ \A n \in Temps, c \in Tasks : Creates(c, n) =>
       idMap[n] = IF tasks[c].outcome = "synced" THEN tasks[c].target ELSE None
  /\ \A n \in Temps : idMap[n] # None => ~Shown(n)

(* The tasks of a key run one after the other.                             *)
OneAtATime ==
  \A t \in Tasks : \A s \in 1 .. t - 1 :
    tasks[t].pc # "queued" /\ tasks[s].keys \cap tasks[t].keys # {} => tasks[s].pc = "done"

IdInv == TempsAreCreated /\ IdsAreKnown /\ OneAtATime /\ NewIdsAreSent

-----------------------------------------------------------------------------
Ends(q) == {q.src, q.tgt}

(* A relation the kernel has relates objects it has.                       *)
LinksAreKnown ==
  /\ \A r \in Links : Present(r) => Ends(relations[r]) \subseteq Servers
  /\ \A t \in Tasks : tasks[t].rel \in Links /\ tasks[t].op = "unlink" =>
       Ends(tasks[t].prev) \subseteq Servers
  /\ \A t \in Tasks : tasks[t].op = "delete" =>
       \A r \in Links : tasks[t].prev.rels[r] # None =>
         Ends(tasks[t].prev.rels[r]) \subseteq Servers
  /\ \A t \in Tasks : tasks[t].op = "relate" /\ Taken(t) =>
       {Resolve(tasks[t].src), Resolve(tasks[t].tgt)} \subseteq Servers

NothingIsPutBack ==
  \A t \in Tasks : tasks[t].op \in {"delete", "unlink"} => tasks[t].outcome # "failed"

(* No relation leads to a temporary id that is known.                      *)
TempsAreReplaced ==
  NothingIsPutBack =>
    \A n \in Temps : idMap[n] # None => \A r \in RelIds : ~Touches(r, n)

LinkInv == LinksAreKnown /\ TempsAreReplaced

-----------------------------------------------------------------------------
(* The objects of the kernel a browser knows.                              *)
Known(o) == o \in Loaded \/ \E n \in Temps : idMap[n] = o

KnownIsNamed ==
  /\ \A o \in Servers : Shown(o) => Known(o)
  /\ \A t \in Tasks : tasks[t].id \in Servers => Known(tasks[t].id)

(* The kernel gives each object an id of its own.                          *)
IdsAreNew ==
  /\ \A o \in Loaded : kernel[o] # << >>
  /\ \A t \in Tasks : tasks[t].op = "create" /\ tasks[t].target # None =>
       /\ tasks[t].target \notin Loaded
       /\ kernel[tasks[t].target] # << >>
  /\ \A s, t \in Tasks :
       tasks[s].op = "create" /\ tasks[t].op = "create" /\ tasks[s].target = tasks[t].target
         => s = t \/ tasks[t].target = None

(* A deletion that has not failed.                                         *)
Deletes(t) == tasks[t].op = "delete" /\ tasks[t].outcome # "failed"

DeletedIsHidden ==
  \A t \in Tasks : Deletes(t) =>
    /\ ~Shown(Resolve(tasks[t].id))
    /\ Taken(t) => tasks[t].target = Resolve(tasks[t].id)
    /\ \A s \in Tasks : Deletes(s) /\ Resolve(tasks[s].id) = Resolve(tasks[t].id) => s = t

DeleteInv == KnownIsNamed /\ IdsAreNew /\ DeletedIsHidden

-----------------------------------------------------------------------------
(* A loaded object no relation was drawn to: none shows or remembers it as *)
(* an end, and nothing refreshes it.                                       *)
AloneIsApart ==
  \A o \in Loaded : Alone(o) =>
    /\ \A r \in RelIds : ~Touches(r, o)
    /\ \A t \in Tasks : tasks[t].op = "unlink" => o \notin Ends(tasks[t].prev)
    /\ \A t \in Tasks : tasks[t].op = "delete" =>
         \A r \in RelIds : tasks[t].prev.rels[r] # None => o \notin Ends(tasks[t].prev.rels[r])
    /\ \A x \in fetches : x.obj # o

(* An object whose writes have all gone well so far.                       *)
Smooth(o) ==
  Alone(o) /\ \A t \in WritesOf(o) : tasks[t].outcome \notin {"failed", "pending"}

Updates(o) == {t \in WritesOf(o) : tasks[t].op = "update"}

(* The version the read model has shown, and every field it has shown.     *)
SeenVersion(o) == kernel[o][seen[o].row].version

(* The kernel's versions of an object, and what the read model has shown.  *)
KernelInv ==
  /\ \A o \in Servers : \A i, j \in 1 .. Len(kernel[o]) :
       i <= j => kernel[o][i].version <= kernel[o][j].version
  /\ \A o \in Loaded : /\ seen[o].row <= Len(kernel[o])
                       /\ \A f \in Fields : seen[o].f[f] <= Len(kernel[o])
  /\ \A o \in Servers : \A i \in 1 .. Len(kernel[o]), f \in Fields :
       kernel[o][i].val[f] \in {0} \cup OtherValues \cup Tasks

(* An update is carried out on the object it names.                        *)
TargetsAreNamed ==
  \A t \in Tasks : tasks[t].op = "update" /\ tasks[t].target # None =>
    tasks[t].target = Resolve(tasks[t].id)

(* Where a write is in the kernel: a new value is found there, not before. *)
WritesAreThere ==
  \A o \in Loaded : \A t \in Updates(o) :
    LET d == tasks[t] IN
    /\ o \in d.keys
    /\ d.target # None =>
         d.target = o /\ d.at \in 1 .. Len(kernel[o]) /\ kernel[o][d.at].val[d.f] = d.v
    /\ d.v # 0 => \A i \in 1 .. Len(kernel[o]) :
         kernel[o][i].val[d.f] = d.v => d.target # None /\ d.at <= i

(* What a row that was claimed shows.                                      *)
RowsShowWrites ==
  \A o \in Loaded : Smooth(o) => \A t \in Updates(o) :
    LET d == tasks[t] IN
    d.row # None =>
      /\ d.row.val[d.f] = d.v
      /\ d.row.version > d.expected
      /\ d.row.version <= SeenVersion(o)
      /\ d.pc = "claimed" => d.row.version = SeenVersion(o)
      /\ d.v # 0 => d.at <= seen[o].f[d.f]
      /\ \A s \in Updates(o) : s < t /\ tasks[s].v # 0 =>
           \E i \in tasks[s].at .. Len(kernel[o]) :
             d.row.val[tasks[s].f] = kernel[o][i].val[tasks[s].f]

(* What is shown of an object is no newer than what was read, or than the  *)
(* edit that is still to be confirmed; the last claimed row is shown.      *)
RowsAreShown ==
  \A o \in Loaded : Smooth(o) /\ Shown(o) =>
    /\ \/ objects[o].version <= SeenVersion(o)
       \/ \E t \in Updates(o) : /\ tasks[t].pc \in {"queued", "accepted"}
                                /\ objects[o].version <= tasks[t].expected + 1
    /\ \A t \in Updates(o) :
         /\ tasks[t].pc = "related" \/ tasks[t].outcome = "synced"
         /\ \A s \in WritesOf(o) : s <= t
         => objects[o] = tasks[t].row

ShowInv ==
  AloneIsApart /\ KernelInv /\ TargetsAreNamed /\ WritesAreThere /\ RowsShowWrites /\ RowsAreShown

WInv == TypeInv /\ IdInv /\ LinkInv /\ DeleteInv /\ ShowInv

-----------------------------------------------------------------------------
(* Steps of the tasks.                                                     *)

(* What a task never changes.                                              *)
SameTask(d, e) ==
  /\ e.op = d.op /\ e.id = d.id /\ e.rel = d.rel /\ e.f = d.f /\ e.v = d.v
  /\ e.src = d.src /\ e.tgt = d.tgt /\ e.expected = d.expected /\ e.prev = d.prev
  /\ e.keys = d.keys

OnlyTask(t) ==
  /\ Tasks' = Tasks /\ Len(tasks') = Len(tasks)
  /\ \A s \in Tasks : s # t => tasks'[s] = tasks[s]
  /\ SameTask(tasks[t], tasks'[t])

LEMMA TaskFacts ==
  ASSUME TypeInv, NEW t \in Tasks
  PROVE  /\ tasks[t] \in Task /\ tasks \in Seq(Task)
         /\ t \in Nat \ {0} /\ Tasks = 1 .. Len(tasks) /\ Len(tasks) \in Nat
         /\ Shape(t) /\ Progress(t)
         /\ tasks[t].op \in Ops /\ tasks[t].keys \subseteq Ids \cup RelIds
         /\ tasks[t].sent \subseteq Ids /\ tasks[t].expected \in Nat /\ tasks[t].at \in Nat
         /\ tasks[t].pc \in Pcs /\ tasks[t].outcome \in Outcomes
         /\ tasks[t].target \in Servers \cup Links \cup {None}
         /\ tasks[t].row \in DataObject \cup {None} /\ tasks[t].v \in Values
<1>1. tasks \in Seq(Task) /\ Shape(t) /\ Progress(t)
  BY DEF TypeInv, TypeOK
<1>2. tasks[t] \in Task
  BY <1>1 DEF Tasks
<1>3. Tasks = 1 .. Len(tasks) /\ Len(tasks) \in Nat /\ t \in Nat \ {0}
  BY <1>1 DEF Tasks
<1>4. QED
  BY <1>1, <1>2, <1>3 DEF Task

(* One entry of a sequence of tasks is replaced.                           *)
LEMMA TaskReplaced ==
  ASSUME TypeInv, NEW t \in Tasks, NEW e \in Task, SameTask(tasks[t], e),
         tasks' = [tasks EXCEPT ![t] = e]
  PROVE  OnlyTask(t) /\ tasks'[t] = e /\ tasks' \in Seq(Task)
<1>1. tasks \in Seq(Task)
  BY TaskFacts
<1>2. tasks' \in Seq(Task) /\ Len(tasks') = Len(tasks) /\ DOMAIN tasks' = DOMAIN tasks
  BY <1>1 DEF Tasks
<1>3. tasks'[t] = e /\ \A s \in Tasks : s # t => tasks'[s] = tasks[s]
  BY <1>1 DEF Tasks
<1>4. QED
  BY <1>2, <1>3 DEF OnlyTask, Tasks

(* The ids a command names are ids of objects.                             *)
LEMMA ResolveFacts ==
  ASSUME TypeInv, NEW id \in Ids
  PROVE  /\ Resolve(id) \in Ids
         /\ id \in Servers => Resolve(id) = id
         /\ idMap[id] # None /\ id \in Temps => Resolve(id) \in Servers
         /\ Resolve(id) \in Temps => id \in Temps /\ idMap[id] = None /\ Resolve(id) = id
BY IdsApart DEF TypeInv, TypeOK, Resolve, Ids

LEMMA SentFacts ==
  ASSUME TypeInv, NEW t \in Tasks
  PROVE  SentIds(t) \subseteq Ids
BY TaskFacts, ResolveFacts DEF SentIds, Shape, Writes

(* What a command needs the kernel to have.                                *)
LEMMA CarriedFacts ==
  ASSUME TypeInv, NEW t \in Tasks, NEW x \in Servers \cup Links, Carried(t, x)
  PROVE  /\ tasks[t].op \in Writes => x \in Servers
         /\ tasks[t].op \notin Writes => x \in Links
         /\ tasks[t].op = "unlink" => x = tasks[t].rel
         /\ tasks[t].op \in {"update", "delete"} => x = Resolve(tasks[t].id)
<1>1. tasks[t].op \in Ops
  BY TaskFacts
<1>2. QED
  BY <1>1 DEF Carried, Ops, Writes, KernelUpdate, KernelCreate, KernelArchive, KernelRelate, KernelUnlink

(* The kernel carries a task out.                                          *)
LEMMA AcceptStep ==
  ASSUME TypeInv, NEW t \in Tasks, Accept(t), kernel' \in [Servers -> Seq(DataObject)]
  PROVE  LET d == tasks[t]  e == tasks'[t] IN
         /\ OnlyTask(t) /\ tasks' \in Seq(Task)
         /\ Ready(t) /\ d.pc = "queued" /\ e.pc = "accepted"
         /\ e.target \in Servers \cup Links /\ e.target # None /\ Carried(t, e.target)
         /\ e.sent = SentIds(t) /\ e.row = d.row /\ e.stale = d.stale /\ e.outcome = d.outcome
         /\ e.at = (IF e.target \in Servers THEN Len(kernel'[e.target]) ELSE 0)
<1>1. PICK x \in Servers \cup Links :
        /\ Carried(t, x)
        /\ tasks' = [tasks EXCEPT ![t].pc = "accepted", ![t].target = x, ![t].sent = SentIds(t),
                       ![t].at = IF x \in Servers THEN Len(kernel'[x]) ELSE 0]
  BY DEF Accept
<1> DEFINE n == IF x \in Servers THEN Len(kernel'[x]) ELSE 0
           e == [tasks[t] EXCEPT !.pc = "accepted", !.target = x, !.sent = SentIds(t), !.at = n]
<1>2. n \in Nat
  OBVIOUS
<1>3. e \in Task /\ SameTask(tasks[t], e)
  <2> HIDE DEF n
  <2>1. QED
    BY ZenonT(60), <1>2, TaskFacts, SentFacts DEF Task, Pcs, SameTask
<1>4. tasks' = [tasks EXCEPT ![t] = e]
  BY <1>1, TaskFacts DEF Task
<1>5. e.pc = "accepted" /\ e.target = x /\ e.sent = SentIds(t) /\ e.at = n
      /\ e.row = tasks[t].row /\ e.stale = tasks[t].stale /\ e.outcome = tasks[t].outcome
  <2> HIDE DEF n
  <2>1. QED
    BY TaskFacts DEF Task
<1> HIDE DEF e
<1>6. OnlyTask(t) /\ tasks'[t] = e /\ tasks' \in Seq(Task)
  BY <1>3, <1>4, TaskReplaced
<1>7. Ready(t) /\ tasks[t].pc = "queued" /\ x # None
  BY IdsApart DEF Accept, Ready
<1>8. QED
  BY <1>1, <1>5, <1>6, <1>7

(* What only the kernel's answer and a read change.                        *)
SameAnswer(d, e) == e.sent = d.sent /\ e.target = d.target /\ e.at = d.at /\ e.row = d.row

(* A task that fails takes its edit back.                                  *)
LEMMA FailStep ==
  ASSUME TypeInv, NEW t \in Tasks, Refuse(t) \/ LoseAnswer(t)
  PROVE  LET d == tasks[t]  e == tasks'[t] IN
         /\ OnlyTask(t) /\ tasks' \in Seq(Task) /\ Undo(t)
         /\ d.pc \in {"queued", "accepted"}
         /\ d.pc = "queued" => Ready(t)
         /\ e.pc = "done" /\ e.outcome = "failed"
         /\ e.target = d.target /\ e.at = d.at /\ e.row = d.row
         /\ e.sent = (IF d.pc = "queued" THEN SentIds(t) ELSE d.sent)
<1> DEFINE n == IF Refuse(t) THEN SentIds(t) ELSE tasks[t].sent
           e == [tasks[t] EXCEPT !.pc = "done", !.outcome = "failed", !.sent = n]
<1>1. tasks[t].pc \in {"queued", "accepted"} /\ Undo(t)
      /\ (tasks[t].pc = "queued" => Ready(t)) /\ (Refuse(t) <=> tasks[t].pc = "queued")
  BY DEF Refuse, LoseAnswer, Ready
<1>2. n \in SUBSET Ids
  BY TaskFacts, SentFacts
<1>8. n = IF tasks[t].pc = "queued" THEN SentIds(t) ELSE tasks[t].sent
  BY <1>1
<1>3. tasks' = [tasks EXCEPT ![t] = e]
  BY TaskFacts DEF Refuse, LoseAnswer, Done, Task
<1> HIDE DEF n
<1>4. e \in Task /\ SameTask(tasks[t], e)
  BY ZenonT(60), <1>2, TaskFacts DEF Task, Pcs, Outcomes, SameTask
<1>5. /\ e.pc = "done" /\ e.outcome = "failed" /\ e.sent = n
      /\ e.target = tasks[t].target /\ e.at = tasks[t].at /\ e.row = tasks[t].row
  BY TaskFacts DEF Task
<1> HIDE DEF e
<1>6. OnlyTask(t) /\ tasks'[t] = e /\ tasks' \in Seq(Task)
  BY <1>3, <1>4, TaskReplaced
<1>7. QED
  BY <1>1, <1>8, <1>5, <1>6

(* A row of the read model is an object.                                   *)
LEMMA ReadRowFacts ==
  ASSUME TypeInv, NEW o, NEW i, NEW j \in [Fields -> Steps], ReadRow(o, i, j)
  PROVE  /\ o \in Servers /\ i \in 1 .. Len(kernel[o])
         /\ seen[o].row <= i /\ seen[o] \in Reading
         /\ \A f \in Fields : j[f] \in 1 .. Len(kernel[o]) /\ seen[o].f[f] <= j[f]
         /\ kernel[o] \in Seq(DataObject) /\ Len(kernel[o]) \in Nat
         /\ RowAt(o, i, j) \in DataObject /\ RowAt(o, i, j) # None
         /\ RowAt(o, i, j).version = kernel[o][i].version
         /\ \A f \in Fields : RowAt(o, i, j).val[f] = kernel[o][j[f]].val[f]
         /\ seen'[o].row = i /\ seen'[o].f = j
         /\ \A p \in Servers : p # o => seen'[p] = seen[p]
         /\ seen' \in [Servers -> Reading]
<1>1. o \in Servers /\ kernel[o] \in Seq(DataObject) /\ Len(kernel[o]) \in Nat /\ seen[o] \in Reading
      /\ seen \in [Servers -> Reading]
  BY DEF ReadRow, TypeInv, TypeOK
<1>2. /\ i \in 1 .. Len(kernel[o]) /\ seen[o].row <= i
      /\ \A f \in Fields : j[f] \in 1 .. Len(kernel[o]) /\ seen[o].f[f] <= j[f]
  BY <1>1 DEF ReadRow, Reading
<1>3. kernel[o][i] \in DataObject /\ \A f \in Fields : kernel[o][j[f]] \in DataObject
  BY <1>1, <1>2
<1>4. RowAt(o, i, j) \in DataObject /\ RowAt(o, i, j).version = kernel[o][i].version
      /\ \A f \in Fields : RowAt(o, i, j).val[f] = kernel[o][j[f]].val[f]
  BY <1>3 DEF RowAt, DataObject
<1>5. [row |-> i, f |-> j] \in Reading
  <2>1. j \in [Fields -> Nat \ {0}]
    BY <1>2
  <2>2. QED
    BY <1>2, <2>1 DEF Reading
<1>6. QED
  BY <1>1, <1>2, <1>4, <1>5, NoneIsNoRow DEF ReadRow

(* A row is claimed.                                                       *)
LEMMA ClaimStep ==
  ASSUME TypeInv, NEW t \in Tasks, Claim(t)
  PROVE  LET d == tasks[t]  e == tasks'[t] IN
         /\ OnlyTask(t) /\ tasks' \in Seq(Task)
         /\ d.pc = "accepted" /\ d.op \in {"update", "create"} /\ e.pc = "claimed"
         /\ e.sent = d.sent /\ e.target = d.target /\ e.at = d.at /\ e.outcome = d.outcome
         /\ d.target \in Servers /\ e.row \in DataObject /\ e.row # None
         /\ \E i \in Steps, j \in [Fields -> Steps] :
              /\ ReadRow(d.target, i, j)
              /\ Claims(t, RowAt(d.target, i, j)) /\ e.row = RowAt(d.target, i, j)
<1>1. PICK i \in Steps, j \in [Fields -> Steps] :
        /\ ReadRow(tasks[t].target, i, j)
        /\ Claims(t, RowAt(tasks[t].target, i, j))
        /\ tasks' = [tasks EXCEPT ![t].pc = "claimed", ![t].row = RowAt(tasks[t].target, i, j)]
  BY DEF Claim
<1> DEFINE row == RowAt(tasks[t].target, i, j)
           e == [tasks[t] EXCEPT !.pc = "claimed", !.row = row]
<1>2. row \in DataObject /\ row # None /\ tasks[t].target \in Servers
  BY <1>1, ReadRowFacts
<1> HIDE DEF row
<1>3. tasks' = [tasks EXCEPT ![t] = e]
  BY <1>1, TaskFacts DEF Task, row
<1>4. e \in Task /\ SameTask(tasks[t], e)
  BY ZenonT(60), <1>2, TaskFacts DEF Task, Pcs, SameTask
<1>5. /\ e.pc = "claimed" /\ e.row = row /\ e.sent = tasks[t].sent /\ e.target = tasks[t].target
      /\ e.at = tasks[t].at /\ e.outcome = tasks[t].outcome
  BY TaskFacts DEF Task
<1> HIDE DEF e
<1>6. OnlyTask(t) /\ tasks'[t] = e /\ tasks' \in Seq(Task)
  BY <1>3, <1>4, TaskReplaced
<1>7. tasks[t].pc = "accepted" /\ tasks[t].op \in {"update", "create"}
  BY DEF Claim
<1>8. QED
  BY <1>1, <1>2, <1>5, <1>6, <1>7 DEF row

(* The steps that leave the answer of a task as it is.                     *)
Ending(t)    == GiveUpClaim(t) \/ Finish(t) \/ ObjectCreated(t)
Moving(t)    == FieldWritten(t) \/ RelationWritten(t) \/ RefreshRelated(t)

LEMMA EndStep ==
  ASSUME TypeInv, NEW t \in Tasks, Ending(t)
  PROVE  LET d == tasks[t]  e == tasks'[t] IN
         /\ OnlyTask(t) /\ tasks' \in Seq(Task) /\ SameAnswer(d, e)
         /\ d.pc \in {"accepted", "claimed", "related"}
         /\ e.pc = "done" /\ e.outcome \in {"synced", "pending"}
         /\ GiveUpClaim(t) => e.outcome = "pending"
         /\ ObjectCreated(t) => e.outcome = "synced"
         /\ d.op = "create" /\ e.outcome = "synced" => ObjectCreated(t)
         /\ d.op = "update" /\ e.outcome = "synced" => d.pc = "related"
<1>1. PICK out \in {"synced", "pending"} :
        /\ tasks' = Done(t, out)
        /\ GiveUpClaim(t) => out = "pending"
        /\ ObjectCreated(t) => out = "synced"
        /\ Finish(t) => tasks[t].pc = "related"
        /\ GiveUpClaim(t) => tasks[t].pc = "accepted"
        /\ ObjectCreated(t) => tasks[t].pc = "claimed" /\ tasks[t].op = "create"
  <2>1. CASE GiveUpClaim(t)
    <3>1. ~Finish(t) /\ ~ObjectCreated(t)
      BY <2>1 DEF GiveUpClaim, Finish, ObjectCreated
    <3>2. QED
      BY <2>1, <3>1 DEF GiveUpClaim
  <2>2. CASE ObjectCreated(t)
    <3>1. ~Finish(t) /\ ~GiveUpClaim(t)
      BY <2>2 DEF GiveUpClaim, Finish, ObjectCreated
    <3>2. QED
      BY <2>2, <3>1 DEF ObjectCreated
  <2>3. CASE Finish(t)
    <3>1. ~ObjectCreated(t) /\ ~GiveUpClaim(t)
      BY <2>3 DEF GiveUpClaim, Finish, ObjectCreated
    <3>2. tasks' = Done(t, IF tasks[t].stale THEN "pending" ELSE "synced")
      BY <2>3 DEF Finish
    <3>3. QED
      BY <2>3, <3>1, <3>2 DEF Finish
  <2>4. QED
    BY <2>1, <2>2, <2>3 DEF Ending
<1> DEFINE e == [tasks[t] EXCEPT !.pc = "done", !.outcome = out]
<1>2. tasks' = [tasks EXCEPT ![t] = e]
  BY <1>1, TaskFacts DEF Done, Task
<1>3. e \in Task /\ SameTask(tasks[t], e)
  BY ZenonT(60), TaskFacts DEF Task, Pcs, Outcomes, SameTask
<1>4. e.pc = "done" /\ e.outcome = out /\ SameAnswer(tasks[t], e)
  BY TaskFacts DEF Task, SameAnswer
<1> HIDE DEF e
<1>5. OnlyTask(t) /\ tasks'[t] = e /\ tasks' \in Seq(Task)
  BY <1>2, <1>3, TaskReplaced
<1>6. tasks[t].op = "create" => tasks[t].pc # "related"
  BY TaskFacts DEF Progress
<1>7. QED
  BY <1>1, <1>4, <1>5, <1>6 DEF Ending

LEMMA MoveStep ==
  ASSUME TypeInv, NEW t \in Tasks, Moving(t)
  PROVE  LET d == tasks[t]  e == tasks'[t] IN
         /\ OnlyTask(t) /\ tasks' \in Seq(Task) /\ SameAnswer(d, e)
         /\ d.outcome = e.outcome /\ e.pc \in {"endpoints", "related"}
         /\ FieldWritten(t) =>
              d.pc = "claimed" /\ d.op = "update" /\ e.pc = "related"
         /\ RelationWritten(t) =>
              d.pc = "accepted" /\ d.op \in {"relate", "unlink", "delete"} /\ e.pc = "endpoints"
         /\ RefreshRelated(t) => d.pc = "endpoints" /\ e.pc = "related"
         /\ d.pc \in {"accepted", "claimed", "endpoints"}
<1>1. PICK pc \in {"endpoints", "related"} :
        /\ tasks' = [tasks EXCEPT ![t].pc = pc]
        /\ FieldWritten(t) => tasks[t].pc = "claimed" /\ tasks[t].op = "update" /\ pc = "related"
        /\ RelationWritten(t) =>
             /\ tasks[t].pc = "accepted" /\ tasks[t].op \in {"relate", "unlink", "delete"}
             /\ pc = "endpoints"
        /\ RefreshRelated(t) => tasks[t].pc = "endpoints" /\ pc = "related"
  <2>1. CASE FieldWritten(t)
    BY <2>1 DEF FieldWritten, RelationWritten, RefreshRelated
  <2>2. CASE RelationWritten(t)
    BY <2>2 DEF FieldWritten, RelationWritten, RefreshRelated
  <2>3. CASE RefreshRelated(t)
    BY <2>3 DEF FieldWritten, RelationWritten, RefreshRelated
  <2>4. QED
    BY <2>1, <2>2, <2>3 DEF Moving
<1> DEFINE e == [tasks[t] EXCEPT !.pc = pc]
<1>2. tasks' = [tasks EXCEPT ![t] = e]
  BY <1>1, TaskFacts DEF Task
<1>3. e \in Task /\ SameTask(tasks[t], e)
  BY ZenonT(60), TaskFacts DEF Task, Pcs, SameTask
<1>4. e.pc = pc /\ e.outcome = tasks[t].outcome /\ SameAnswer(tasks[t], e)
  BY TaskFacts DEF Task, SameAnswer
<1> HIDE DEF e
<1>5. OnlyTask(t) /\ tasks'[t] = e /\ tasks' \in Seq(Task)
  BY <1>2, <1>3, TaskReplaced
<1>6. QED
  BY <1>1, <1>4, <1>5 DEF Moving

(* A read fails: the task that waits for it has seen a failure.            *)
LEMMA StaleStep ==
  ASSUME TypeInv, NEW t \in Tasks, tasks' = [tasks EXCEPT ![t].stale = TRUE]
  PROVE  LET d == tasks[t]  e == tasks'[t] IN
         /\ OnlyTask(t) /\ tasks' \in Seq(Task) /\ SameAnswer(d, e)
         /\ e.pc = d.pc /\ e.outcome = d.outcome
<1> DEFINE e == [tasks[t] EXCEPT !.stale = TRUE]
<1>1. tasks' = [tasks EXCEPT ![t] = e]
  BY TaskFacts DEF Task
<1>2. e \in Task /\ SameTask(tasks[t], e)
  BY ZenonT(60), TaskFacts DEF Task, SameTask
<1>3. e.pc = tasks[t].pc /\ e.outcome = tasks[t].outcome /\ SameAnswer(tasks[t], e)
  BY TaskFacts DEF Task, SameAnswer
<1> HIDE DEF e
<1>4. OnlyTask(t) /\ tasks'[t] = e /\ tasks' \in Seq(Task)
  BY <1>1, <1>2, TaskReplaced
<1>5. QED
  BY <1>3, <1>4

LEMMA FetchFailsTasks ==
  ASSUME TypeInv, NEW x \in fetches, FetchFails(x)
  PROVE  \/ UNCHANGED tasks
         \/ x.task \in Tasks /\ tasks' = [tasks EXCEPT ![x.task].stale = TRUE]
BY DEF FetchFails, TypeInv, TypeOK

-----------------------------------------------------------------------------
(* A new task.                                                             *)

New == Len(tasks) + 1

LEMMA EnqueueStep ==
  ASSUME TypeInv, NEW d, NEW ids \in SUBSET (Ids \cup RelIds), Enqueue(d, ids)
  PROVE  /\ Tasks' = Tasks \cup {New} /\ New \notin Tasks /\ Len(tasks') = New
         /\ New \in Nat \ {0} /\ New \in Values \ OtherValues
         /\ \A t \in Tasks : t < New /\ tasks'[t] = tasks[t]
         /\ tasks'[New] = [d EXCEPT !.keys = {Resolve(id) : id \in ids}]
         /\ {Resolve(id) : id \in ids} \subseteq Ids \cup RelIds
         /\ tasks' = Append(tasks, [d EXCEPT !.keys = {Resolve(id) : id \in ids}])
         /\ tasks'[New] \in Task => tasks' \in Seq(Task)
         /\ UNCHANGED << idMap, gens, fetches, server, seen >>
<1>1. tasks \in Seq(Task) /\ Tasks = 1 .. Len(tasks) /\ Len(tasks) \in Nat
  BY DEF TypeInv, TypeOK, Tasks
<1>2. /\ UNCHANGED << idMap, gens, fetches, server, seen >>
      /\ tasks' = Append(tasks, [d EXCEPT !.keys = {Resolve(id) : id \in ids}])
  BY DEF Enqueue
<1> DEFINE e == [d EXCEPT !.keys = {Resolve(id) : id \in ids}]
<1>3. /\ tasks' = Append(tasks, e) /\ Len(tasks') = New /\ DOMAIN tasks' = 1 .. New
      /\ tasks'[New] = e /\ \A t \in Tasks : tasks'[t] = tasks[t]
      /\ e \in Task => tasks' \in Seq(Task)
  <2> HIDE DEF e
  <2>1. tasks' = Append(tasks, e)
    BY <1>2 DEF e
  <2>2. QED
    BY <2>1, <1>1 DEF New
<1>4. New \in Values \ OtherValues
  <2>1. PICK s \in Sessions : Len(tasks) < Len(s) /\ s[Len(tasks) + 1] = d.op
    BY DEF Enqueue
  <2>2. New \in 1 .. Len(s)
    BY <2>1, <1>1 DEF New
  <2>3. QED
    BY <2>2, BridgeAssumption
<1>5. \A id \in Ids \cup RelIds : Resolve(id) \in Ids \cup RelIds
  BY DEF Resolve, Ids, TypeInv, TypeOK
<1>6. {Resolve(id) : id \in ids} \subseteq Ids \cup RelIds
  BY <1>5
<1>7. Tasks' = Tasks \cup {New} /\ New \notin Tasks /\ New \in Nat \ {0}
      /\ \A t \in Tasks : t < New
  BY <1>1, <1>3 DEF Tasks, New
<1>8. QED
  BY <1>2, <1>3, <1>4, <1>6, <1>7

(* A task that was queued just now.                                        *)
Fresh(e) ==
  /\ e.pc = "queued" /\ e.outcome = "none" /\ e.stale = FALSE
  /\ e.sent = {} /\ e.target = None /\ e.at = 0 /\ e.row = None

LEMMA EditStep ==
  ASSUME TypeInv, NEW o \in Ids, NEW f \in Fields, NEW v \in {0, New}, EditField(o, f, v)
  PROVE  LET e == tasks'[New] IN
         /\ e \in Task /\ Fresh(e) /\ e.op = "update" /\ e.id = o /\ e.f = f /\ e.v = v
         /\ e.expected = objects[o].version /\ e.prev = objects[o] /\ e.keys = {Resolve(o)}
         /\ e.rel = None /\ e.src = None /\ e.tgt = None
         /\ Shown(o) /\ objects[o] \in DataObject
<1> DEFINE d == [Blank EXCEPT !.op = "update", !.id = o, !.f = f, !.v = v,
                              !.expected = objects[o].version, !.prev = objects[o]]
<1>1. Enqueue(d, {o}) /\ Shown(o) /\ {Resolve(id) : id \in {o}} = {Resolve(o)}
  BY DEF EditField, UpdateField
<1>2. {o} \in SUBSET (Ids \cup RelIds)
  OBVIOUS
<1>3. objects[o] \in DataObject /\ objects[o].version \in Nat
  BY <1>1 DEF TypeInv, TypeOK, StoreTypeOK, Shown, DataObject
<1> DEFINE e == [d EXCEPT !.keys = {Resolve(o)}]
<1>4. /\ e.op = "update" /\ e.id = o /\ e.f = f /\ e.v = v
      /\ e.expected = objects[o].version /\ e.prev = objects[o] /\ e.keys = {Resolve(o)}
      /\ e.rel = None /\ e.src = None /\ e.tgt = None /\ Fresh(e)
  BY DEF Blank, Fresh
<1>5. tasks'[New] = e /\ v \in Values /\ Resolve(o) \in Ids
  <2> HIDE DEF d
  <2>1. QED
    BY <1>1, <1>2, EnqueueStep, IdsApart, ResolveFacts
<1>6. e \in Task
  BY <1>3, <1>5 DEF Task, Blank, Ops, Pcs, Outcomes
<1> HIDE DEF e
<1>7. QED
  BY <1>1, <1>3, <1>4, <1>5, <1>6

LEMMA AddStep ==
  ASSUME TypeInv, NEW n \in Temps, AddObject(n)
  PROVE  LET e == tasks'[New] IN
         /\ e \in Task /\ Fresh(e) /\ e.op = "create" /\ e.id = n /\ e.v = New
         /\ e.keys = {Resolve(n)} /\ e.rel = None /\ e.src = None /\ e.tgt = None
<1> DEFINE d == [Blank EXCEPT !.op = "create", !.id = n, !.v = New]
<1>1. Enqueue(d, {n}) /\ {Resolve(id) : id \in {n}} = {Resolve(n)}
  BY DEF AddObject, New
<1>2. {n} \in SUBSET (Ids \cup RelIds) /\ n \in Ids
  BY DEF Ids
<1> DEFINE e == [d EXCEPT !.keys = {Resolve(n)}]
<1>4. /\ e.op = "create" /\ e.id = n /\ e.v = New /\ e.keys = {Resolve(n)}
      /\ e.rel = None /\ e.src = None /\ e.tgt = None /\ Fresh(e)
  BY DEF Blank, Fresh
<1>5. tasks'[New] = e /\ New \in Values /\ Resolve(n) \in Ids
  <2> HIDE DEF d
  <2>1. QED
    BY <1>1, <1>2, EnqueueStep, IdsApart, ResolveFacts
<1>6. e \in Task
  BY <1>2, <1>5 DEF Task, Blank, Ops, Pcs, Outcomes
<1> HIDE DEF e
<1>7. QED
  BY <1>4, <1>5, <1>6

(* What deleteObject keeps is an object and relations.                     *)
LEMMA SnapshotFacts ==
  ASSUME TypeInv, NEW o \in Ids, Shown(o)
  PROVE  /\ Snapshot(o) \in Snapshots /\ Snapshot(o).obj = objects[o]
         /\ \A r \in RelIds :
              Snapshot(o).rels[r] = IF Touches(r, o) THEN relations[r] ELSE None
<1>1. objects[o] \in DataObject
  BY DEF TypeInv, TypeOK, StoreTypeOK, Shown
<1>2. [r \in RelIds |-> IF Touches(r, o) THEN relations[r] ELSE None]
        \in [RelIds -> DataRelation \cup {None}]
  BY DEF TypeInv, TypeOK, StoreTypeOK
<1>3. QED
  BY <1>1, <1>2 DEF Snapshot, Snapshots

LEMMA RemoveStep ==
  ASSUME TypeInv, NEW o \in Ids, RemoveObject(o)
  PROVE  LET e == tasks'[New] IN
         /\ e \in Task /\ Fresh(e) /\ e.op = "delete" /\ e.id = o
         /\ e.prev = Snapshot(o) /\ e.keys = {Resolve(o)}
         /\ e.rel = None /\ e.src = None /\ e.tgt = None
         /\ Shown(o) /\ Snapshot(o) \in Snapshots
<1> DEFINE d == [Blank EXCEPT !.op = "delete", !.id = o, !.expected = objects[o].version,
                              !.prev = Snapshot(o)]
<1>1. Enqueue(d, {o}) /\ Shown(o) /\ {Resolve(id) : id \in {o}} = {Resolve(o)}
  BY DEF RemoveObject
<1>2. {o} \in SUBSET (Ids \cup RelIds)
  OBVIOUS
<1>3. objects[o].version \in Nat
  BY <1>1 DEF TypeInv, TypeOK, StoreTypeOK, Shown, DataObject
<1>31. Snapshot(o) \in Snapshots
  BY <1>1, SnapshotFacts
<1> DEFINE e == [d EXCEPT !.keys = {Resolve(o)}]
<1>4. /\ e.op = "delete" /\ e.id = o /\ e.prev = Snapshot(o) /\ e.keys = {Resolve(o)}
      /\ e.rel = None /\ e.src = None /\ e.tgt = None /\ Fresh(e)
  BY DEF Blank, Fresh
<1>5. tasks'[New] = e /\ Resolve(o) \in Ids /\ 0 \in Values
  <2> HIDE DEF d
  <2>1. QED
    BY <1>1, <1>2, EnqueueStep, IdsApart, ResolveFacts
<1>6. e \in Task
  BY <1>3, <1>31, <1>5 DEF Task, Blank, Ops, Pcs, Outcomes
<1> HIDE DEF e
<1>7. QED
  BY <1>1, <1>31, <1>4, <1>5, <1>6

LEMMA RelateStep ==
  ASSUME TypeInv, NEW m \in TempLinks, NEW a \in Ids, NEW b \in Ids, Relate(m, a, b)
  PROVE  LET e == tasks'[New] IN
         /\ e \in Task /\ Fresh(e) /\ e.op = "relate" /\ e.rel = m /\ e.src = a /\ e.tgt = b
         /\ e.keys = {Resolve(a), Resolve(b), Resolve(m)} /\ e.id = None
         /\ Shown(a) /\ Shown(b)
<1> DEFINE d == [Blank EXCEPT !.op = "relate", !.rel = m, !.src = a, !.tgt = b]
<1>1. /\ Enqueue(d, {a, b, m}) /\ Shown(a) /\ Shown(b)
      /\ {Resolve(id) : id \in {a, b, m}} = {Resolve(a), Resolve(b), Resolve(m)}
  BY DEF Relate
<1>2. {a, b, m} \in SUBSET (Ids \cup RelIds) /\ m \in RelIds
  BY DEF RelIds
<1> DEFINE e == [d EXCEPT !.keys = {Resolve(a), Resolve(b), Resolve(m)}]
<1>4. /\ e.op = "relate" /\ e.rel = m /\ e.src = a /\ e.tgt = b
      /\ e.keys = {Resolve(a), Resolve(b), Resolve(m)} /\ e.id = None /\ Fresh(e)
  BY DEF Blank, Fresh
<1>5. /\ tasks'[New] = e /\ 0 \in Values
      /\ {Resolve(a), Resolve(b), Resolve(m)} \in SUBSET (Ids \cup RelIds)
  <2> HIDE DEF d
  <2>1. tasks'[New] = e /\ {Resolve(id) : id \in {a, b, m}} \subseteq Ids \cup RelIds
    BY <1>1, <1>2, EnqueueStep
  <2>2. QED
    BY <2>1, IdsApart
<1>6. e \in Task
  BY <1>2, <1>5 DEF Task, Blank, Ops, Pcs, Outcomes
<1> HIDE DEF e
<1>7. QED
  BY <1>1, <1>4, <1>5, <1>6

LEMMA UnrelateStep ==
  ASSUME TypeInv, NEW r \in RelIds, Unrelate(r)
  PROVE  LET e == tasks'[New] IN
         /\ e \in Task /\ Fresh(e) /\ e.op = "unlink" /\ e.rel = r /\ e.prev = relations[r]
         /\ e.keys = {Resolve(r)} /\ e.id = None /\ e.src = None /\ e.tgt = None
         /\ Present(r) /\ relations[r] \in DataRelation
<1> DEFINE d == [Blank EXCEPT !.op = "unlink", !.rel = r, !.expected = relations[r].version,
                              !.prev = relations[r]]
<1>1. Enqueue(d, {r}) /\ Present(r) /\ {Resolve(id) : id \in {r}} = {Resolve(r)}
  BY DEF Unrelate
<1>2. {r} \in SUBSET (Ids \cup RelIds)
  OBVIOUS
<1>3. relations[r] \in DataRelation /\ relations[r].version \in Nat
  BY <1>1 DEF TypeInv, TypeOK, StoreTypeOK, Present, DataRelation
<1> DEFINE e == [d EXCEPT !.keys = {Resolve(r)}]
<1>4. /\ e.op = "unlink" /\ e.rel = r /\ e.prev = relations[r] /\ e.keys = {Resolve(r)}
      /\ e.id = None /\ e.src = None /\ e.tgt = None /\ Fresh(e)
  BY DEF Blank, Fresh
<1>5. tasks'[New] = e /\ 0 \in Values /\ Resolve(r) \in Ids \cup RelIds
  <2> HIDE DEF d
  <2>1. tasks'[New] = e /\ {Resolve(id) : id \in {r}} \subseteq Ids \cup RelIds
    BY <1>1, <1>2, EnqueueStep
  <2>2. QED
    BY <2>1, IdsApart
<1>6. e \in Task
  BY <1>3, <1>5 DEF Task, Blank, Ops, Pcs, Outcomes
<1> HIDE DEF e
<1>7. QED
  BY <1>1, <1>3, <1>4, <1>5, <1>6

-----------------------------------------------------------------------------
(* What the kernel keeps of an object only grows.                          *)

LEMMA NowFacts ==
  ASSUME TypeInv, NEW o \in Servers, kernel[o] # << >>
  PROVE  /\ kernel[o] \in Seq(DataObject) /\ Len(kernel[o]) \in Nat \ {0}
         /\ Now(o) = kernel[o][Len(kernel[o])] /\ Now(o) \in DataObject
         /\ Now(o).version \in Nat /\ Now(o).val \in [Fields -> Values]
<1>1. kernel[o] \in Seq(DataObject)
  BY DEF TypeInv, TypeOK
<1>2. Len(kernel[o]) \in Nat \ {0} /\ kernel[o][Len(kernel[o])] \in DataObject
  BY <1>1
<1>3. Now(o) = kernel[o][Len(kernel[o])]
  BY DEF Now, Last
<1>4. QED
  BY <1>1, <1>2, <1>3 DEF DataObject

(* The states of o in the kernel, with e as the next one.                  *)
Grown(o, e) ==
  /\ e \in DataObject
  /\ Len(kernel'[o]) = Len(kernel[o]) + 1 /\ kernel'[o][Len(kernel[o]) + 1] = e
  /\ \A i \in 1 .. Len(kernel[o]) : kernel'[o][i] = kernel[o][i]
  /\ \A p \in Servers : p # o => kernel'[p] = kernel[p]
  /\ kernel' \in [Servers -> Seq(DataObject)]

LEMMA Appended ==
  ASSUME TypeInv, NEW o \in Servers, NEW e \in DataObject,
         kernel' = [kernel EXCEPT ![o] = Append(@, e)]
  PROVE  Grown(o, e)
<1>1. kernel \in [Servers -> Seq(DataObject)] /\ kernel[o] \in Seq(DataObject)
  BY DEF TypeInv, TypeOK
<1>2. kernel'[o] = Append(kernel[o], e) /\ Append(kernel[o], e) \in Seq(DataObject)
  BY <1>1
<1>3. /\ Len(kernel'[o]) = Len(kernel[o]) + 1 /\ kernel'[o][Len(kernel[o]) + 1] = e
      /\ \A i \in 1 .. Len(kernel[o]) : kernel'[o][i] = kernel[o][i]
  BY <1>1, <1>2
<1>4. /\ \A p \in Servers : p # o => kernel'[p] = kernel[p]
      /\ kernel' \in [Servers -> Seq(DataObject)]
  BY <1>1, <1>2
<1>5. QED
  BY <1>3, <1>4 DEF Grown

(* A value is written over the one that is there.                          *)
Written(o, e, f, v) ==
  /\ Grown(o, e) /\ kernel[o] # << >>
  /\ e.version = Now(o).version + 1 /\ e.val[f] = v
  /\ \A g \in Fields : g # f => e.val[g] = Now(o).val[g]

LEMMA ValueWritten ==
  ASSUME TypeInv, NEW o \in Servers, NEW f \in Fields, NEW v \in Values, kernel[o] # << >>,
         kernel' = [kernel EXCEPT ![o] =
                      Append(@, [Now(o) EXCEPT !.version = @ + 1, !.val[f] = v])]
  PROVE  \E e \in DataObject : Written(o, e, f, v)
<1> DEFINE e == [Now(o) EXCEPT !.version = @ + 1, !.val[f] = v]
<1>1. Now(o) \in DataObject /\ Now(o).version \in Nat /\ Now(o).val \in [Fields -> Values]
  BY NowFacts
<1> DEFINE n == Now(o).version + 1
           w == [Now(o).val EXCEPT ![f] = v]
<1>2. n \in Nat /\ w \in [Fields -> Values]
      /\ w[f] = v /\ \A g \in Fields : g # f => w[g] = Now(o).val[g]
  BY <1>1
<1>5. e = [Now(o) EXCEPT !.version = n, !.val = w]
  BY <1>1 DEF DataObject
<1> HIDE DEF e, n, w
<1>6. e \in DataObject /\ e.version = n /\ e.val = w
  BY <1>1, <1>2, <1>5 DEF DataObject
<1> USE DEF e
<1>3. Grown(o, e)
  BY <1>6, Appended
<1> HIDE DEF e
<1>4. QED
  BY <1>2, <1>3, <1>6 DEF Written, n

LEMMA OtherUpdateStep ==
  ASSUME TypeInv, NEW o \in Loaded, NEW f \in Fields, NEW w \in OtherValues, OtherUpdate(o, f, w)
  PROVE  \E e \in DataObject : Written(o, e, f, w)
BY ValueWritten, BridgeAssumption DEF OtherUpdate

LEMMA KernelUpdateStep ==
  ASSUME TypeInv, NEW o, NEW f \in Fields, NEW v \in Values, NEW x, KernelUpdate(o, f, v, x)
  PROVE  /\ o \in Servers /\ kernel[o] # << >> /\ links' = links
         /\ \/ kernel' = kernel /\ Now(o).val[f] = v
            \/ \E e \in DataObject : Written(o, e, f, v)
BY ValueWritten DEF KernelUpdate

LEMMA KernelCreateStep ==
  ASSUME TypeInv, NEW o, NEW v \in Values, KernelCreate(o, v)
  PROVE  /\ o \in Servers /\ kernel[o] = << >> /\ kernel'[o] # << >> /\ links' = links
         /\ \E e \in DataObject : /\ Grown(o, e)
                                  /\ \A f \in Fields : e.val[f] = v
<1> DEFINE e == [Initial EXCEPT !.val = [f \in Fields |-> v]]
<1>1. e \in DataObject /\ \A f \in Fields : e.val[f] = v
  BY IdsApart DEF Initial, DataObject
<1> HIDE DEF e
<1>2. o \in Servers /\ kernel[o] = << >> /\ kernel' = [kernel EXCEPT ![o] = << e >>] /\ links' = links
  BY DEF KernelCreate, e
<1>3. Append(<< >>, e) = << e >>
  OBVIOUS
<1>4. Grown(o, e)
  <2>1. kernel' = [kernel EXCEPT ![o] = Append(@, e)]
    BY <1>2, <1>3
  <2>2. QED
    BY <1>1, <1>2, <2>1, Appended
<1>5. kernel'[o] # << >>
  <2>1. kernel'[o] = << e >>
    BY <1>2 DEF TypeInv, TypeOK
  <2>2. QED
    BY <2>1
<1>6. QED
  BY <1>1, <1>2, <1>4, <1>5

LEMMA KernelArchiveStep ==
  ASSUME TypeInv, NEW o, NEW x, KernelArchive(o, x)
  PROVE  /\ o \in Servers /\ kernel[o] # << >>
         /\ \/ kernel' = kernel
            \/ \E e \in DataObject : /\ Grown(o, e) /\ e.version = Now(o).version + 1
                                     /\ e.val = Now(o).val
<1>1. CASE Now(o).live
  <2> DEFINE e == [Now(o) EXCEPT !.version = @ + 1, !.live = FALSE]
  <2>1. o \in Servers /\ kernel[o] # << >> /\ kernel' = [kernel EXCEPT ![o] = Append(@, e)]
    BY <1>1 DEF KernelArchive
  <2>2. Now(o) \in DataObject
    BY <2>1, NowFacts
  <2> DEFINE n == Now(o).version + 1
  <2>3. n \in Nat
    BY <2>2 DEF DataObject
  <2>4. e = [Now(o) EXCEPT !.version = n, !.live = FALSE]
    OBVIOUS
  <2> HIDE DEF e, n
  <2>5. e \in DataObject /\ e.version = n /\ e.val = Now(o).val
    BY <2>2, <2>3, <2>4 DEF DataObject
  <2>6. Grown(o, e)
    BY <2>1, <2>5, Appended
  <2>7. QED
    BY <2>1, <2>5, <2>6 DEF n
<1>2. QED
  BY <1>1 DEF KernelArchive

(* What a command does to the kernel, taken together.                      *)
LEMMA CarriedKernel ==
  ASSUME TypeInv, NEW t \in Tasks, NEW x \in Servers \cup Links, Carried(t, x)
  PROVE  LET d == tasks[t] IN
         \/ kernel' = kernel
         \/ d.op = "update" /\ x \in Servers /\ \E e \in DataObject : Written(x, e, d.f, d.v)
         \/ /\ d.op = "create" /\ x \in Servers /\ kernel[x] = << >>
            /\ \E e \in DataObject : Grown(x, e) /\ \A f \in Fields : e.val[f] = d.v
         \/ /\ d.op = "delete" /\ x \in Servers /\ kernel[x] # << >>
            /\ \E e \in DataObject :
                 Grown(x, e) /\ e.version = Now(x).version + 1 /\ e.val = Now(x).val
<1>1. tasks[t].op \in Ops /\ tasks[t].v \in Values /\ Shape(t)
  BY TaskFacts
<1>2. CASE tasks[t].op = "update"
  <2>1. KernelUpdate(x, tasks[t].f, tasks[t].v, tasks[t].expected) /\ tasks[t].f \in Fields
    BY <1>1, <1>2 DEF Carried, Shape
  <2>2. QED
    BY <1>1, <1>2, <2>1, KernelUpdateStep
<1>3. CASE tasks[t].op = "create"
  BY <1>1, <1>3, KernelCreateStep DEF Carried
<1>4. CASE tasks[t].op = "delete"
  BY <1>4, KernelArchiveStep DEF Carried
<1>5. CASE tasks[t].op \in {"relate", "unlink"}
  BY <1>5 DEF Carried, KernelRelate, KernelUnlink
<1>6. QED
  BY <1>1, <1>2, <1>3, <1>4, <1>5 DEF Ops

-----------------------------------------------------------------------------
(* Steps of the store.                                                     *)

LEMMA StoreFacts ==
  ASSUME StoreTypeOK
  PROVE  /\ objects \in [Ids -> DataObject \cup {None}]
         /\ relations \in [RelIds -> DataRelation \cup {None}]
         /\ \A o \in Ids : Shown(o) => objects[o] \in DataObject
         /\ \A r \in RelIds : Present(r) =>
              /\ relations[r] \in DataRelation
              /\ relations[r].src \in Ids /\ relations[r].tgt \in Ids
              /\ Ends(relations[r]) \subseteq Ids
         /\ \A r \in RelIds : \A o : Touches(r, o) <=> Present(r) /\ o \in Ends(relations[r])
BY DEF StoreTypeOK, Shown, Present, DataRelation, Ends, Touches

LEMMA RenamedFacts ==
  ASSUME NEW q \in DataRelation \cup {None}, NEW n \in Ids, NEW o \in Ids
  PROVE  /\ Renamed(q, n, o) \in DataRelation \cup {None}
         /\ Renamed(q, n, o) = None <=> q = None
         /\ q # None => Ends(Renamed(q, n, o)) = {IF e = n THEN o ELSE e : e \in Ends(q)}
<1>1. CASE q = None
  BY <1>1 DEF Renamed
<1>2. CASE q # None
  <2> DEFINE a == IF q.src = n THEN o ELSE q.src
             b == IF q.tgt = n THEN o ELSE q.tgt
  <2>1. q \in DataRelation /\ a \in Ids /\ b \in Ids
    BY <1>2 DEF DataRelation
  <2>2. Renamed(q, n, o) = [q EXCEPT !.src = a, !.tgt = b]
    BY <1>2 DEF Renamed
  <2>3. Ends(q) = {q.src, q.tgt}
    BY DEF Ends
  <2>4. {IF e = n THEN o ELSE e : e \in Ends(q)} = {a, b}
    BY <2>3
  <2> HIDE DEF a, b
  <2>5. [q EXCEPT !.src = a, !.tgt = b] \in DataRelation
        /\ Ends([q EXCEPT !.src = a, !.tgt = b]) = {a, b}
    BY <2>1 DEF DataRelation, Ends
  <2>6. QED
    BY <1>2, <2>2, <2>4, <2>5, NoneIsNoRow
<1>3. QED
  BY <1>1, <1>2

(* Objects that are not shown are not, unless something is put there.      *)
LEMMA UpdateFieldStep ==
  ASSUME StoreTypeOK, NEW o \in Ids, NEW f \in Fields, NEW v \in Values, UpdateField(o, f, v)
  PROVE  /\ StoreTypeOK' /\ relations' = relations
         /\ \A p \in Ids : p # o => objects'[p] = objects[p]
         /\ Shown(o) /\ Shown(o)' /\ objects'[o].version = objects[o].version + 1
<1>1. objects[o] \in DataObject /\ objects \in [Ids -> DataObject \cup {None}]
  BY StoreFacts DEF UpdateField
<1> DEFINE n == objects[o].version + 1
           w == [objects[o].val EXCEPT ![f] = v]
           e == [objects[o] EXCEPT !.version = n, !.val = w]
<1>2. objects' = [objects EXCEPT ![o] = e]
  <2>1. objects' = [objects EXCEPT ![o] = [objects[o] EXCEPT !.version = @ + 1, !.val[f] = v]]
    BY <1>1 DEF UpdateField
  <2>2. QED
    BY <1>1, <2>1 DEF DataObject
<1>3. n \in Nat /\ w \in [Fields -> Values]
  BY <1>1 DEF DataObject
<1> HIDE DEF n, w
<1>4. e \in DataObject /\ e.version = n
  BY <1>1, <1>3 DEF DataObject
<1> HIDE DEF e
<1>5. objects' \in [Ids -> DataObject \cup {None}] /\ objects'[o] = e
      /\ \A p \in Ids : p # o => objects'[p] = objects[p]
  BY <1>1, <1>2, <1>4
<1>6. QED
  BY <1>4, <1>5, NoneIsNoRow DEF n, UpdateField, StoreTypeOK, Shown

LEMMA CreateObjectStep ==
  ASSUME StoreTypeOK, NEW n \in Ids, NEW val \in [Fields -> Values], CreateObject(n, val)
  PROVE  /\ StoreTypeOK' /\ relations' = relations
         /\ \A p \in Ids : p # n => objects'[p] = objects[p]
<1>1. [version |-> 1, live |-> TRUE, val |-> val] \in DataObject
  BY DEF DataObject
<1>2. QED
  BY <1>1 DEF CreateObject, StoreTypeOK

LEMMA CreateRelationStep ==
  ASSUME StoreTypeOK, NEW m \in RelIds, NEW a \in Ids, NEW b \in Ids, CreateRelation(m, a, b)
  PROVE  /\ StoreTypeOK' /\ objects' = objects
         /\ \A r \in RelIds : r # m => relations'[r] = relations[r]
         /\ Ends(relations'[m]) = {a, b}
<1> DEFINE q == [src |-> a, tgt |-> b, active |-> TRUE, version |-> 1]
<1>1. q \in DataRelation /\ Ends(q) = {a, b}
  BY DEF DataRelation, Ends
<1> HIDE DEF q
<1>2. relations' = [relations EXCEPT ![m] = q] /\ objects' = objects
  BY DEF CreateRelation, q
<1>3. QED
  BY <1>1, <1>2 DEF StoreTypeOK

LEMMA UnlinkRelationStep ==
  ASSUME StoreTypeOK, NEW r \in RelIds, UnlinkRelation(r)
  PROVE  /\ StoreTypeOK' /\ objects' = objects
         /\ \A q \in RelIds : q # r => relations'[q] = relations[q]
         /\ Present(r) /\ Ends(relations'[r]) = Ends(relations[r])
<1>1. relations[r] \in DataRelation /\ Present(r) /\ relations \in [RelIds -> DataRelation \cup {None}]
  BY StoreFacts DEF UnlinkRelation
<1> DEFINE n == relations[r].version + 1
           e == [relations[r] EXCEPT !.active = FALSE, !.version = n]
<1>2. relations' = [relations EXCEPT ![r] = e]
  BY <1>1 DEF UnlinkRelation, DataRelation
<1>3. n \in Nat
  BY <1>1 DEF DataRelation
<1> HIDE DEF n
<1>4. e \in DataRelation /\ Ends(e) = Ends(relations[r])
  BY <1>1, <1>3 DEF DataRelation, Ends
<1> HIDE DEF e
<1>5. QED
  BY <1>1, <1>2, <1>4 DEF StoreTypeOK, UnlinkRelation

LEMMA DeleteObjectStep ==
  ASSUME StoreTypeOK, NEW o \in Ids, DeleteObject(o)
  PROVE  /\ StoreTypeOK' /\ ~Shown(o)'
         /\ \A p \in Ids : p # o => objects'[p] = objects[p]
         /\ \A r \in RelIds : relations'[r] = relations[r] \/ ~Present(r)'
<1>1. objects \in [Ids -> DataObject \cup {None}] /\ relations \in [RelIds -> DataRelation \cup {None}]
  BY DEF StoreTypeOK
<1>2. objects' = [objects EXCEPT ![o] = None]
      /\ relations' = [r \in RelIds |-> IF Touches(r, o) THEN None ELSE relations[r]]
  BY DEF DeleteObject
<1>3. objects' \in [Ids -> DataObject \cup {None}] /\ relations' \in [RelIds -> DataRelation \cup {None}]
  BY <1>1, <1>2
<1>4. QED
  BY <1>1, <1>2, <1>3 DEF StoreTypeOK, Shown, Present

LEMMA RollbackStep ==
  ASSUME StoreTypeOK, NEW o \in Ids, NEW prev \in DataObject, NEW n \in Ids,
         RollbackField(o, prev, n)
  PROVE  /\ StoreTypeOK' /\ relations' = relations
         /\ \A p \in Ids : Shown(p)' => Shown(p) \/ (p = o /\ Shown(n))
         /\ \A p \in Ids : p \notin {o, n} => objects'[p] = objects[p]
         /\ n # o /\ ~Shown(n) => ~Shown(n)'
BY DEF RollbackField, StoreTypeOK, Shown

LEMMA ReconcileObjectStep ==
  ASSUME StoreTypeOK, NEW o \in Ids, NEW row \in DataObject, ReconcileObject(o, row)
  PROVE  /\ StoreTypeOK' /\ relations' = relations
         /\ \A p \in Ids : Shown(p)' <=> Shown(p)
         /\ \A p \in Ids : p # o => objects'[p] = objects[p]
         /\ Shown(o) /\ objects[o].version <= row.version => objects'[o] = row
         /\ ~(Shown(o) /\ objects[o].version <= row.version) => objects'[o] = objects[o]
<1>1. /\ objects'[o] = IF Shown(o) /\ objects[o].version <= row.version THEN row ELSE objects[o]
      /\ \A p \in Ids : p # o => objects'[p] = objects[p]
      /\ relations' = relations /\ objects' \in [Ids -> DataObject \cup {None}]
  BY DEF ReconcileObject, Reconciled, StoreTypeOK
<1>2. row # None
  BY NoneIsNoRow
<1>6. StoreTypeOK'
  BY <1>1 DEF StoreTypeOK
<1>3. \A p \in Ids : p # o => (Shown(p)' <=> Shown(p))
  BY <1>1 DEF Shown
<1>4. Shown(o)' <=> Shown(o)
  BY <1>1, <1>2 DEF Shown
<1>5. QED
  BY <1>1, <1>6, <1>3, <1>4

LEMMA ReconcileIdStep ==
  ASSUME StoreTypeOK, NEW n \in Ids, NEW o \in Ids, NEW row \in DataObject, n # o,
         ReconcileObjectId(n, o, row)
  PROVE  /\ StoreTypeOK' /\ ~Shown(n)'
         /\ \A p \in Ids : p \notin {n, o} => objects'[p] = objects[p]
         /\ Shown(o)' => Shown(o) \/ Shown(n)
         /\ \A r \in RelIds :
              /\ Present(r)' <=> Present(r)
              /\ Present(r) => Ends(relations'[r]) = {IF e = n THEN o ELSE e : e \in Ends(relations[r])}
<1>1. objects \in [Ids -> DataObject \cup {None}] /\ relations \in [RelIds -> DataRelation \cup {None}]
  BY DEF StoreTypeOK
<1>2. relations' = [r \in RelIds |-> Renamed(relations[r], n, o)]
  BY DEF ReconcileObjectId
<1>3. relations' \in [RelIds -> DataRelation \cup {None}]
  BY <1>1, <1>2, RenamedFacts
<1>4. \A r \in RelIds :
        /\ Present(r)' <=> Present(r)
        /\ Present(r) => Ends(relations'[r]) = {IF e = n THEN o ELSE e : e \in Ends(relations[r])}
  BY <1>1, <1>2, RenamedFacts DEF Present
<1>5. /\ objects' \in [Ids -> DataObject \cup {None}] /\ ~Shown(n)'
      /\ \A p \in Ids : p \notin {n, o} => objects'[p] = objects[p]
      /\ Shown(o)' => Shown(o) \/ Shown(n)
  BY <1>1 DEF ReconcileObjectId, Shown
<1>6. QED
  BY <1>3, <1>4, <1>5 DEF StoreTypeOK

LEMMA RestoreStep ==
  ASSUME StoreTypeOK, NEW o \in Ids, NEW snap \in Snapshots, NEW n \in Ids,
         RestoreObject(o, snap, n)
  PROVE  /\ StoreTypeOK'
         /\ \A p \in Ids : p \notin {o, n} => objects'[p] = objects[p]
         /\ n # o => ~Shown(n)'
         /\ \A r \in RelIds :
              IF snap.rels[r] # None
              THEN Ends(relations'[r]) = {IF e = n THEN o ELSE e : e \in Ends(snap.rels[r])}
              ELSE relations'[r] = relations[r]
<1>1. objects \in [Ids -> DataObject \cup {None}] /\ relations \in [RelIds -> DataRelation \cup {None}]
  BY DEF StoreTypeOK
<1>2. snap.obj \in DataObject /\ snap.rels \in [RelIds -> DataRelation \cup {None}]
  BY DEF Snapshots
<1>3. relations' = [r \in RelIds |->
        IF snap.rels[r] # None THEN Renamed(snap.rels[r], n, o) ELSE relations[r]]
  BY DEF RestoreObject
<1>4. relations' \in [RelIds -> DataRelation \cup {None}]
  BY <1>1, <1>2, <1>3, RenamedFacts
<1>5. \A r \in RelIds :
        IF snap.rels[r] # None
        THEN Ends(relations'[r]) = {IF e = n THEN o ELSE e : e \in Ends(snap.rels[r])}
        ELSE relations'[r] = relations[r]
  BY <1>2, <1>3, RenamedFacts
<1>6. /\ objects' \in [Ids -> DataObject \cup {None}]
      /\ \A p \in Ids : p \notin {o, n} => objects'[p] = objects[p]
      /\ n # o => ~Shown(n)'
  BY <1>1, <1>2 DEF RestoreObject, Shown
<1>7. QED
  BY <1>4, <1>5, <1>6 DEF StoreTypeOK

LEMMA RemoveRelationStep ==
  ASSUME StoreTypeOK, NEW m \in RelIds, RemoveRelation(m)
  PROVE  /\ StoreTypeOK' /\ objects' = objects
         /\ \A r \in RelIds : relations'[r] = relations[r] \/ ~Present(r)'
BY DEF RemoveRelation, StoreTypeOK, Present

LEMMA ReconcileRelationIdStep ==
  ASSUME StoreTypeOK, NEW m \in RelIds, NEW r \in RelIds, NEW row \in DataRelation,
         ReconcileRelationId(m, r, row)
  PROVE  /\ StoreTypeOK' /\ objects' = objects
         /\ \A q \in RelIds :
              relations'[q] = relations[q] \/ ~Present(q)' \/ (q = r /\ relations'[q] = row)
BY DEF ReconcileRelationId, StoreTypeOK, Present

LEMMA ReconcileRelationStep ==
  ASSUME StoreTypeOK, NEW r \in RelIds, NEW row \in DataRelation, ReconcileRelation(r, row)
  PROVE  /\ StoreTypeOK' /\ objects' = objects
         /\ \A q \in RelIds : relations'[q] = relations[q] \/ (q = r /\ relations'[q] = row)
BY DEF ReconcileRelation, StoreTypeOK

(* What a task that failed takes back, by its kind.                        *)
LEMMA UndoKinds ==
  ASSUME TypeInv, NEW t \in Tasks, Undo(t)
  PROVE  LET d == tasks[t]  o == Resolve(tasks[t].id) IN
         \/ /\ d.op = "update" /\ RollbackField(o, d.prev, d.id)
            /\ o \in Ids /\ d.id \in Ids /\ d.prev \in DataObject
         \/ d.op = "create" /\ DeleteObject(d.id) /\ d.id \in Temps /\ d.id \in Ids
         \/ /\ d.op = "delete" /\ RestoreObject(o, d.prev, d.id)
            /\ o \in Ids /\ d.id \in Ids /\ d.prev \in Snapshots
         \/ d.op = "relate" /\ RemoveRelation(d.rel) /\ d.rel \in RelIds
         \/ /\ d.op = "unlink" /\ ReconcileRelation(d.rel, d.prev)
            /\ d.rel \in RelIds /\ d.prev \in DataRelation
<1>1. tasks[t].op \in Ops /\ Shape(t)
  BY TaskFacts
<1>2. tasks[t].op \in Writes => tasks[t].id \in Ids /\ Resolve(tasks[t].id) \in Ids
  BY <1>1, ResolveFacts DEF Shape
<1>3. tasks[t].id \in Temps => tasks[t].id \in Ids
  BY DEF Ids
<1>4. QED
  BY <1>1, <1>2, <1>3 DEF Undo, Ops, Shape, Writes

LEMMA UndoTypes ==
  ASSUME TypeInv, NEW t \in Tasks, Undo(t)
  PROVE  StoreTypeOK'
<1>1. StoreTypeOK
  BY DEF TypeInv, TypeOK
<1>2. QED
  BY <1>1, UndoKinds, RollbackStep, DeleteObjectStep, RestoreStep, RemoveRelationStep,
     ReconcileRelationStep

(* What a relation written shows, by the kind of its task.                 *)
LEMMA WrittenKinds ==
  ASSUME TypeInv, NEW t \in Tasks, RelationWritten(t)
  PROVE  LET d == tasks[t] IN
         \/ /\ d.op = "relate"
            /\ \E row \in DataRelation : /\ Ends(row) = {Resolve(d.src), Resolve(d.tgt)}
                                         /\ ReconcileRelationId(d.rel, d.target, row)
            /\ d.rel \in RelIds /\ d.target \in Links /\ d.target \in RelIds
         \/ /\ d.op = "unlink"
            /\ \E row \in DataRelation : /\ Ends(row) = Ends(d.prev)
                                         /\ ReconcileRelation(d.rel, row)
            /\ d.rel \in Links /\ d.rel \in RelIds
         \/ d.op = "delete" /\ UNCHANGED store
<1>1. /\ tasks[t].pc = "accepted" /\ tasks[t].op \in {"relate", "unlink", "delete"}
      /\ Shape(t) /\ Progress(t) /\ tasks[t].expected \in Nat
  BY TaskFacts DEF RelationWritten
<1>2. Taken(t) /\ tasks[t].target # None
  BY <1>1 DEF Taken, Progress
<1>3. CASE tasks[t].op = "relate"
  <2> DEFINE a == Resolve(tasks[t].src)
             b == Resolve(tasks[t].tgt)
             row == [src |-> a, tgt |-> b, active |-> TRUE, version |-> 1]
  <2>1. a \in Ids /\ b \in Ids /\ tasks[t].rel \in RelIds
    BY <1>1, <1>3, ResolveFacts DEF Shape
  <2> HIDE DEF a, b
  <2>2. row \in DataRelation /\ Ends(row) = {a, b}
    BY <2>1 DEF DataRelation, Ends
  <2>3. ReconcileRelationId(tasks[t].rel, tasks[t].target, row)
    BY <1>3 DEF RelationWritten, a, b
  <2>4. tasks[t].target \in Links /\ tasks[t].target \in RelIds
    BY <1>1, <1>2, <1>3 DEF Progress, Writes, RelIds
  <2> HIDE DEF row
  <2>5. QED
    BY <1>3, <2>1, <2>2, <2>3, <2>4 DEF a, b
<1>4. CASE tasks[t].op = "unlink"
  <2> DEFINE n == tasks[t].expected + 1
             row == [tasks[t].prev EXCEPT !.active = FALSE, !.version = n]
  <2>1. n \in Nat /\ tasks[t].prev \in DataRelation
    BY <1>1, <1>4 DEF Shape
  <2>2. ReconcileRelation(tasks[t].rel, row)
    BY <1>4 DEF RelationWritten
  <2> HIDE DEF n
  <2>3. row \in DataRelation /\ Ends(row) = Ends(tasks[t].prev)
    BY <2>1 DEF DataRelation, Ends
  <2>4. tasks[t].rel \in Links /\ tasks[t].rel \in RelIds
    BY <1>1, <1>2, <1>4 DEF Progress, Writes, RelIds
  <2> HIDE DEF row
  <2>5. QED
    BY <1>4, <2>2, <2>3, <2>4
<1>5. CASE tasks[t].op = "delete"
  BY <1>5 DEF RelationWritten
<1>6. QED
  BY <1>1, <1>3, <1>4, <1>5

LEMMA WrittenTypes ==
  ASSUME TypeInv, NEW t \in Tasks, RelationWritten(t)
  PROVE  StoreTypeOK'
<1>1. StoreTypeOK
  BY DEF TypeInv, TypeOK
<1>2. CASE UNCHANGED store
  BY <1>1, <1>2 DEF store, StoreTypeOK
<1>3. QED
  BY <1>1, <1>2, WrittenKinds, ReconcileRelationIdStep, ReconcileRelationStep

-----------------------------------------------------------------------------
(* The refreshes of a step are of objects.                                 *)

LEMMA RelatedFacts ==
  ASSUME TypeInv, NEW o \in Ids
  PROVE  Related(o) \subseteq Ids
<1>1. \A S : Around(S) \subseteq Ids
  BY StoreFacts DEF Around, TypeInv, TypeOK
<1>2. QED
  BY <1>1 DEF Related, Refreshable

LEMMA EndpointsFacts ==
  ASSUME TypeInv, NEW t \in Tasks, tasks[t].op \in {"relate", "unlink", "delete"}
  PROVE  Endpoints(t) \subseteq Ids
<1>1. Shape(t)
  BY TaskFacts
<1>2. CASE tasks[t].op = "relate"
  BY <1>1, <1>2 DEF Endpoints, Shape
<1>3. CASE tasks[t].op = "unlink"
  BY <1>1, <1>3 DEF Endpoints, Shape, DataRelation
<1>4. CASE tasks[t].op = "delete"
  <2>1. \A r \in RelIds : tasks[t].prev.rels[r] # None =>
          tasks[t].prev.rels[r].src \in Ids /\ tasks[t].prev.rels[r].tgt \in Ids
    BY <1>1, <1>4 DEF Shape, Snapshots, DataRelation
  <2>2. QED
    BY <1>4, <2>1 DEF Endpoints
<1>5. QED
  BY <1>2, <1>3, <1>4

FetchTypeOK ==
  \A x \in fetches : /\ x.task \in Tasks \cup {0} /\ x.obj \in Ids /\ x.gen \in Nat
                     /\ x.row \in DataObject \cup {None} /\ (x.row # None => x.obj \in Servers)

LEMMA StartTypes ==
  ASSUME TypeInv, NEW t \in Tasks, NEW ids \in SUBSET Ids, StartFetches(t, ids), Tasks' = Tasks
  PROVE  gens' \in [Servers -> Nat] /\ FetchTypeOK'
<1>1. gens \in [Servers -> Nat] /\ FetchTypeOK
  BY DEF TypeInv, TypeOK, FetchesOK, FetchTypeOK
<1>2. gens' \in [Servers -> Nat]
  BY <1>1 DEF StartFetches
<1>3. ASSUME NEW x \in fetches' \ fetches
      PROVE  x.task = t /\ x.obj \in Ids /\ x.gen \in Nat /\ x.row = None
  <2>1. PICK o \in ids :
          x = [task |-> t, obj |-> o, gen |-> IF o \in Servers THEN gens[o] + 1 ELSE 0, row |-> None]
    BY DEF StartFetches
  <2>2. (IF o \in Servers THEN gens[o] + 1 ELSE 0) \in Nat
    BY <1>1
  <2>3. QED
    BY <2>1, <2>2
<1>4. QED
  BY <1>1, <1>2, <1>3 DEF FetchTypeOK

-----------------------------------------------------------------------------
(* Types and the shape of the tasks.                                       *)

TasksOK == tasks \in Seq(Task) /\ \A t \in Tasks : Shape(t) /\ Progress(t)

ServerTypeOK ==
  /\ kernel \in [Servers -> Seq(DataObject)]
  /\ links \in [Links -> DataRelation \cup {None}]
  /\ others \subseteq OtherValues

LEMMA TypeParts ==
  TypeInv <=> /\ StoreTypeOK /\ TasksOK /\ ServerTypeOK /\ FetchTypeOK
              /\ idMap \in [Temps -> Servers \cup {None}]
              /\ gens \in [Servers -> Nat]
              /\ seen \in [Servers -> Reading]
BY DEF TypeInv, TypeOK, TasksOK, ServerTypeOK, FetchTypeOK, FetchesOK

LEMMA TypePartsNext ==
  ASSUME StoreTypeOK', TasksOK', ServerTypeOK', FetchTypeOK', (seen \in [Servers -> Reading])',
         (idMap \in [Temps -> Servers \cup {None}])', (gens \in [Servers -> Nat])'
  PROVE  TypeInv'
BY DEF TypeInv, TypeOK, TasksOK, ServerTypeOK, FetchTypeOK, FetchesOK

LEMMA ShapeKept ==
  ASSUME TypeInv, NEW t \in Tasks, OnlyTask(t), tasks' \in Seq(Task), Progress(t)'
  PROVE  TasksOK'
<1>1. ASSUME NEW s \in Tasks, s # t
      PROVE  Shape(s)' /\ Progress(s)'
  <2>1. tasks'[s] = tasks[s] /\ Shape(s) /\ Progress(s)
    BY <1>1, TaskFacts DEF OnlyTask
  <2>2. QED
    BY <2>1 DEF Shape, Progress, Taken
<1>2. Shape(t)'
  BY TaskFacts DEF OnlyTask, SameTask, Shape
<1>3. QED
  BY <1>1, <1>2 DEF TasksOK, OnlyTask

LEMMA TasksUnchanged ==
  ASSUME TypeInv, tasks' = tasks
  PROVE  TasksOK' /\ Tasks' = Tasks
<1>1. Tasks' = Tasks
  BY DEF Tasks
<1>2. QED
  BY <1>1 DEF TypeInv, TypeOK, TasksOK, Shape, Progress, Taken

LEMMA NewShape ==
  ASSUME TypeInv, NEW d, NEW ids \in SUBSET (Ids \cup RelIds), Enqueue(d, ids),
         NEW k, k = New, tasks'[k] \in Task, Fresh(tasks'[k]), Shape(k)'
  PROVE  TasksOK'
<1>1. ASSUME NEW s \in Tasks
      PROVE  Shape(s)' /\ Progress(s)'
  <2>1. tasks'[s] = tasks[s] /\ Shape(s) /\ Progress(s)
    BY EnqueueStep, TaskFacts
  <2>2. QED
    BY <2>1 DEF Shape, Progress, Taken
<1>2. Progress(k)'
  BY DEF Fresh, Progress, Taken
<1>3. Tasks' = Tasks \cup {k} /\ tasks' \in Seq(Task)
  BY EnqueueStep
<1>4. QED
  BY <1>1, <1>2, <1>3 DEF TasksOK

LEMMA AcceptTypes ==
  ASSUME TypeInv, NEW t \in Tasks, Accept(t)
  PROVE  ServerTypeOK' /\ TasksOK'
<1>1. PICK x \in Servers \cup Links : Carried(t, x)
  BY DEF Accept
<1>2. kernel' \in [Servers -> Seq(DataObject)]
  <2>1. kernel \in [Servers -> Seq(DataObject)]
    BY DEF TypeInv, TypeOK
  <2>2. QED
    BY <1>1, <2>1, CarriedKernel DEF Written, Grown
<1>3. links' \in [Links -> DataRelation \cup {None}] /\ others' = others
  <2>1. links \in [Links -> DataRelation \cup {None}] /\ tasks[t].op \in Ops /\ Shape(t)
    BY TaskFacts DEF TypeInv, TypeOK
  <2>2. CASE tasks[t].op \in {"update", "create"}
    BY <1>1, <2>1, <2>2 DEF Carried, KernelUpdate, KernelCreate
  <2>3. CASE tasks[t].op = "delete"
    <3>1. KernelArchive(x, tasks[t].expected)
      BY <1>1, <2>3 DEF Carried
    <3>2. ASSUME NEW r \in Links, links[r] # None
          PROVE  [links[r] EXCEPT !.active = FALSE, !.version = @ + 1] \in DataRelation
      <4> DEFINE n == links[r].version + 1
      <4>1. n \in Nat /\ links[r] \in DataRelation
        BY <3>2, <2>1 DEF DataRelation
      <4> HIDE DEF n
      <4>2. [links[r] EXCEPT !.active = FALSE, !.version = n] \in DataRelation
        BY <4>1 DEF DataRelation
      <4>3. QED
        BY <4>2 DEF n
    <3>3. links' = links \/ links' = [r \in Links |->
             IF links[r] # None /\ links[r].active /\ x \in {links[r].src, links[r].tgt}
             THEN [links[r] EXCEPT !.active = FALSE, !.version = @ + 1] ELSE links[r]]
      BY <3>1 DEF KernelArchive
    <3>4. QED
      BY ZenonT(60), <2>1, <3>1, <3>2, <3>3 DEF KernelArchive
  <2>4. CASE tasks[t].op = "relate"
    <3>1. KernelRelate(x, Resolve(tasks[t].src), Resolve(tasks[t].tgt))
      BY <1>1, <2>4 DEF Carried
    <3>2. [src |-> Resolve(tasks[t].src), tgt |-> Resolve(tasks[t].tgt), active |-> TRUE,
           version |-> 1] \in DataRelation
      BY <2>1, <2>4, ResolveFacts DEF Shape, DataRelation
    <3>3. QED
      BY <2>1, <3>1, <3>2 DEF KernelRelate
  <2>5. CASE tasks[t].op = "unlink"
    <3>1. KernelUnlink(x, tasks[t].expected) /\ x \in Links /\ links[x] \in DataRelation
      BY <1>1, <2>1, <2>5 DEF Carried, KernelUnlink
    <3> DEFINE n == links[x].version + 1
               e == [links[x] EXCEPT !.active = FALSE, !.version = n]
    <3>2. n \in Nat
      BY <3>1 DEF DataRelation
    <3>3. links' = [links EXCEPT ![x] = e] /\ others' = others
      BY <2>1, <3>1 DEF KernelUnlink, DataRelation
    <3> HIDE DEF n
    <3>4. e \in DataRelation
      BY <3>1, <3>2 DEF DataRelation
    <3> HIDE DEF e
    <3>5. QED
      BY <2>1, <3>1, <3>3, <3>4
  <2>6. QED
    BY <2>1, <2>2, <2>3, <2>4, <2>5 DEF Ops
<1>4. ServerTypeOK'
  BY <1>2, <1>3 DEF ServerTypeOK, TypeInv, TypeOK
<1>5. Progress(t)'
  <2>1. /\ tasks'[t].pc = "accepted" /\ tasks'[t].target # None /\ tasks'[t].op = tasks[t].op
        /\ tasks'[t].rel = tasks[t].rel /\ tasks'[t].row = tasks[t].row
        /\ tasks'[t].outcome = tasks[t].outcome /\ tasks[t].pc = "queued"
        /\ tasks'[t].target \in Servers \cup Links /\ Carried(t, tasks'[t].target)
    BY <1>2, AcceptStep DEF OnlyTask, SameTask
  <2>2. Progress(t)
    BY TaskFacts
  <2>3. QED
    BY <2>1, <2>2, CarriedFacts DEF Progress, Taken
<1>6. QED
  BY <1>2, <1>4, <1>5, AcceptStep, ShapeKept

LEMMA RunTypes ==
  ASSUME TypeInv, NEW t \in Tasks, Run(t)
  PROVE  TypeInv'
<1>0. /\ StoreTypeOK /\ TasksOK /\ ServerTypeOK /\ FetchTypeOK /\ gens \in [Servers -> Nat]
      /\ idMap \in [Temps -> Servers \cup {None}] /\ seen \in [Servers -> Reading]
      /\ Shape(t) /\ Progress(t)
  BY TypeParts, TaskFacts
<1>01. UNCHANGED store => StoreTypeOK'
  BY <1>0 DEF store, StoreTypeOK
<1>02. UNCHANGED server => ServerTypeOK'
  BY <1>0 DEF server, ServerTypeOK
<1>03. UNCHANGED fetches /\ OnlyTask(t) => FetchTypeOK'
  BY <1>0 DEF FetchTypeOK, OnlyTask
<1>1. CASE Accept(t)
  <2>1. ServerTypeOK' /\ TasksOK' /\ OnlyTask(t)
    BY <1>1, AcceptTypes, AcceptStep DEF ServerTypeOK
  <2>2. QED
    BY <1>0, <1>01, <1>03, <1>1, <2>1, TypePartsNext DEF Accept
<1>2. CASE Refuse(t) \/ LoseAnswer(t)
  <2>1. OnlyTask(t) /\ Undo(t) /\ tasks' \in Seq(Task)
    BY <1>2, FailStep
  <2>2. Progress(t)'
    BY <1>0, <1>2, FailStep DEF Progress, Taken, OnlyTask, SameTask
  <2>3. TasksOK' /\ StoreTypeOK'
    BY <2>1, <2>2, ShapeKept, UndoTypes
  <2>4. QED
    BY <1>0, <1>02, <1>03, <1>2, <2>1, <2>3, TypePartsNext DEF Refuse, LoseAnswer
<1>3. CASE Claim(t)
  <2>1. OnlyTask(t) /\ tasks' \in Seq(Task)
    BY <1>3, ClaimStep
  <2>2. Progress(t)'
    BY <1>0, <1>3, ClaimStep DEF Progress, Taken, OnlyTask, SameTask
  <2>3. TasksOK'
    BY <2>1, <2>2, ShapeKept
  <2>4. seen' \in [Servers -> Reading]
    BY <1>3, ReadRowFacts DEF Claim
  <2>5. QED
    BY <1>0, <1>01, <1>02, <1>03, <1>3, <2>1, <2>3, <2>4, TypePartsNext DEF Claim
<1>4. CASE Ending(t)
  <2>1. OnlyTask(t) /\ tasks' \in Seq(Task)
    BY <1>4, EndStep
  <2>2. Progress(t)'
    <3>1. /\ tasks'[t].pc = "done" /\ tasks'[t].outcome \in {"synced", "pending"}
          /\ tasks[t].pc \in {"accepted", "claimed", "related"}
          /\ tasks'[t].op = tasks[t].op /\ tasks'[t].rel = tasks[t].rel
          /\ tasks'[t].target = tasks[t].target /\ tasks'[t].row = tasks[t].row
          /\ tasks[t].op = "update" /\ tasks'[t].outcome = "synced" => tasks[t].pc = "related"
      BY <1>4, EndStep DEF OnlyTask, SameTask, SameAnswer
    <3>2. Taken(t)
      BY <1>0, <3>1 DEF Taken, Progress
    <3>3. QED
      BY <1>0, <3>1, <3>2 DEF Progress, Taken
  <2>3. TasksOK'
    BY <2>1, <2>2, ShapeKept
  <2>4. CASE ObjectCreated(t)
    <3>1. /\ tasks[t].op = "create" /\ tasks[t].pc = "claimed"
          /\ ReconcileObjectId(tasks[t].id, tasks[t].target, tasks[t].row)
          /\ idMap' = [idMap EXCEPT ![tasks[t].id] = tasks[t].target]
      BY <2>4 DEF ObjectCreated
    <3>2. /\ tasks[t].id \in Temps /\ tasks[t].target \in Servers /\ tasks[t].row \in DataObject
      BY <1>0, <3>1, TaskFacts DEF Shape, Progress, Taken, Writes
    <3>3. StoreTypeOK'
      BY <1>0, <3>1, <3>2, ReconcileIdStep, IdsApart DEF Ids
    <3>4. idMap' \in [Temps -> Servers \cup {None}]
      BY <1>0, <3>1, <3>2
    <3>5. QED
      BY <1>0, <1>02, <1>03, <2>1, <2>3, <2>4, <3>3, <3>4, TypePartsNext DEF ObjectCreated
  <2>5. CASE GiveUpClaim(t) \/ Finish(t)
    BY <1>0, <1>01, <1>02, <1>03, <2>1, <2>3, <2>5, TypePartsNext DEF GiveUpClaim, Finish
  <2>6. QED
    BY <1>4, <2>4, <2>5 DEF Ending
<1>5. CASE Moving(t)
  <2>1. OnlyTask(t) /\ tasks' \in Seq(Task)
    BY <1>5, MoveStep
  <2>2. Progress(t)'
    <3>1. /\ tasks[t].outcome = tasks'[t].outcome /\ tasks'[t].pc \in {"endpoints", "related"}
          /\ tasks'[t].op = tasks[t].op /\ tasks'[t].rel = tasks[t].rel
          /\ tasks'[t].target = tasks[t].target /\ tasks'[t].row = tasks[t].row
          /\ \/ tasks[t].pc = "claimed" /\ tasks[t].op = "update" /\ tasks'[t].pc = "related"
             \/ tasks[t].pc = "accepted" /\ tasks[t].op \in {"relate", "unlink", "delete"}
                /\ tasks'[t].pc = "endpoints"
             \/ tasks[t].pc = "endpoints" /\ tasks'[t].pc = "related"
      BY <1>5, MoveStep DEF OnlyTask, SameTask, SameAnswer, Moving
    <3>2. QED
      BY <1>0, <3>1 DEF Progress, Taken
  <2>3. TasksOK' /\ Tasks' = Tasks
    BY <2>1, <2>2, ShapeKept DEF OnlyTask
  <2>4. CASE FieldWritten(t)
    <3>1. tasks[t].pc = "claimed" /\ tasks[t].op = "update"
          /\ ReconcileObject(tasks[t].target, tasks[t].row)
          /\ StartFetches(t, Related(tasks[t].target))
      BY <2>4 DEF FieldWritten
    <3>2. tasks[t].target \in Servers /\ tasks[t].row \in DataObject /\ tasks[t].target \in Ids
      BY <1>0, <3>1, TaskFacts DEF Progress, Taken, Writes, Ids
    <3>3. StoreTypeOK'
      BY <1>0, <3>1, <3>2, ReconcileObjectStep
    <3>4. Related(tasks[t].target) \in SUBSET Ids
      BY <3>2, RelatedFacts
    <3>5. gens' \in [Servers -> Nat] /\ FetchTypeOK'
      BY <2>3, <3>1, <3>4, StartTypes
    <3>6. QED
      BY <1>0, <1>02, <2>3, <2>4, <3>3, <3>5, TypePartsNext DEF FieldWritten
  <2>5. CASE RelationWritten(t)
    <3>1. StartFetches(t, {Resolve(o) : o \in Endpoints(t)})
          /\ tasks[t].op \in {"relate", "unlink", "delete"}
      BY <2>5 DEF RelationWritten
    <3>2. {Resolve(o) : o \in Endpoints(t)} \in SUBSET Ids
      BY <3>1, EndpointsFacts, ResolveFacts
    <3>3. gens' \in [Servers -> Nat] /\ FetchTypeOK'
      BY <2>3, <3>1, <3>2, StartTypes
    <3>4. QED
      BY <1>0, <1>02, <2>3, <2>5, <3>3, WrittenTypes, TypePartsNext DEF RelationWritten
  <2>6. CASE RefreshRelated(t)
    <3>1. StartFetches(t, UNION {Related(o) : o \in Endpoints(t)})
          /\ tasks[t].op \in {"relate", "unlink", "delete"}
      BY <1>0, <2>6 DEF RefreshRelated, Progress
    <3>2. UNION {Related(o) : o \in Endpoints(t)} \in SUBSET Ids
      BY <3>1, EndpointsFacts, RelatedFacts
    <3>3. gens' \in [Servers -> Nat] /\ FetchTypeOK'
      BY <2>3, <3>1, <3>2, StartTypes
    <3>4. QED
      BY <1>0, <1>01, <1>02, <2>3, <2>6, <3>3, TypePartsNext DEF RefreshRelated
  <2>7. QED
    BY <1>5, <2>4, <2>5, <2>6 DEF Moving
<1>6. QED
  BY <1>1, <1>2, <1>3, <1>4, <1>5 DEF Run, Ending, Moving

LEMMA UserTypes ==
  ASSUME TypeInv, User
  PROVE  TypeInv'
<1>0. /\ StoreTypeOK /\ TasksOK /\ ServerTypeOK /\ FetchTypeOK /\ gens \in [Servers -> Nat]
      /\ idMap \in [Temps -> Servers \cup {None}] /\ seen \in [Servers -> Reading]
  BY TypeParts
<1>1. ASSUME StoreTypeOK', TasksOK', Tasks \subseteq Tasks',
             UNCHANGED << idMap, gens, fetches, server, seen >>
      PROVE  TypeInv'
  <2>1. FetchTypeOK' /\ ServerTypeOK'
    BY <1>0, <1>1 DEF FetchTypeOK, ServerTypeOK, server
  <2>2. QED
    BY <1>0, <1>1, <2>1, TypePartsNext
<1>2. CASE \E o \in Ids, f \in Fields, v \in {0, Len(tasks) + 1} : EditField(o, f, v)
  <2>1. PICK o \in Ids, f \in Fields, v \in {0, New} : EditField(o, f, v)
    BY <1>2 DEF New
  <2> DEFINE d == [Blank EXCEPT !.op = "update", !.id = o, !.f = f, !.v = v,
                                !.expected = objects[o].version, !.prev = objects[o]]
  <2>2. PICK k : k = New
    OBVIOUS
  <2>3. Enqueue(d, {o}) /\ {o} \in SUBSET (Ids \cup RelIds) /\ UpdateField(o, f, v)
    BY <2>1 DEF EditField
  <2> HIDE DEF d
  <2>8. k \in Values \ OtherValues /\ v \in Values
    BY <2>2, <2>3, EnqueueStep, IdsApart
  <2>4. tasks'[k] \in Task /\ Fresh(tasks'[k]) /\ Shape(k)'
    BY <2>1, <2>2, <2>8, EditStep DEF Shape, Writes
  <2>5. TasksOK' /\ Tasks \subseteq Tasks' /\ UNCHANGED << idMap, gens, fetches, server, seen >>
    BY <2>2, <2>3, <2>4, NewShape, EnqueueStep
  <2>6. StoreTypeOK'
    BY <1>0, <2>3, <2>8, UpdateFieldStep
  <2>7. QED
    BY <1>1, <2>5, <2>6
<1>3. CASE \E n \in Temps : AddObject(n)
  <2>1. PICK n \in Temps : AddObject(n)
    BY <1>3
  <2> DEFINE d == [Blank EXCEPT !.op = "create", !.id = n, !.v = New]
  <2>2. PICK k : k = New
    OBVIOUS
  <2>3. Enqueue(d, {n}) /\ {n} \in SUBSET (Ids \cup RelIds) /\ n \in Ids
        /\ CreateObject(n, [f \in Fields |-> New])
    BY <2>1 DEF AddObject, Ids, New
  <2> HIDE DEF d
  <2>4. tasks'[k] \in Task /\ Fresh(tasks'[k]) /\ Shape(k)' /\ New \in Values
    BY <2>1, <2>2, <2>3, AddStep, EnqueueStep DEF Shape, Writes
  <2>5. TasksOK' /\ Tasks \subseteq Tasks' /\ UNCHANGED << idMap, gens, fetches, server, seen >>
    BY <2>2, <2>3, <2>4, NewShape, EnqueueStep
  <2>6. [f \in Fields |-> New] \in [Fields -> Values]
    BY <2>4
  <2>7. StoreTypeOK'
    BY <1>0, <2>3, <2>6, CreateObjectStep
  <2>8. QED
    BY <1>1, <2>5, <2>7
<1>4. CASE \E o \in Ids : RemoveObject(o)
  <2>1. PICK o \in Ids : RemoveObject(o)
    BY <1>4
  <2> DEFINE d == [Blank EXCEPT !.op = "delete", !.id = o, !.expected = objects[o].version,
                                !.prev = Snapshot(o)]
  <2>2. PICK k : k = New
    OBVIOUS
  <2>3. Enqueue(d, {o}) /\ {o} \in SUBSET (Ids \cup RelIds) /\ DeleteObject(o)
    BY <2>1 DEF RemoveObject
  <2> HIDE DEF d
  <2>4. tasks'[k] \in Task /\ Fresh(tasks'[k]) /\ Shape(k)'
    BY <2>1, <2>2, <2>3, RemoveStep, EnqueueStep DEF Shape, Writes
  <2>5. TasksOK' /\ Tasks \subseteq Tasks' /\ UNCHANGED << idMap, gens, fetches, server, seen >>
    BY <2>2, <2>3, <2>4, NewShape, EnqueueStep
  <2>6. StoreTypeOK'
    BY <1>0, <2>3, DeleteObjectStep
  <2>7. QED
    BY <1>1, <2>5, <2>6
<1>5. CASE \E m \in TempLinks, a, b \in Ids : Relate(m, a, b)
  <2>1. PICK m \in TempLinks, a \in Ids, b \in Ids : Relate(m, a, b)
    BY <1>5
  <2> DEFINE d == [Blank EXCEPT !.op = "relate", !.rel = m, !.src = a, !.tgt = b]
  <2>2. PICK k : k = New
    OBVIOUS
  <2>3. Enqueue(d, {a, b, m}) /\ {a, b, m} \in SUBSET (Ids \cup RelIds) /\ m \in RelIds
        /\ CreateRelation(m, a, b)
    BY <2>1 DEF Relate, RelIds
  <2> HIDE DEF d
  <2>4. tasks'[k] \in Task /\ Fresh(tasks'[k]) /\ Shape(k)'
    BY <2>1, <2>2, <2>3, RelateStep, EnqueueStep DEF Shape, Writes
  <2>5. TasksOK' /\ Tasks \subseteq Tasks' /\ UNCHANGED << idMap, gens, fetches, server, seen >>
    BY <2>2, <2>3, <2>4, NewShape, EnqueueStep
  <2>6. StoreTypeOK'
    BY <1>0, <2>3, CreateRelationStep
  <2>7. QED
    BY <1>1, <2>5, <2>6
<1>6. CASE \E r \in RelIds : Unrelate(r)
  <2>1. PICK r \in RelIds : Unrelate(r)
    BY <1>6
  <2> DEFINE d == [Blank EXCEPT !.op = "unlink", !.rel = r, !.expected = relations[r].version,
                                !.prev = relations[r]]
  <2>2. PICK k : k = New
    OBVIOUS
  <2>3. Enqueue(d, {r}) /\ {r} \in SUBSET (Ids \cup RelIds) /\ UnlinkRelation(r)
    BY <2>1 DEF Unrelate
  <2> HIDE DEF d
  <2>4. tasks'[k] \in Task /\ Fresh(tasks'[k]) /\ Shape(k)'
    BY <2>1, <2>2, <2>3, UnrelateStep, EnqueueStep DEF Shape, Writes
  <2>5. TasksOK' /\ Tasks \subseteq Tasks' /\ UNCHANGED << idMap, gens, fetches, server, seen >>
    BY <2>2, <2>3, <2>4, NewShape, EnqueueStep
  <2>6. StoreTypeOK'
    BY <1>0, <2>3, UnlinkRelationStep
  <2>7. QED
    BY <1>1, <2>5, <2>6
<1>7. QED
  BY <1>2, <1>3, <1>4, <1>5, <1>6 DEF User

LEMMA OtherTypes ==
  ASSUME TypeInv, NEW o \in Loaded, NEW f \in Fields, NEW w \in OtherValues, OtherUpdate(o, f, w)
  PROVE  TypeInv'
<1>0. /\ StoreTypeOK /\ TasksOK /\ ServerTypeOK /\ FetchTypeOK /\ gens \in [Servers -> Nat]
      /\ idMap \in [Temps -> Servers \cup {None}] /\ seen \in [Servers -> Reading]
  BY TypeParts
<1>1. ServerTypeOK'
  BY <1>0, OtherUpdateStep DEF ServerTypeOK, OtherUpdate, Written, Grown
<1>2. UNCHANGED << store, tasks, idMap, gens, fetches, seen >>
  BY DEF OtherUpdate
<1>3. TasksOK' /\ Tasks' = Tasks
  BY <1>2, TasksUnchanged
<1>4. StoreTypeOK' /\ FetchTypeOK'
  BY <1>0, <1>2, <1>3 DEF store, StoreTypeOK, FetchTypeOK
<1>5. QED
  BY <1>0, <1>1, <1>2, <1>3, <1>4, TypePartsNext

LEMMA FetchRowTypes ==
  ASSUME TypeInv, NEW x \in fetches, FetchRow(x)
  PROVE  TypeInv'
<1>0. /\ StoreTypeOK /\ TasksOK /\ ServerTypeOK /\ FetchTypeOK /\ gens \in [Servers -> Nat]
      /\ idMap \in [Temps -> Servers \cup {None}] /\ seen \in [Servers -> Reading]
  BY TypeParts
<1>1. PICK i \in Steps, j \in [Fields -> Steps] :
        /\ ReadRow(x.obj, i, j)
        /\ fetches' = (fetches \ {x}) \cup {[x EXCEPT !.row = RowAt(x.obj, i, j)]}
  BY DEF FetchRow
<1>2. UNCHANGED << store, tasks, idMap, gens, server >>
  BY DEF FetchRow
<1>3. seen' \in [Servers -> Reading] /\ RowAt(x.obj, i, j) \in DataObject /\ x.obj \in Servers
  BY <1>1, ReadRowFacts
<1>4. TasksOK' /\ Tasks' = Tasks
  BY <1>2, TasksUnchanged
<1>5. FetchTypeOK'
  <2> DEFINE row == RowAt(x.obj, i, j)
             y == [x EXCEPT !.row = row]
  <2> HIDE DEF row
  <2>1. y.task = x.task /\ y.obj = x.obj /\ y.gen = x.gen /\ (y.row = row \/ y.row = x.row)
    OBVIOUS
  <2> HIDE DEF y
  <2>2. fetches' = (fetches \ {x}) \cup {y}
    BY <1>1 DEF y, row
  <2>3. QED
    BY <1>0, <1>3, <1>4, <2>1, <2>2 DEF FetchTypeOK, row
<1>6. StoreTypeOK' /\ ServerTypeOK'
  BY <1>0, <1>2 DEF store, StoreTypeOK, server, ServerTypeOK
<1>7. QED
  BY <1>0, <1>2, <1>3, <1>4, <1>5, <1>6, TypePartsNext

LEMMA ShowRowTypes ==
  ASSUME TypeInv, NEW x \in fetches, ShowRow(x)
  PROVE  TypeInv'
<1>0. /\ StoreTypeOK /\ TasksOK /\ ServerTypeOK /\ FetchTypeOK /\ gens \in [Servers -> Nat]
      /\ idMap \in [Temps -> Servers \cup {None}] /\ seen \in [Servers -> Reading]
  BY TypeParts
<1>1. UNCHANGED << tasks, idMap, gens, server, seen >> /\ fetches' = fetches \ {x}
  BY DEF ShowRow
<1>2. TasksOK' /\ Tasks' = Tasks
  BY <1>1, TasksUnchanged
<1>3. x.row \in DataObject /\ x.obj \in Ids
  BY <1>0 DEF ShowRow, FetchTypeOK
<1>4. StoreTypeOK'
  BY <1>0, <1>3, ReconcileObjectStep DEF ShowRow, store, StoreTypeOK
<1>5. FetchTypeOK' /\ ServerTypeOK'
  BY <1>0, <1>1, <1>2 DEF FetchTypeOK, server, ServerTypeOK
<1>6. QED
  BY <1>0, <1>1, <1>2, <1>4, <1>5, TypePartsNext

LEMMA FetchFailsTypes ==
  ASSUME TypeInv, NEW x \in fetches, FetchFails(x)
  PROVE  TypeInv'
<1>0. /\ StoreTypeOK /\ TasksOK /\ ServerTypeOK /\ FetchTypeOK /\ gens \in [Servers -> Nat]
      /\ idMap \in [Temps -> Servers \cup {None}] /\ seen \in [Servers -> Reading]
  BY TypeParts
<1>1. UNCHANGED << store, idMap, gens, server, seen >>
  BY DEF FetchFails
<1>2. TasksOK' /\ Tasks' = Tasks
  <2>1. CASE UNCHANGED tasks
    BY <2>1, TasksUnchanged
  <2>2. CASE x.task \in Tasks /\ tasks' = [tasks EXCEPT ![x.task].stale = TRUE]
    <3>1. PICK t \in Tasks : tasks' = [tasks EXCEPT ![t].stale = TRUE]
      BY <2>2
    <3>2. OnlyTask(t) /\ tasks' \in Seq(Task) /\ SameAnswer(tasks[t], tasks'[t])
          /\ tasks'[t].pc = tasks[t].pc /\ tasks'[t].outcome = tasks[t].outcome
      BY <3>1, StaleStep
    <3>3. Progress(t)'
      BY <3>2, TaskFacts DEF Progress, Taken, SameAnswer, OnlyTask, SameTask
    <3>4. QED
      BY <3>2, <3>3, ShapeKept DEF OnlyTask
  <2>3. QED
    BY <2>1, <2>2, FetchFailsTasks
<1>3. FetchTypeOK'
  <2>1. \A y \in fetches' :
          \/ y \in fetches
          \/ \E z \in fetches : y = [z EXCEPT !.task = 0]
    BY DEF FetchFails
  <2>2. ASSUME NEW y \in fetches', y \notin fetches
        PROVE  \E z \in fetches : /\ y.task = 0 \/ y.task = z.task
                                  /\ y.obj = z.obj /\ y.gen = z.gen /\ y.row = z.row
    <3>1. PICK z \in fetches : y = [z EXCEPT !.task = 0]
      BY <2>1, <2>2
    <3>2. (y.task = 0 \/ y.task = z.task) /\ y.obj = z.obj /\ y.gen = z.gen /\ y.row = z.row
      BY <3>1
    <3>3. QED
      BY <3>2
  <2>3. QED
    BY <1>0, <1>2, <2>2 DEF FetchTypeOK
<1>4. StoreTypeOK' /\ ServerTypeOK'
  BY <1>0, <1>1 DEF store, StoreTypeOK, server, ServerTypeOK
<1>5. QED
  BY <1>0, <1>1, <1>2, <1>3, <1>4, TypePartsNext

LEMMA StutterTypes ==
  ASSUME TypeInv, UNCHANGED vars
  PROVE  TypeInv'
<1>1. tasks' = tasks
  BY DEF vars
<1>2. TasksOK' /\ Tasks' = Tasks
  BY <1>1, TasksUnchanged
<1>3. QED
  BY <1>2, TypeParts, TypePartsNext
  DEF vars, store, server, StoreTypeOK, ServerTypeOK, FetchTypeOK

LEMMA NextTypes ==
  ASSUME TypeInv, [Next]_vars
  PROVE  TypeInv'
BY UserTypes, OtherTypes, RunTypes, FetchRowTypes, ShowRowTypes, FetchFailsTypes, StutterTypes
DEF Next, Refresh

LEMMA InitTypes == Init => TypeInv
<1> SUFFICES ASSUME Init
             PROVE  TypeInv
  OBVIOUS
<1>1. Initial \in DataObject
  BY IdsApart DEF Initial, DataObject
<1>2. StoreTypeOK
  BY <1>1 DEF Init, StoreTypeOK
<1>3. tasks = << >> /\ Tasks = {} /\ tasks \in Seq(Task) /\ fetches = {}
  BY DEF Init, Tasks
<1>4. ServerTypeOK
  BY <1>1 DEF Init, ServerTypeOK
<1>5. seen \in [Servers -> Reading]
  BY DEF Init, Reading
<1>6. gens \in [Servers -> Nat] /\ idMap \in [Temps -> Servers \cup {None}]
  BY DEF Init
<1>7. QED
  BY <1>2, <1>3, <1>4, <1>5, <1>6, TypeParts DEF TasksOK, FetchTypeOK

(***************************************************************************)
(* Every reachable state holds values of the declared types, and the tasks *)
(* are what their kind and their progress say (the write descriptors and   *)
(* the queue of write-bridge.ts).                                          *)
(***************************************************************************)
THEOREM WriteBridgeTypeOK == Spec => []TypeOK
<1>1. TypeInv /\ [Next]_vars => TypeInv'
  BY NextTypes
<1>2. TypeInv => TypeOK
  BY DEF TypeInv
<1>3. QED
  BY <1>1, <1>2, InitTypes, PTL DEF Spec

-----------------------------------------------------------------------------
(* What every step leaves a task.                                          *)

Carries(d, e) ==
  /\ SameTask(d, e)
  /\ d.outcome # "none" => e.outcome = d.outcome
  /\ d.pc = "done" => e.pc = "done"
  /\ e.pc = "queued" => d.pc = "queued"
  /\ d.target # None => e.target = d.target /\ e.at = d.at
  /\ d.row # None => e.row = d.row
  /\ d.pc # "queued" => e.sent = d.sent

LEMMA CarriesSelf == \A d : Carries(d, d)
BY DEF Carries, SameTask

LEMMA RunCarries ==
  ASSUME TypeInv, NEW t \in Tasks, Run(t)
  PROVE  OnlyTask(t) /\ Carries(tasks[t], tasks'[t]) /\ tasks[t].pc # "done"
<1>0. Progress(t) /\ Shape(t)
  BY TaskFacts
<1>1. CASE Accept(t)
  <2>1. kernel' \in [Servers -> Seq(DataObject)]
    BY <1>1, AcceptTypes DEF ServerTypeOK
  <2>2. QED
    BY <1>0, <1>1, <2>1, AcceptStep DEF Carries, Progress, OnlyTask
<1>2. CASE Refuse(t) \/ LoseAnswer(t)
  BY <1>0, <1>2, FailStep DEF Carries, Progress, OnlyTask
<1>3. CASE Claim(t)
  BY <1>0, <1>3, ClaimStep DEF Carries, Progress, OnlyTask
<1>4. CASE Ending(t)
  BY <1>0, <1>4, EndStep DEF Carries, Progress, OnlyTask, SameAnswer
<1>5. CASE Moving(t)
  BY <1>0, <1>5, MoveStep DEF Carries, Progress, OnlyTask, SameAnswer
<1>6. QED
  BY <1>1, <1>2, <1>3, <1>4, <1>5 DEF Run, Ending, Moving

(* The steps of a user, taken together.                                    *)
UserAdds(e) ==
  \/ \E o \in Ids, f \in Fields, v \in {0, New} :
       /\ EditField(o, f, v) /\ Shown(o) /\ e.op = "update" /\ e.id = o /\ e.f = f /\ e.v = v
       /\ e.expected = objects[o].version /\ e.keys = {Resolve(o)}
       /\ e.src = None /\ e.tgt = None
  \/ \E n \in Temps :
       /\ AddObject(n) /\ e.op = "create" /\ e.id = n /\ e.v = New /\ e.keys = {Resolve(n)}
       /\ e.src = None /\ e.tgt = None
  \/ \E o \in Ids :
       /\ RemoveObject(o) /\ Shown(o) /\ e.op = "delete" /\ e.id = o /\ e.prev = Snapshot(o)
       /\ e.keys = {Resolve(o)} /\ e.src = None /\ e.tgt = None
  \/ \E m \in TempLinks, a, b \in Ids :
       /\ Relate(m, a, b) /\ Shown(a) /\ Shown(b) /\ e.op = "relate" /\ e.id = None
       /\ e.rel = m /\ e.src = a /\ e.tgt = b /\ e.keys = {Resolve(a), Resolve(b), Resolve(m)}
  \/ \E r \in RelIds :
       /\ Unrelate(r) /\ Present(r) /\ e.op = "unlink" /\ e.id = None /\ e.rel = r
       /\ e.prev = relations[r] /\ e.keys = {Resolve(r)} /\ e.src = None /\ e.tgt = None

LEMMA UserStep ==
  ASSUME TypeInv, User
  PROVE  /\ Tasks' = Tasks \cup {New} /\ New \notin Tasks /\ New \in Nat \ {0}
         /\ New \in Values \ OtherValues
         /\ \A t \in Tasks : t < New /\ tasks'[t] = tasks[t]
         /\ Fresh(tasks'[New]) /\ UserAdds(tasks'[New])
         /\ UNCHANGED << idMap, gens, fetches, server, seen >>
<1>1. ASSUME NEW d, NEW ids \in SUBSET (Ids \cup RelIds), Enqueue(d, ids)
      PROVE  /\ Tasks' = Tasks \cup {New} /\ New \notin Tasks /\ New \in Nat \ {0}
             /\ New \in Values \ OtherValues
             /\ \A t \in Tasks : t < New /\ tasks'[t] = tasks[t]
             /\ UNCHANGED << idMap, gens, fetches, server, seen >>
  BY <1>1, EnqueueStep
<1>2. CASE \E o \in Ids, f \in Fields, v \in {0, Len(tasks) + 1} : EditField(o, f, v)
  <2>1. PICK o \in Ids, f \in Fields, v \in {0, New} : EditField(o, f, v)
    BY <1>2 DEF New
  <2>2. Fresh(tasks'[New]) /\ UserAdds(tasks'[New])
    BY <2>1, EditStep DEF UserAdds
  <2>3. {o} \in SUBSET (Ids \cup RelIds)
    OBVIOUS
  <2>4. QED
    BY <1>1, <2>1, <2>2, <2>3 DEF EditField
<1>3. CASE \E n \in Temps : AddObject(n)
  <2>1. PICK n \in Temps : AddObject(n)
    BY <1>3
  <2>2. Fresh(tasks'[New]) /\ UserAdds(tasks'[New])
    BY <2>1, AddStep DEF UserAdds
  <2>3. {n} \in SUBSET (Ids \cup RelIds)
    BY DEF Ids
  <2>4. QED
    BY <1>1, <2>1, <2>2, <2>3 DEF AddObject
<1>4. CASE \E o \in Ids : RemoveObject(o)
  <2>1. PICK o \in Ids : RemoveObject(o)
    BY <1>4
  <2>2. Fresh(tasks'[New]) /\ UserAdds(tasks'[New])
    BY <2>1, RemoveStep DEF UserAdds
  <2>3. {o} \in SUBSET (Ids \cup RelIds)
    OBVIOUS
  <2>4. QED
    BY <1>1, <2>1, <2>2, <2>3 DEF RemoveObject
<1>5. CASE \E m \in TempLinks, a, b \in Ids : Relate(m, a, b)
  <2>1. PICK m \in TempLinks, a \in Ids, b \in Ids : Relate(m, a, b)
    BY <1>5
  <2>2. Fresh(tasks'[New]) /\ UserAdds(tasks'[New])
    BY <2>1, RelateStep DEF UserAdds
  <2>3. {a, b, m} \in SUBSET (Ids \cup RelIds)
    BY DEF RelIds
  <2>4. QED
    BY <1>1, <2>1, <2>2, <2>3 DEF Relate
<1>6. CASE \E r \in RelIds : Unrelate(r)
  <2>1. PICK r \in RelIds : Unrelate(r)
    BY <1>6
  <2>2. Fresh(tasks'[New]) /\ UserAdds(tasks'[New])
    BY <2>1, UnrelateStep DEF UserAdds
  <2>3. {r} \in SUBSET (Ids \cup RelIds)
    OBVIOUS
  <2>4. QED
    BY <1>1, <2>1, <2>2, <2>3 DEF Unrelate
<1>7. QED
  BY <1>2, <1>3, <1>4, <1>5, <1>6 DEF User

(* The other steps: tasks stay, at most the news of a failed read is new.  *)
Quiet ==
  \/ \E o \in Loaded, f \in Fields, w \in OtherValues : OtherUpdate(o, f, w)
  \/ Refresh
  \/ UNCHANGED vars

LEMMA StepKinds ==
  ASSUME [Next]_vars
  PROVE  User \/ (\E t \in Tasks : Run(t)) \/ Quiet
BY DEF Next, Quiet

LEMMA QuietTasks ==
  ASSUME TypeInv, Quiet
  PROVE  /\ Tasks' = Tasks /\ idMap' = idMap
         /\ \A t \in Tasks : /\ SameTask(tasks[t], tasks'[t]) /\ SameAnswer(tasks[t], tasks'[t])
                             /\ tasks'[t].pc = tasks[t].pc /\ tasks'[t].outcome = tasks[t].outcome
<1>1. CASE UNCHANGED tasks /\ idMap' = idMap
  BY <1>1 DEF Tasks, SameTask, SameAnswer
<1>2. CASE \E x \in fetches : FetchFails(x)
  <2>1. PICK x \in fetches : FetchFails(x)
    BY <1>2
  <2>2. idMap' = idMap
    BY <2>1 DEF FetchFails
  <2>3. CASE UNCHANGED tasks
    BY <1>1, <2>2, <2>3
  <2>4. CASE x.task \in Tasks /\ tasks' = [tasks EXCEPT ![x.task].stale = TRUE]
    <3>1. PICK t \in Tasks : tasks' = [tasks EXCEPT ![t].stale = TRUE]
      BY <2>4
    <3>2. OnlyTask(t) /\ SameAnswer(tasks[t], tasks'[t])
          /\ tasks'[t].pc = tasks[t].pc /\ tasks'[t].outcome = tasks[t].outcome
      BY <3>1, StaleStep
    <3>3. ASSUME NEW s \in Tasks, s # t
          PROVE  tasks'[s] = tasks[s]
      BY <3>2, <3>3 DEF OnlyTask
    <3>4. Tasks' = Tasks /\ SameTask(tasks[t], tasks'[t])
      BY <3>2 DEF OnlyTask
    <3>5. \A d : SameTask(d, d) /\ SameAnswer(d, d)
      BY DEF SameTask, SameAnswer
    <3>6. QED
      BY <2>2, <3>2, <3>3, <3>4, <3>5
  <2>5. QED
    BY <2>1, <2>3, <2>4, FetchFailsTasks
<1>3. QED
  BY <1>1, <1>2 DEF Quiet, OtherUpdate, Refresh, FetchRow, ShowRow, vars

LEMMA TasksGo ==
  ASSUME TypeInv, [Next]_vars
  PROVE  /\ Tasks \subseteq Tasks'
         /\ \A t \in Tasks : Carries(tasks[t], tasks'[t])
         /\ \A t \in Tasks' : t \notin Tasks => User /\ t = New
<1>1. CASE User
  BY <1>1, UserStep, CarriesSelf
<1>2. CASE \E t \in Tasks : Run(t)
  <2>1. PICK t \in Tasks : Run(t)
    BY <1>2
  <2>2. OnlyTask(t) /\ Carries(tasks[t], tasks'[t])
    BY <2>1, RunCarries
  <2>3. QED
    BY <2>2, CarriesSelf DEF OnlyTask
<1>3. CASE Quiet
  BY <1>3, QuietTasks DEF Carries, SameAnswer
<1>4. QED
  BY <1>1, <1>2, <1>3, StepKinds

LEMMA IdMapGoes ==
  ASSUME TypeInv, [Next]_vars
  PROVE  idMap' = idMap \/ \E t \in Tasks : ObjectCreated(t)
<1>1. CASE User
  BY <1>1, UserStep
<1>2. CASE Quiet
  BY <1>2, QuietTasks
<1>3. CASE \E t \in Tasks : Run(t)
  BY <1>3 DEF Run, Accept, Refuse, LoseAnswer, Claim, GiveUpClaim, FieldWritten, RelationWritten,
     RefreshRelated, Finish
<1>4. QED
  BY <1>1, <1>2, <1>3, StepKinds

CreatedFacts(t) ==
  LET d == tasks[t] IN
  /\ d.op = "create" /\ d.pc = "claimed" /\ d.outcome = "none"
  /\ d.id \in Temps /\ d.id \in Ids /\ d.target \in Servers /\ d.target \in Ids
  /\ d.target # d.id /\ d.target # None /\ d.row \in DataObject
  /\ ReconcileObjectId(d.id, d.target, d.row)
  /\ idMap' = [idMap EXCEPT ![d.id] = d.target]
  /\ idMap'[d.id] = d.target
  /\ \A n \in Temps : n # d.id => idMap'[n] = idMap[n]
  /\ OnlyTask(t) /\ tasks'[t].pc = "done" /\ tasks'[t].outcome = "synced"
  /\ tasks'[t].target = d.target
  /\ UNCHANGED << gens, fetches, server, seen >>

LEMMA CreatedStep ==
  ASSUME TypeInv, NEW t \in Tasks, ObjectCreated(t)
  PROVE  CreatedFacts(t)
<1>1. /\ tasks[t].op = "create" /\ tasks[t].pc = "claimed"
      /\ ReconcileObjectId(tasks[t].id, tasks[t].target, tasks[t].row)
      /\ idMap' = [idMap EXCEPT ![tasks[t].id] = tasks[t].target]
      /\ UNCHANGED << gens, fetches, server, seen >>
  BY DEF ObjectCreated
<1>2. /\ tasks[t].id \in Temps /\ tasks[t].target \in Servers /\ tasks[t].row \in DataObject
      /\ tasks[t].outcome = "none" /\ tasks[t].target # None
  BY <1>1, TaskFacts DEF Shape, Progress, Taken, Writes, Outcomes
<1>3. tasks[t].id \in Ids /\ tasks[t].target \in Ids /\ tasks[t].target # tasks[t].id
  BY <1>2, IdsApart DEF Ids
<1>4. idMap \in [Temps -> Servers \cup {None}]
  BY DEF TypeInv, TypeOK
<1>5. /\ OnlyTask(t) /\ tasks'[t].pc = "done" /\ tasks'[t].outcome = "synced"
      /\ tasks'[t].target = tasks[t].target
  BY EndStep DEF Ending, SameAnswer
<1>6. idMap'[tasks[t].id] = tasks[t].target /\ \A n \in Temps : n # tasks[t].id => idMap'[n] = idMap[n]
  BY <1>1, <1>2, <1>4
<1>7. QED
  BY <1>1, <1>2, <1>3, <1>5, <1>6 DEF CreatedFacts

-----------------------------------------------------------------------------
(* Temporary ids.                                                          *)

Fails(t) == Refuse(t) \/ LoseAnswer(t)

(* The steps that bring an object to the screen.                           *)
Brings(p) ==
  \/ User /\ p \in Temps /\ AddObject(p)
  \/ \E t \in Tasks :
       /\ Fails(t) /\ p = Resolve(tasks[t].id)
       /\ \/ tasks[t].op = "update" /\ Shown(tasks[t].id)
          \/ tasks[t].op = "delete"
  \/ \E t \in Tasks : ObjectCreated(t) /\ p = tasks[t].target /\ Shown(tasks[t].id)

LEMMA RunAppears ==
  ASSUME TypeInv, NEW t \in Tasks, Run(t), NEW p \in Ids, ~Shown(p), Shown(p)'
  PROVE  Brings(p)
<1>0. StoreTypeOK /\ Progress(t) /\ Shape(t)
  BY TaskFacts DEF TypeInv, TypeOK
<1>1. CASE UNCHANGED objects
  BY <1>1 DEF Shown
<1>2. CASE Fails(t)
  <2>1. Undo(t)
    BY <1>2 DEF Fails, Refuse, LoseAnswer
  <2> DEFINE d == tasks[t]  o == Resolve(tasks[t].id)
  <2>2. CASE /\ d.op = "update" /\ RollbackField(o, d.prev, d.id)
             /\ o \in Ids /\ d.id \in Ids /\ d.prev \in DataObject
    BY <1>0, <1>2, <2>2, RollbackStep DEF Brings
  <2>3. CASE d.op = "create" /\ DeleteObject(d.id) /\ d.id \in Temps /\ d.id \in Ids
    BY <1>0, <2>3, DeleteObjectStep DEF Shown
  <2>4. CASE /\ d.op = "delete" /\ RestoreObject(o, d.prev, d.id)
             /\ o \in Ids /\ d.id \in Ids /\ d.prev \in Snapshots
    <3>1. p \in {o, d.id}
      BY <1>0, <2>4, RestoreStep DEF Shown
    <3>2. p = o
      BY <1>0, <2>4, <3>1, RestoreStep
    <3>3. QED
      BY <1>2, <2>4, <3>2 DEF Brings
  <2>5. CASE d.op = "relate" /\ RemoveRelation(d.rel) /\ d.rel \in RelIds
    BY <1>0, <1>1, <2>5, RemoveRelationStep
  <2>6. CASE /\ d.op = "unlink" /\ ReconcileRelation(d.rel, d.prev)
             /\ d.rel \in RelIds /\ d.prev \in DataRelation
    BY <1>0, <1>1, <2>6, ReconcileRelationStep
  <2>7. QED
    BY <2>1, <2>2, <2>3, <2>4, <2>5, <2>6, UndoKinds
<1>3. CASE ObjectCreated(t)
  <2>1. CreatedFacts(t)
    BY <1>3, CreatedStep
  <2>2. p = tasks[t].target
    BY <1>0, <2>1, ReconcileIdStep DEF CreatedFacts, Shown
  <2>3. Shown(tasks[t].id)
    BY <1>0, <2>1, <2>2, ReconcileIdStep DEF CreatedFacts
  <2>4. QED
    BY <1>3, <2>2, <2>3 DEF Brings
<1>4. CASE FieldWritten(t)
  <2>1. /\ tasks[t].target \in Ids /\ tasks[t].row \in DataObject
        /\ ReconcileObject(tasks[t].target, tasks[t].row)
    BY <1>0, <1>4, TaskFacts DEF FieldWritten, Progress, Writes, Ids
  <2>2. QED
    BY <1>0, <2>1, ReconcileObjectStep
<1>5. CASE RelationWritten(t)
  BY <1>0, <1>1, <1>5, WrittenKinds, ReconcileRelationIdStep, ReconcileRelationStep DEF store
<1>6. QED
  BY <1>1, <1>2, <1>3, <1>4, <1>5
  DEF Run, Fails, Accept, Claim, GiveUpClaim, RefreshRelated, Finish, store

LEMMA Appears ==
  ASSUME TypeInv, [Next]_vars, NEW p \in Ids, ~Shown(p), Shown(p)'
  PROVE  Brings(p)
<1>0. StoreTypeOK
  BY DEF TypeInv, TypeOK
<1>1. CASE UNCHANGED objects
  BY <1>1 DEF Shown
<1>2. CASE User
  <2>1. CASE \E o \in Ids, f \in Fields, v \in {0, Len(tasks) + 1} : EditField(o, f, v)
    <3>1. PICK o \in Ids, f \in Fields, v \in {0, New} : EditField(o, f, v)
      BY <2>1 DEF New
    <3>2. UpdateField(o, f, v) /\ v \in Values
      BY <1>2, <3>1, UserStep, IdsApart DEF EditField
    <3>3. QED
      BY <1>0, <3>2, UpdateFieldStep DEF Shown
  <2>2. CASE \E n \in Temps : AddObject(n)
    <3>1. PICK n \in Temps : AddObject(n)
      BY <2>2
    <3>2. CreateObject(n, [f \in Fields |-> New]) /\ [f \in Fields |-> New] \in [Fields -> Values]
      BY <1>2, <3>1, UserStep DEF AddObject, New
    <3>3. p = n
      BY <1>0, <3>2, CreateObjectStep DEF Shown, Ids
    <3>4. QED
      BY <1>2, <3>1, <3>3 DEF Brings
  <2>3. CASE \E o \in Ids : RemoveObject(o)
    BY <1>0, <2>3, DeleteObjectStep DEF RemoveObject, Shown
  <2>4. CASE (\E m \in TempLinks, a, b \in Ids : Relate(m, a, b)) \/ \E r \in RelIds : Unrelate(r)
    BY <1>1, <2>4 DEF Relate, CreateRelation, Unrelate, UnlinkRelation
  <2>5. QED
    BY <1>2, <2>1, <2>2, <2>3, <2>4 DEF User
<1>3. CASE \E t \in Tasks : Run(t)
  BY <1>3, RunAppears
<1>4. CASE \E x \in fetches : ShowRow(x)
  <2>1. PICK x \in fetches : ShowRow(x)
    BY <1>4
  <2>2. x.row \in DataObject /\ x.obj \in Ids
    BY <2>1 DEF ShowRow, TypeInv, TypeOK
  <2>3. QED
    BY <1>0, <1>1, <2>1, <2>2, ReconcileObjectStep DEF ShowRow, store
<1>5. QED
  BY <1>1, <1>2, <1>3, <1>4 DEF Next, Refresh, OtherUpdate, FetchRow, FetchFails, store, vars

(* A task that starts has waited for the earlier tasks of its keys.        *)
LEMMA Starts ==
  ASSUME TypeInv, [Next]_vars, NEW t \in Tasks, tasks[t].pc = "queued", tasks'[t].pc # "queued"
  PROVE  Run(t) /\ Ready(t) /\ tasks'[t].sent = SentIds(t)
<1>1. CASE User
  BY <1>1, UserStep
<1>2. CASE Quiet
  BY <1>2, QuietTasks
<1>3. ASSUME NEW s \in Tasks, Run(s)
      PROVE  Run(t) /\ Ready(t) /\ tasks'[t].sent = SentIds(t)
  <2>1. s = t
    BY <1>3, RunCarries DEF OnlyTask
  <2>2. Accept(t) \/ Refuse(t)
    <3>1. ~LoseAnswer(t) /\ ~Claim(t) /\ ~Ending(t) /\ ~Moving(t)
      BY EndStep, MoveStep DEF LoseAnswer, Claim
    <3>2. QED
      BY <1>3, <2>1, <3>1 DEF Run, Ending, Moving
  <2>3. CASE Accept(t)
    <3>1. kernel' \in [Servers -> Seq(DataObject)]
      BY <2>3, AcceptTypes DEF ServerTypeOK
    <3>2. QED
      BY <1>3, <2>1, <2>3, <3>1, AcceptStep
  <2>4. CASE Refuse(t)
    BY <1>3, <2>1, <2>4, FailStep
  <2>5. QED
    BY <2>2, <2>3, <2>4
<1>4. QED
  BY <1>1, <1>2, <1>3, StepKinds

(* A creation is synced by the step that makes its id known.               *)
LEMMA Synced ==
  ASSUME TypeInv, [Next]_vars, NEW t \in Tasks, tasks[t].op = "create",
         tasks[t].outcome # "synced", tasks'[t].outcome = "synced"
  PROVE  ObjectCreated(t)
<1>1. CASE User
  BY <1>1, UserStep
<1>2. CASE Quiet
  BY <1>2, QuietTasks
<1>3. ASSUME NEW s \in Tasks, Run(s)
      PROVE  ObjectCreated(t)
  <2>1. s = t
    BY <1>3, RunCarries DEF OnlyTask
  <2>2. ~Accept(t)
    <3>1. Accept(t) => kernel' \in [Servers -> Seq(DataObject)]
      BY AcceptTypes DEF ServerTypeOK
    <3>2. QED
      BY <3>1, AcceptStep
  <2>3. ~Refuse(t) /\ ~LoseAnswer(t)
    BY FailStep
  <2>4. ~Claim(t) /\ ~Moving(t)
    BY ClaimStep, MoveStep
  <2>5. QED
    BY <1>3, <2>1, <2>2, <2>3, <2>4, EndStep DEF Run, Ending, Moving
<1>4. QED
  BY <1>1, <1>2, <1>3, StepKinds

LEMMA IdMapGrows ==
  ASSUME TypeInv, [Next]_vars, NEW n \in Temps
  PROVE  /\ idMap[n] # None /\ IdInv => idMap'[n] = idMap[n]
         /\ idMap'[n] # idMap[n] =>
              \E t \in Tasks : ObjectCreated(t) /\ tasks[t].id = n /\ idMap'[n] = tasks[t].target
         /\ idMap[n] # None => idMap'[n] # None
<1>1. CASE idMap' = idMap
  BY <1>1
<1>2. CASE \E t \in Tasks : ObjectCreated(t)
  <2>1. PICK t \in Tasks : ObjectCreated(t)
    BY <1>2
  <2>2. CreatedFacts(t)
    BY <2>1, CreatedStep
  <2>3. IdInv /\ tasks[t].id = n => idMap[n] = None
    BY <2>2 DEF CreatedFacts, IdInv, IdsAreKnown, Creates
  <2>4. QED
    BY <2>1, <2>2, <2>3 DEF CreatedFacts
<1>3. QED
  BY <1>1, <1>2, IdMapGoes

(* Which task creates an object is settled with the task.                  *)
LEMMA CreatesStay ==
  ASSUME TypeInv, [Next]_vars, NEW t \in Tasks
  PROVE  /\ \A n : Creates(t, n)' <=> Creates(t, n)
         /\ Names(t)' = Names(t) /\ tasks'[t].keys = tasks[t].keys
BY TasksGo DEF Carries, SameTask, Creates, Names

(* A new task names what is shown, or the object it creates.               *)
LEMMA NewNames ==
  ASSUME TypeInv, User, NEW k, k = New, NEW n \in Ids, n \in Names(k)'
  PROVE  /\ Shown(n) \/ (n \in Temps /\ AddObject(n) /\ Creates(k, n)')
         /\ Resolve(n) \in tasks'[k].keys
<1>1. n \in {tasks'[k].id, tasks'[k].src, tasks'[k].tgt} /\ n # None
  BY IdsApart DEF Names, Ids
<1>2. UserAdds(tasks'[k])
  BY UserStep
<1>3. QED
  BY <1>1, <1>2 DEF UserAdds, Creates

LEMMA NewCreates ==
  ASSUME TypeInv, User, NEW k, k = New, NEW n, Creates(k, n)'
  PROVE  n \in Temps /\ AddObject(n) /\ \A t \in Tasks : ~Creates(t, n)
<1>1. UserAdds(tasks'[k]) /\ tasks'[k].op = "create" /\ tasks'[k].id = n
  BY UserStep DEF Creates
<1>2. n \in Temps /\ AddObject(n)
  BY <1>1 DEF UserAdds
<1>3. QED
  BY <1>2 DEF AddObject, Creates

(* A failed task shows an object whose temporary id is not known.          *)
LEMMA BroughtBack ==
  ASSUME TypeInv, NEW n \in Temps, Brings(n)
  PROVE  \/ User /\ AddObject(n)
         \/ \E t \in Tasks : tasks[t].id = n /\ n \in Names(t) /\ idMap[n] = None
<1>1. \A t \in Tasks : tasks[t].op \in Writes => tasks[t].id \in Ids
  BY TaskFacts DEF Shape
<1>2. \A t \in Tasks : ~(ObjectCreated(t) /\ n = tasks[t].target)
  BY CreatedStep, IdsApart DEF CreatedFacts
<1>3. \A t \in Tasks : tasks[t].op \in Writes /\ n = Resolve(tasks[t].id) =>
        tasks[t].id = n /\ n \in Names(t) /\ idMap[n] = None
  BY <1>1, ResolveFacts DEF Names
<1>4. QED
  BY <1>2, <1>3 DEF Brings, Writes

LEMMA TempsAreCreatedNext ==
  ASSUME TypeInv, TypeInv', IdInv, [Next]_vars
  PROVE  TempsAreCreated'
<1>0. TempsAreCreated /\ Tasks \subseteq Tasks' /\ \A t \in Tasks' : t \notin Tasks => User /\ t = New
  BY TasksGo DEF IdInv
<1>00. Tasks = 1 .. Len(tasks) /\ Len(tasks) \in Nat
  BY DEF TypeInv, TypeOK, Tasks
<1>1. ASSUME NEW t \in Tasks', NEW n \in Names(t)' \cap Temps
      PROVE  /\ \E c \in 1 .. t : Creates(c, n)'
             /\ n \in tasks'[t].keys \/ idMap'[n] # None
  <2>1. CASE t \in Tasks
    <3>1. n \in Names(t) /\ tasks'[t].keys = tasks[t].keys
      BY <1>1, <2>1, CreatesStay
    <3>2. PICK c \in 1 .. t : Creates(c, n)
      BY <1>0, <1>1, <2>1, <3>1 DEF TempsAreCreated
    <3>3. c \in Tasks
      BY <1>00, <2>1
    <3>4. Creates(c, n)'
      BY <3>2, <3>3, CreatesStay
    <3>5. n \in tasks[t].keys \/ idMap[n] # None
      BY <1>0, <1>1, <2>1, <3>1 DEF TempsAreCreated
    <3>6. QED
      BY <1>1, <3>1, <3>4, <3>5, IdMapGrows
  <2>2. CASE t \notin Tasks
    <3>1. User /\ t = New /\ idMap' = idMap
      BY <1>0, <2>2, UserStep
    <3>2. n \in Ids
      BY <1>1 DEF Names
    <3>3. n \in tasks'[t].keys \/ idMap'[n] # None
      BY <1>1, <3>1, <3>2, NewNames DEF Resolve
    <3>4. CASE Shown(n)
      <4>1. PICK c \in Tasks : Creates(c, n)
        BY <1>0, <1>1, <3>4 DEF TempsAreCreated
      <4>2. Creates(c, n)' /\ c \in 1 .. t
        BY <1>00, <3>1, <4>1, CreatesStay DEF New
      <4>3. QED
        BY <3>3, <4>2
    <3>5. CASE Creates(t, n)'
      BY <1>00, <3>1, <3>3, <3>5 DEF New
    <3>6. QED
      BY <1>1, <3>1, <3>2, <3>4, <3>5, NewNames
  <2>3. QED
    BY <2>1, <2>2
<1>2. ASSUME NEW t \in Tasks'
      PROVE  tasks'[t].sent \cap Temps \subseteq Names(t)'
  <2>1. CASE t \notin Tasks
    BY <1>0, <2>1, UserStep DEF Fresh
  <2>2. CASE t \in Tasks /\ tasks'[t].pc = "queued"
    <3>1. tasks'[t].sent = {}
      BY <2>2, <1>2 DEF TypeInv, Progress
    <3>2. QED
      BY <3>1
  <2>3. CASE t \in Tasks /\ tasks[t].pc # "queued"
    BY <1>0, <2>3, TasksGo, CreatesStay DEF Carries, TempsAreCreated
  <2>4. CASE t \in Tasks /\ tasks[t].pc = "queued" /\ tasks'[t].pc # "queued"
    <3>1. tasks'[t].sent = SentIds(t)
      BY <2>4, Starts
    <3>2. SentIds(t) \cap Temps \subseteq Names(t)
      BY <2>4, TaskFacts, ResolveFacts DEF SentIds, Names, Shape, Writes
    <3>3. QED
      BY <2>4, <3>1, <3>2, CreatesStay
  <2>5. QED
    BY <2>1, <2>2, <2>3, <2>4
<1>3. ASSUME NEW n \in Temps, Shown(n)' \/ idMap'[n] # None
      PROVE  \E c \in Tasks' : Creates(c, n)'
  <2>1. ASSUME NEW c \in Tasks, Creates(c, n)
        PROVE  \E d \in Tasks' : Creates(d, n)'
    BY <1>0, <2>1, CreatesStay
  <2>2. CASE Shown(n) \/ idMap[n] # None
    BY <1>0, <2>1, <2>2 DEF TempsAreCreated
  <2>3. CASE idMap'[n] # idMap[n]
    <3>1. PICK t \in Tasks : ObjectCreated(t) /\ tasks[t].id = n
      BY <2>3, IdMapGrows
    <3>2. QED
      BY <2>1, <3>1 DEF ObjectCreated, Creates
  <2>4. CASE ~Shown(n) /\ Shown(n)'
    <3>1. Brings(n)
      BY <2>4, Appears DEF Ids
    <3>2. CASE User /\ AddObject(n)
      <4>0. PICK k : k = New
        OBVIOUS
      <4>1. Creates(k, n)' /\ k \in Tasks'
        BY <3>2, <4>0, AddStep, UserStep DEF Creates
      <4>2. QED
        BY <4>1
    <3>3. CASE \E t \in Tasks : n \in Names(t)
      BY <1>0, <1>00, <2>1, <3>3 DEF TempsAreCreated
    <3>4. QED
      BY <3>1, <3>2, <3>3, BroughtBack
  <2>5. QED
    BY <1>3, <2>2, <2>3, <2>4
<1>4. ASSUME NEW n \in Temps, NEW c \in Tasks', NEW d \in Tasks', Creates(c, n)', Creates(d, n)'
      PROVE  c = d
  BY <1>0, <1>4, CreatesStay, NewCreates DEF TempsAreCreated
<1>5. QED
  BY <1>1, <1>2, <1>3, <1>4 DEF TempsAreCreated

LEMMA IdsAreKnownNext ==
  ASSUME TypeInv, TypeInv', IdInv, [Next]_vars
  PROVE  IdsAreKnown'
<1>0. TempsAreCreated /\ IdsAreKnown /\ Tasks \subseteq Tasks'
      /\ \A t \in Tasks' : t \notin Tasks => User /\ t = New
  BY TasksGo DEF IdInv
<1>1. ASSUME NEW n \in Temps, NEW c \in Tasks', Creates(c, n)'
      PROVE  idMap'[n] = IF tasks'[c].outcome = "synced" THEN tasks'[c].target ELSE None
  <2>1. CASE c \notin Tasks
    <3>1. User /\ c = New /\ idMap' = idMap /\ tasks'[c].outcome = "none"
      BY <1>0, <2>1, UserStep DEF Fresh
    <3>2. \A t \in Tasks : ~Creates(t, n)
      BY <1>1, <3>1, NewCreates
    <3>3. idMap[n] = None
      BY <1>0, <3>2 DEF TempsAreCreated
    <3>4. QED
      BY <3>1, <3>3
  <2>2. CASE c \in Tasks
    <3>1. Creates(c, n) /\ tasks[c].op = "create" /\ tasks[c].id = n
      BY <1>1, <2>2, CreatesStay DEF Creates
    <3>2. idMap[n] = IF tasks[c].outcome = "synced" THEN tasks[c].target ELSE None
      BY <1>0, <2>2, <3>1 DEF IdsAreKnown
    <3>3. CASE tasks[c].outcome = "synced"
      <4>1. tasks[c].target # None
        BY <2>2, <3>3, TaskFacts DEF Progress, Taken
      <4>2. tasks'[c].outcome = "synced" /\ tasks'[c].target = tasks[c].target
        BY <2>2, <3>3, <4>1, TasksGo DEF Carries
      <4>3. QED
        BY <3>2, <3>3, <4>1, <4>2, IdMapGrows
    <3>4. CASE tasks[c].outcome # "synced" /\ tasks'[c].outcome = "synced"
      <4>1. ObjectCreated(c)
        BY <2>2, <3>1, <3>4, Synced
      <4>2. QED
        BY <2>2, <3>1, <3>4, <4>1, CreatedStep DEF CreatedFacts
    <3>5. CASE tasks[c].outcome # "synced" /\ tasks'[c].outcome # "synced"
      <4>1. ASSUME idMap'[n] # idMap[n]
            PROVE  FALSE
        <5>1. PICK t \in Tasks : ObjectCreated(t) /\ tasks[t].id = n
          BY <4>1, IdMapGrows
        <5>2. t = c
          BY <1>0, <2>2, <3>1, <5>1 DEF TempsAreCreated, Creates, ObjectCreated
        <5>3. QED
          BY <2>2, <3>5, <5>1, <5>2, CreatedStep DEF CreatedFacts
      <4>2. QED
        BY <3>2, <3>5, <4>1
    <3>6. QED
      BY <3>3, <3>4, <3>5
  <2>3. QED
    BY <2>1, <2>2
<1>2. ASSUME NEW n \in Temps, idMap'[n] # None
      PROVE  ~Shown(n)'
  <2>1. CASE idMap'[n] # idMap[n]
    <3>1. PICK t \in Tasks : ObjectCreated(t) /\ tasks[t].id = n
      BY <2>1, IdMapGrows
    <3>2. QED
      BY <3>1, CreatedStep, ReconcileIdStep DEF CreatedFacts, TypeInv, TypeOK
  <2>2. CASE idMap'[n] = idMap[n]
    <3>1. ~Shown(n) /\ \E c \in Tasks : Creates(c, n)
      BY <1>0, <1>2, <2>2 DEF IdsAreKnown, TempsAreCreated
    <3>2. ~(User /\ AddObject(n))
      BY <3>1 DEF AddObject, Creates
    <3>3. ASSUME Shown(n)'
          PROVE  FALSE
      <4>1. Brings(n)
        BY <3>1, <3>3, Appears DEF Ids
      <4>2. QED
        BY <1>2, <2>2, <3>2, <4>1, BroughtBack
    <3>4. QED
      BY <3>3
  <2>3. QED
    BY <2>1, <2>2
<1>3. QED
  BY <1>1, <1>2 DEF IdsAreKnown

LEMMA OneAtATimeNext ==
  ASSUME TypeInv, IdInv, [Next]_vars
  PROVE  OneAtATime'
<1>0. OneAtATime /\ Tasks \subseteq Tasks' /\ \A t \in Tasks' : t \notin Tasks => User /\ t = New
  BY TasksGo DEF IdInv
<1>00. Tasks = 1 .. Len(tasks) /\ Len(tasks) \in Nat
  BY DEF TypeInv, TypeOK, Tasks
<1>1. ASSUME NEW t \in Tasks', NEW s \in 1 .. t - 1,
             tasks'[t].pc # "queued", tasks'[s].keys \cap tasks'[t].keys # {}
      PROVE  tasks'[s].pc = "done"
  <2>1. t \in Tasks
    BY <1>0, <1>1, UserStep DEF Fresh
  <2>2. s \in Tasks
    BY <1>00, <2>1
  <2>3. tasks[s].keys \cap tasks[t].keys # {}
    BY <1>1, <2>1, <2>2, CreatesStay
  <2>4. tasks[s].pc = "done"
    BY <1>0, <1>1, <2>1, <2>3, Starts DEF OneAtATime, Ready
  <2>5. QED
    BY <2>2, <2>4, TasksGo DEF Carries
<1>2. QED
  BY <1>1 DEF OneAtATime

LEMMA NewIdsAreSentNext ==
  ASSUME TypeInv, TypeInv', IdInv, [Next]_vars
  PROVE  NewIdsAreSent'
<1>0. /\ TempsAreCreated /\ IdsAreKnown /\ NewIdsAreSent
      /\ Tasks \subseteq Tasks' /\ \A t \in Tasks' : t \notin Tasks => User /\ t = New
  BY TasksGo DEF IdInv
<1>00. Tasks = 1 .. Len(tasks) /\ Len(tasks) \in Nat
  BY DEF TypeInv, TypeOK, Tasks
<1>1. ASSUME NEW t \in Tasks', NEW c \in Tasks', NEW n \in tasks'[t].sent \cap Temps, Creates(c, n)'
      PROVE  tasks'[c].pc = "done" /\ tasks'[c].outcome # "synced"
  <2>1. t \in Tasks
    BY <1>0, <1>1, UserStep DEF Fresh
  <2>2. tasks'[t].pc # "queued"
    BY <1>1, <2>1 DEF TypeInv, Progress
  <2>3. ASSUME NEW d \in Tasks, Creates(d, n), tasks[d].pc = "done", tasks[d].outcome # "synced"
        PROVE  tasks'[c].pc = "done" /\ tasks'[c].outcome # "synced"
    <3>1. c = d
      BY <1>0, <1>1, <2>3, CreatesStay, NewCreates DEF TempsAreCreated
    <3>2. tasks[d].outcome # "none"
      BY <2>3, TaskFacts DEF Progress
    <3>3. QED
      BY <2>3, <3>1, <3>2, TasksGo DEF Carries
  <2>4. CASE tasks[t].pc # "queued"
    <3>1. n \in tasks[t].sent
      BY <1>1, <2>1, <2>4, TasksGo DEF Carries
    <3>2. n \in Names(t)
      BY <1>0, <1>1, <2>1, <3>1 DEF TempsAreCreated
    <3>3. PICK d \in 1 .. t : Creates(d, n)
      BY <1>0, <1>1, <2>1, <3>2 DEF TempsAreCreated
    <3>4. d \in Tasks
      BY <1>00, <2>1
    <3>5. tasks[d].pc = "done" /\ tasks[d].outcome # "synced"
      BY <1>0, <1>1, <2>1, <3>1, <3>3, <3>4 DEF NewIdsAreSent
    <3>6. QED
      BY <2>3, <3>3, <3>4, <3>5
  <2>5. CASE tasks[t].pc = "queued"
    <3>1. Ready(t) /\ n \in SentIds(t)
      BY <1>1, <2>1, <2>2, <2>5, Starts
    <3>2. n \in Names(t) /\ idMap[n] = None /\ tasks[t].op # "create"
      BY <1>1, <2>1, <3>1, TaskFacts, ResolveFacts DEF SentIds, Names, Shape, Writes
    <3>3. PICK d \in 1 .. t : Creates(d, n)
      BY <1>0, <1>1, <2>1, <3>2 DEF TempsAreCreated
    <3>4. d \in Tasks /\ d # t /\ d \in 1 .. t - 1
      BY <1>00, <2>1, <3>2, <3>3 DEF Creates
    <3>5. n \in Names(d)
      BY <1>1, <3>3 DEF Names, Creates, Ids
    <3>6. n \in tasks[d].keys /\ n \in tasks[t].keys
      BY <1>0, <1>1, <2>1, <3>2, <3>4, <3>5 DEF TempsAreCreated
    <3>7. tasks[d].pc = "done"
      BY <3>1, <3>4, <3>6 DEF Ready
    <3>8. tasks[d].outcome # "synced"
      BY <1>0, <1>1, <3>2, <3>3, <3>4, TaskFacts DEF IdsAreKnown, Progress, Taken
    <3>9. QED
      BY <2>3, <3>3, <3>4, <3>7, <3>8
  <2>6. QED
    BY <2>4, <2>5
<1>2. QED
  BY <1>1 DEF NewIdsAreSent

LEMMA IdNext ==
  ASSUME TypeInv, TypeInv', IdInv, [Next]_vars
  PROVE  IdInv'
BY TempsAreCreatedNext, IdsAreKnownNext, OneAtATimeNext, NewIdsAreSentNext DEF IdInv

LEMMA InitIds == Init => IdInv
<1> SUFFICES ASSUME Init
             PROVE  IdInv
  OBVIOUS
<1>1. Tasks = {}
  BY DEF Init, Tasks
<1>2. \A n \in Temps : idMap[n] = None /\ ~Shown(n)
  BY BridgeAssumption, IdsApart DEF Init, Shown, Ids
<1>3. QED
  BY <1>1, <1>2 DEF IdInv, TempsAreCreated, IdsAreKnown, OneAtATime, NewIdsAreSent

(***************************************************************************)
(* A command never names a temporary id the kernel has answered for: what  *)
(* is edited on a new object queues behind its creation under the same     *)
(* key, and the id is looked up when the command is sent (enqueue,         *)
(* resolveObjectId, objectIdMap).                                          *)
(***************************************************************************)
THEOREM NewIdsSent == Spec => []NewIdsAreSent
<1>1. TypeInv /\ IdInv /\ [Next]_vars => TypeInv' /\ IdInv'
  BY NextTypes, IdNext
<1>2. IdInv => NewIdsAreSent
  BY DEF IdInv
<1>3. QED
  BY <1>1, <1>2, InitTypes, InitIds, PTL DEF Spec

-----------------------------------------------------------------------------
(* The ends of relations.                                                  *)

(* Where the ends of a relation that is shown after a step come from.      *)
EndsFrom(r) ==
  \/ Present(r) /\ Ends(relations'[r]) = Ends(relations[r])
  \/ /\ User /\ r \in TempLinks
     /\ \E a, b \in Ids : Relate(r, a, b) /\ Shown(a) /\ Shown(b) /\ Ends(relations'[r]) = {a, b}
  \/ \E t \in Tasks :
       \/ /\ ObjectCreated(t) /\ Present(r)
          /\ Ends(relations'[r]) =
               {IF e = tasks[t].id THEN tasks[t].target ELSE e : e \in Ends(relations[r])}
       \/ /\ Fails(t) /\ tasks[t].op = "delete" /\ tasks[t].prev.rels[r] # None
          /\ Ends(relations'[r]) =
               {IF e = tasks[t].id THEN Resolve(tasks[t].id) ELSE e :
                  e \in Ends(tasks[t].prev.rels[r])}
       \/ /\ tasks[t].op = "unlink" /\ r = tasks[t].rel
          /\ Fails(t) \/ (RelationWritten(t) /\ r \in Links)
          /\ Ends(relations'[r]) = Ends(tasks[t].prev)
       \/ /\ RelationWritten(t) /\ tasks[t].op = "relate" /\ r = tasks[t].target /\ r \in Links
          /\ Ends(relations'[r]) = {Resolve(tasks[t].src), Resolve(tasks[t].tgt)}

LEMMA RunEnds ==
  ASSUME TypeInv, NEW t \in Tasks, Run(t), NEW r \in RelIds, Present(r)'
  PROVE  EndsFrom(r)
<1>0. StoreTypeOK /\ Progress(t) /\ Shape(t)
  BY TaskFacts DEF TypeInv, TypeOK
<1>1. CASE relations'[r] = relations[r]
  BY <1>1 DEF EndsFrom, Present
<1>2. CASE Fails(t)
  <2>1. Undo(t)
    BY <1>2 DEF Fails, Refuse, LoseAnswer
  <2> DEFINE d == tasks[t]  o == Resolve(tasks[t].id)
  <2>2. CASE /\ d.op = "update" /\ RollbackField(o, d.prev, d.id)
             /\ o \in Ids /\ d.id \in Ids /\ d.prev \in DataObject
    BY <1>0, <1>1, <2>2, RollbackStep
  <2>3. CASE d.op = "create" /\ DeleteObject(d.id) /\ d.id \in Temps /\ d.id \in Ids
    BY <1>0, <1>1, <2>3, DeleteObjectStep
  <2>4. CASE /\ d.op = "delete" /\ RestoreObject(o, d.prev, d.id)
             /\ o \in Ids /\ d.id \in Ids /\ d.prev \in Snapshots
    <3>1. IF d.prev.rels[r] # None
          THEN Ends(relations'[r]) = {IF e = d.id THEN o ELSE e : e \in Ends(d.prev.rels[r])}
          ELSE relations'[r] = relations[r]
      BY <1>0, <2>4, RestoreStep
    <3>2. CASE d.prev.rels[r] # None
      BY <1>2, <2>4, <3>1, <3>2 DEF EndsFrom
    <3>3. QED
      BY <1>1, <3>1, <3>2
  <2>5. CASE d.op = "relate" /\ RemoveRelation(d.rel) /\ d.rel \in RelIds
    BY <1>0, <1>1, <2>5, RemoveRelationStep
  <2>6. CASE /\ d.op = "unlink" /\ ReconcileRelation(d.rel, d.prev)
             /\ d.rel \in RelIds /\ d.prev \in DataRelation
    BY <1>0, <1>1, <1>2, <2>6, ReconcileRelationStep DEF EndsFrom
  <2>7. QED
    BY <2>1, <2>2, <2>3, <2>4, <2>5, <2>6, UndoKinds
<1>3. CASE ObjectCreated(t)
  <2>1. CreatedFacts(t)
    BY <1>3, CreatedStep
  <2>2. Present(r) /\ Ends(relations'[r]) =
          {IF e = tasks[t].id THEN tasks[t].target ELSE e : e \in Ends(relations[r])}
    BY <1>0, <2>1, ReconcileIdStep DEF CreatedFacts
  <2>3. QED
    BY <1>3, <2>2 DEF EndsFrom
<1>4. CASE FieldWritten(t)
  BY <1>1, <1>4 DEF FieldWritten, ReconcileObject
<1>5. CASE RelationWritten(t)
  <2>1. CASE tasks[t].op = "relate"
    <3>1. PICK row \in DataRelation :
            /\ Ends(row) = {Resolve(tasks[t].src), Resolve(tasks[t].tgt)}
            /\ ReconcileRelationId(tasks[t].rel, tasks[t].target, row)
            /\ tasks[t].rel \in RelIds /\ tasks[t].target \in Links /\ tasks[t].target \in RelIds
      BY <1>5, <2>1, WrittenKinds
    <3>2. QED
      BY <1>0, <1>1, <1>5, <2>1, <3>1, ReconcileRelationIdStep DEF EndsFrom
  <2>2. CASE tasks[t].op = "unlink"
    <3>1. PICK row \in DataRelation :
            /\ Ends(row) = Ends(tasks[t].prev) /\ ReconcileRelation(tasks[t].rel, row)
            /\ tasks[t].rel \in Links /\ tasks[t].rel \in RelIds
      BY <1>5, <2>2, WrittenKinds
    <3>2. QED
      BY <1>0, <1>1, <1>5, <2>2, <3>1, ReconcileRelationStep DEF EndsFrom
  <2>3. CASE UNCHANGED store
    BY <1>1, <2>3 DEF store
  <2>4. QED
    BY <1>5, <2>1, <2>2, <2>3, WrittenKinds
<1>6. QED
  BY <1>1, <1>2, <1>3, <1>4, <1>5
  DEF Run, Fails, Accept, Claim, GiveUpClaim, RefreshRelated, Finish, store

LEMMA EndsComeFrom ==
  ASSUME TypeInv, [Next]_vars, NEW r \in RelIds, Present(r)'
  PROVE  EndsFrom(r)
<1>0. StoreTypeOK
  BY DEF TypeInv, TypeOK
<1>1. CASE relations'[r] = relations[r]
  BY <1>1 DEF EndsFrom, Present
<1>2. CASE User
  <2>1. CASE \/ \E o \in Ids, f \in Fields, v \in {0, Len(tasks) + 1} : EditField(o, f, v)
             \/ \E n \in Temps : AddObject(n)
    BY <1>1, <2>1 DEF EditField, UpdateField, AddObject, CreateObject
  <2>2. CASE \E o \in Ids : RemoveObject(o)
    BY <1>0, <1>1, <2>2, DeleteObjectStep DEF RemoveObject
  <2>3. CASE \E m \in TempLinks, a, b \in Ids : Relate(m, a, b)
    <3>1. PICK m \in TempLinks, a \in Ids, b \in Ids : Relate(m, a, b)
      BY <2>3
    <3>2. CreateRelation(m, a, b) /\ Shown(a) /\ Shown(b) /\ m \in RelIds
      BY <3>1 DEF Relate, RelIds
    <3>3. CASE r = m
      BY <1>0, <1>2, <3>1, <3>2, <3>3, CreateRelationStep DEF EndsFrom
    <3>4. QED
      BY <1>0, <1>1, <3>2, <3>3, CreateRelationStep
  <2>4. CASE \E q \in RelIds : Unrelate(q)
    <3>1. PICK q \in RelIds : UnlinkRelation(q)
      BY <2>4 DEF Unrelate
    <3>2. QED
      BY <1>0, <1>1, <3>1, UnlinkRelationStep DEF EndsFrom
  <2>5. QED
    BY <1>2, <2>1, <2>2, <2>3, <2>4 DEF User
<1>3. CASE \E t \in Tasks : Run(t)
  BY <1>3, RunEnds
<1>4. QED
  BY <1>1, <1>2, <1>3
  DEF Next, Refresh, OtherUpdate, FetchRow, ShowRow, FetchFails, ReconcileObject, store, vars

(* A known id stays what it is.                                            *)
LEMMA ResolveStays ==
  ASSUME TypeInv, IdInv, [Next]_vars, NEW id \in Ids, Resolve(id) \in Servers
  PROVE  Resolve(id)' = Resolve(id)
BY IdMapGrows, IdsApart DEF Resolve, Ids

(* The kernel relates objects it has.                                      *)
LEMMA Related2 ==
  ASSUME TypeInv, [Next]_vars, NEW t \in Tasks, tasks[t].op = "relate", ~Taken(t), Taken(t)'
  PROVE  Resolve(tasks[t].src) \in Servers /\ Resolve(tasks[t].tgt) \in Servers
<1>1. tasks[t].pc = "queued" /\ tasks'[t].pc # "queued" /\ tasks'[t].outcome # "failed"
  <2>1. tasks[t].outcome = "failed" => tasks'[t].outcome = "failed"
    BY TasksGo DEF Carries
  <2>2. QED
    BY <2>1 DEF Taken
<1>2. Run(t) /\ Ready(t)
  BY <1>1, Starts
<1>3. ~Refuse(t) /\ ~LoseAnswer(t) /\ ~Claim(t) /\ ~Ending(t) /\ ~Moving(t)
  BY <1>1, FailStep, EndStep, MoveStep DEF Claim
<1>4. PICK x : Carried(t, x)
  BY <1>2, <1>3 DEF Run, Ending, Moving, Accept
<1>5. QED
  BY <1>4 DEF Carried, KernelRelate

LEMMA LinksAreKnownNext ==
  ASSUME TypeInv, IdInv, LinkInv, [Next]_vars
  PROVE  LinksAreKnown'
<1>0. LinksAreKnown /\ Tasks \subseteq Tasks' /\ \A t \in Tasks' : t \notin Tasks => User /\ t = New
  BY TasksGo DEF LinkInv
<1>1. ASSUME NEW r \in Links, Present(r)'
      PROVE  Ends(relations'[r]) \subseteq Servers
  <2>0. r \in RelIds /\ r \notin TempLinks /\ EndsFrom(r)
    BY <1>1, IdsApart, EndsComeFrom DEF RelIds
  <2>1. CASE Present(r) /\ Ends(relations'[r]) = Ends(relations[r])
    BY <1>0, <2>1 DEF LinksAreKnown
  <2>2. ASSUME NEW t \in Tasks, ObjectCreated(t), Present(r), Ends(relations'[r]) =
                 {IF e = tasks[t].id THEN tasks[t].target ELSE e : e \in Ends(relations[r])}
        PROVE  Ends(relations'[r]) \subseteq Servers
    BY <1>0, <2>2, CreatedStep DEF LinksAreKnown, CreatedFacts
  <2>3. ASSUME NEW t \in Tasks, tasks[t].op = "delete", tasks[t].prev.rels[r] # None,
               Ends(relations'[r]) =
                 {IF e = tasks[t].id THEN Resolve(tasks[t].id) ELSE e :
                    e \in Ends(tasks[t].prev.rels[r])}
        PROVE  Ends(relations'[r]) \subseteq Servers
    <3>1. tasks[t].id \in Ids
      BY <2>3, TaskFacts DEF Shape, Writes
    <3>2. QED
      BY <1>0, <2>3, <3>1, ResolveFacts DEF LinksAreKnown
  <2>4. ASSUME NEW t \in Tasks, tasks[t].op = "unlink", r = tasks[t].rel,
               Ends(relations'[r]) = Ends(tasks[t].prev)
        PROVE  Ends(relations'[r]) \subseteq Servers
    BY <1>0, <2>4 DEF LinksAreKnown
  <2>5. ASSUME NEW t \in Tasks, RelationWritten(t), tasks[t].op = "relate",
               Ends(relations'[r]) = {Resolve(tasks[t].src), Resolve(tasks[t].tgt)}
        PROVE  Ends(relations'[r]) \subseteq Servers
    <3>1. Taken(t)
      BY <2>5, TaskFacts DEF RelationWritten, Taken, Progress
    <3>2. QED
      BY <1>0, <2>5, <3>1 DEF LinksAreKnown
  <2>6. QED
    BY <2>0, <2>1, <2>2, <2>3, <2>4, <2>5 DEF EndsFrom
<1>2. ASSUME NEW t \in Tasks', t \notin Tasks
      PROVE  /\ tasks'[t].rel \in Links /\ tasks'[t].op = "unlink" => Ends(tasks'[t].prev) \subseteq Servers
             /\ tasks'[t].op = "delete" => \A r \in Links : tasks'[t].prev.rels[r] # None =>
                  Ends(tasks'[t].prev.rels[r]) \subseteq Servers
             /\ ~Taken(t)'
  <2>1. User /\ t = New /\ UserAdds(tasks'[t]) /\ Fresh(tasks'[t])
    BY <1>0, <1>2, UserStep
  <2>2. tasks'[t].rel \in Links /\ tasks'[t].op = "unlink" => Ends(tasks'[t].prev) \subseteq Servers
    BY <1>0, <2>1 DEF UserAdds, LinksAreKnown
  <2>3. ASSUME tasks'[t].op = "delete", NEW r \in Links, tasks'[t].prev.rels[r] # None
        PROVE  Ends(tasks'[t].prev.rels[r]) \subseteq Servers
    <3>1. PICK o \in Ids : Shown(o) /\ tasks'[t].prev = Snapshot(o)
      BY <2>1, <2>3 DEF UserAdds
    <3>2. tasks'[t].prev.rels[r] = relations[r] /\ Present(r)
      BY <2>3, <3>1, SnapshotFacts DEF RelIds, Present
    <3>3. QED
      BY <1>0, <3>2 DEF LinksAreKnown
  <2>4. QED
    BY <2>1, <2>2, <2>3 DEF Fresh, Taken
<1>3. ASSUME NEW t \in Tasks
      PROVE  /\ tasks'[t].rel \in Links /\ tasks'[t].op = "unlink" => Ends(tasks'[t].prev) \subseteq Servers
             /\ tasks'[t].op = "delete" => \A r \in Links : tasks'[t].prev.rels[r] # None =>
                  Ends(tasks'[t].prev.rels[r]) \subseteq Servers
             /\ tasks'[t].op = "relate" /\ Taken(t)' =>
                  {Resolve(tasks[t].src)', Resolve(tasks[t].tgt)'} \subseteq Servers
  <2>1. SameTask(tasks[t], tasks'[t])
    BY TasksGo DEF Carries
  <2>2. ASSUME tasks[t].op = "relate", Taken(t)'
        PROVE  {Resolve(tasks[t].src)', Resolve(tasks[t].tgt)'} \subseteq Servers
    <3>1. tasks[t].src \in Ids /\ tasks[t].tgt \in Ids
      BY <2>2, TaskFacts DEF Shape
    <3>2. Resolve(tasks[t].src) \in Servers /\ Resolve(tasks[t].tgt) \in Servers
      BY <1>0, <2>2, Related2 DEF LinksAreKnown
    <3>3. PICK a \in Ids, b \in Ids : a = tasks[t].src /\ b = tasks[t].tgt
      BY <3>1
    <3>4. Resolve(a)' = Resolve(a) /\ Resolve(b)' = Resolve(b)
      BY <3>2, <3>3, ResolveStays
    <3>5. tasks'[t].src = a /\ tasks'[t].tgt = b
      BY <2>1, <3>3 DEF SameTask
    <3>6. QED
      BY <2>1, <3>2, <3>3, <3>4, <3>5 DEF SameTask
  <2>3. QED
    BY <1>0, <2>1, <2>2 DEF SameTask, LinksAreKnown
<1>4. QED
  BY <1>1, <1>2, <1>3 DEF LinksAreKnown

LEMMA TempsAreReplacedNext ==
  ASSUME TypeInv, IdInv, LinkInv, [Next]_vars
  PROVE  TempsAreReplaced'
<1>0. LinksAreKnown /\ TempsAreReplaced /\ StoreTypeOK
  BY DEF LinkInv, TypeInv, TypeOK
<1>1. ASSUME NothingIsPutBack', NEW n \in Temps, idMap'[n] # None, NEW r \in RelIds, Touches(r, n)'
      PROVE  FALSE
  <2>0. Present(r)' /\ n \in Ends(relations'[r]) /\ n \in Ids
    BY <1>1 DEF Touches, Present, Ends, Ids
  <2>1. ASSUME NEW t \in Tasks, tasks[t].op \in {"delete", "unlink"}
        PROVE  tasks'[t].outcome # "failed" /\ tasks[t].outcome # "failed"
    BY <1>1, <2>1, TasksGo DEF NothingIsPutBack, Carries, SameTask
  <2>2. NothingIsPutBack
    BY <2>1 DEF NothingIsPutBack
  <2>3. CASE idMap'[n] # idMap[n]
    <3>1. PICK t \in Tasks : ObjectCreated(t) /\ tasks[t].id = n
      BY <2>3, IdMapGrows
    <3>2. CreatedFacts(t)
      BY <3>1, CreatedStep
    <3>3. Ends(relations'[r]) =
            {IF e = tasks[t].id THEN tasks[t].target ELSE e : e \in Ends(relations[r])}
      BY <1>0, <2>0, <3>2, ReconcileIdStep DEF CreatedFacts
    <3>4. QED
      BY <2>0, <3>1, <3>2, <3>3 DEF CreatedFacts
  <2>4. CASE idMap'[n] = idMap[n]
    <3>1. ~Shown(n) /\ n \notin Servers /\ ~Touches(r, n)
      BY <1>0, <1>1, <2>2, <2>4, IdsApart DEF IdInv, IdsAreKnown, TempsAreReplaced
    <3>2. EndsFrom(r)
      BY <2>0, EndsComeFrom
    <3>3. Present(r) => n \notin Ends(relations[r])
      BY <3>1 DEF Touches, Ends, Present
    <3>4. ~\E t \in Tasks :
             /\ ObjectCreated(t) /\ Present(r)
             /\ Ends(relations'[r]) =
                  {IF e = tasks[t].id THEN tasks[t].target ELSE e : e \in Ends(relations[r])}
      BY <2>0, <3>1, <3>3, CreatedStep DEF CreatedFacts
    <3>5. ~\E t \in Tasks : Fails(t) /\ tasks[t].op \in {"delete", "unlink"}
      BY <2>1, FailStep DEF Fails
    <3>6. ~\E t \in Tasks : /\ RelationWritten(t) /\ tasks[t].op = "unlink" /\ r = tasks[t].rel
                            /\ r \in Links /\ Ends(relations'[r]) = Ends(tasks[t].prev)
      BY <1>0, <2>0, <3>1 DEF LinksAreKnown
    <3>7. ~\E t \in Tasks : /\ RelationWritten(t) /\ tasks[t].op = "relate"
                            /\ Ends(relations'[r]) = {Resolve(tasks[t].src), Resolve(tasks[t].tgt)}
      <4>1. ASSUME NEW t \in Tasks, RelationWritten(t), tasks[t].op = "relate"
            PROVE  n \notin {Resolve(tasks[t].src), Resolve(tasks[t].tgt)}
        <5>1. Taken(t)
          BY <4>1, TaskFacts DEF RelationWritten, Taken, Progress
        <5>2. QED
          BY <1>0, <3>1, <4>1, <5>1 DEF LinksAreKnown
      <4>2. QED
        BY <2>0, <4>1
    <3>8. QED
      BY <2>0, <3>1, <3>2, <3>3, <3>4, <3>5, <3>6, <3>7 DEF EndsFrom
  <2>5. QED
    BY <2>3, <2>4
<1>2. QED
  BY <1>1 DEF TempsAreReplaced

LEMMA LinkNext ==
  ASSUME TypeInv, IdInv, LinkInv, [Next]_vars
  PROVE  LinkInv'
BY LinksAreKnownNext, TempsAreReplacedNext DEF LinkInv

LEMMA InitLinks == Init => LinkInv
<1> SUFFICES ASSUME Init
             PROVE  LinkInv
  OBVIOUS
<1>1. Tasks = {} /\ \A r \in RelIds : ~Present(r)
  BY DEF Init, Tasks, Present
<1>2. \A n \in Temps : idMap[n] = None
  BY DEF Init
<1>3. QED
  BY <1>1, <1>2 DEF LinkInv, LinksAreKnown, TempsAreReplaced, RelIds

(***************************************************************************)
(* Once all is done, nothing refers to the temporary id of an object the   *)
(* kernel has made: the object and every relation that ended at it have    *)
(* the kernel's id (reconcileObjectId), and a relation written meanwhile   *)
(* is shown between the ids it was sent with (reconcileRelationId).        *)
(***************************************************************************)
THEOREM TempsAreGone == Spec => []NoTempIsLeft
<1>1. TypeInv /\ IdInv /\ LinkInv /\ [Next]_vars => TypeInv' /\ IdInv' /\ LinkInv'
  BY NextTypes, IdNext, LinkNext
<1>2. TypeInv /\ IdInv /\ LinkInv => NoTempIsLeft
  <2> SUFFICES ASSUME TypeInv, IdInv, LinkInv, NothingIsPutBack,
                      NEW c \in Tasks, NEW n \in Temps, Creates(c, n), tasks[c].outcome = "synced"
               PROVE  ~Shown(n) /\ \A r \in RelIds : ~Touches(r, n)
    BY DEF NoTempIsLeft, NothingIsPutBack
  <2>1. tasks[c].target # None
    BY TaskFacts DEF Progress, Taken
  <2>2. idMap[n] # None
    BY <2>1 DEF IdInv, IdsAreKnown
  <2>3. QED
    BY <2>2 DEF IdInv, IdsAreKnown, LinkInv, TempsAreReplaced
<1>3. QED
  BY <1>1, <1>2, InitTypes, InitIds, InitLinks, PTL DEF Spec

-----------------------------------------------------------------------------
(* What is deleted.                                                        *)

(* A task gets its target from the kernel.                                 *)
LEMMA Targets ==
  ASSUME TypeInv, [Next]_vars, NEW t \in Tasks, tasks[t].target = None, tasks'[t].target # None
  PROVE  /\ Accept(t) /\ Carried(t, tasks'[t].target) /\ tasks'[t].target \in Servers \cup Links
         /\ tasks[t].pc = "queued" /\ UNCHANGED << store, idMap, gens, fetches, seen >>
         /\ tasks'[t].at = (IF tasks'[t].target \in Servers THEN Len(kernel'[tasks'[t].target]) ELSE 0)
         /\ OnlyTask(t)
<1>1. CASE User
  BY <1>1, UserStep
<1>2. CASE Quiet
  BY <1>2, QuietTasks DEF SameAnswer
<1>3. ASSUME NEW s \in Tasks, Run(s)
      PROVE  Accept(t)
  <2>1. s = t
    BY <1>3, RunCarries DEF OnlyTask
  <2>2. ~Refuse(t) /\ ~LoseAnswer(t) /\ ~Claim(t) /\ ~Ending(t) /\ ~Moving(t)
    BY FailStep, ClaimStep, EndStep, MoveStep DEF SameAnswer
  <2>3. QED
    BY <1>3, <2>1, <2>2 DEF Run, Ending, Moving
<1>4. Accept(t)
  BY <1>1, <1>2, <1>3, StepKinds
<1>5. kernel' \in [Servers -> Seq(DataObject)]
  BY <1>4, AcceptTypes DEF ServerTypeOK
<1>6. QED
  BY <1>4, <1>5, AcceptStep DEF Accept

(* What the kernel keeps of an object is not lost.                         *)
LEMMA KernelGoes ==
  ASSUME TypeInv, [Next]_vars
  PROVE  \/ kernel' = kernel
         \/ \E o \in Servers, e \in DataObject : Grown(o, e)
<1>1. CASE \E o \in Loaded, f \in Fields, w \in OtherValues : OtherUpdate(o, f, w)
  BY <1>1, OtherUpdateStep, BridgeAssumption DEF Written
<1>2. CASE \E t \in Tasks : Accept(t)
  BY <1>2, CarriedKernel DEF Accept, Written
<1>3. CASE User
  BY <1>3, UserStep DEF server
<1>4. QED
  BY <1>1, <1>2, <1>3
  DEF Next, Run, Refuse, LoseAnswer, Claim, GiveUpClaim, FieldWritten, ObjectCreated, RelationWritten,
      RefreshRelated, Finish, Refresh, FetchRow, ShowRow, FetchFails, vars, server

LEMMA KernelStays ==
  ASSUME TypeInv, [Next]_vars, NEW o \in Servers
  PROVE  /\ Len(kernel[o]) \in Nat /\ Len(kernel'[o]) \in Nat /\ Len(kernel[o]) <= Len(kernel'[o])
         /\ \A i \in 1 .. Len(kernel[o]) : kernel'[o][i] = kernel[o][i]
         /\ kernel[o] # << >> => kernel'[o] # << >>
<1>1. kernel[o] \in Seq(DataObject)
  BY DEF TypeInv, TypeOK
<1>2. CASE kernel' = kernel
  BY <1>1, <1>2
<1>3. CASE \E p \in Servers, e \in DataObject : Grown(p, e)
  <2>1. PICK p \in Servers, e \in DataObject : Grown(p, e)
    BY <1>3
  <2>2. CASE p # o
    BY <1>1, <2>1, <2>2 DEF Grown
  <2>3. CASE p = o
    <3>1. kernel'[o] \in Seq(DataObject) /\ Len(kernel'[o]) = Len(kernel[o]) + 1
      BY <2>1, <2>3 DEF Grown
    <3>2. kernel'[o] # << >>
      BY <1>1, <3>1
    <3>3. QED
      BY <1>1, <2>1, <2>3, <3>1, <3>2 DEF Grown
  <2>4. QED
    BY <2>2, <2>3
<1>4. QED
  BY <1>2, <1>3, KernelGoes

(* The id a task names stays, or becomes the one the kernel has given.     *)
LEMMA ResolveGoes ==
  ASSUME TypeInv, IdInv, [Next]_vars, NEW id \in Ids
  PROVE  \/ Resolve(id)' = Resolve(id)
         \/ \E c \in Tasks : /\ ObjectCreated(c) /\ id = tasks[c].id /\ Resolve(id) = id
                             /\ id \in Temps /\ Resolve(id)' = tasks[c].target
<1>1. CASE id \in Temps /\ idMap'[id] # idMap[id]
  <2>1. PICK c \in Tasks : ObjectCreated(c) /\ tasks[c].id = id /\ idMap'[id] = tasks[c].target
    BY <1>1, IdMapGrows
  <2>2. idMap[id] = None
    BY <1>1, IdMapGrows
  <2>3. tasks[c].target # None
    BY <2>1, CreatedStep DEF CreatedFacts
  <2>4. QED
    BY <1>1, <2>1, <2>2, <2>3 DEF Resolve
<1>2. QED
  BY <1>1 DEF Resolve

(* The object a creation makes known was not known before.                 *)
LEMMA FreshTarget ==
  ASSUME TypeInv, IdInv, DeleteInv, NEW c \in Tasks, ObjectCreated(c)
  PROVE  ~Known(tasks[c].target)
<1>1. CreatedFacts(c)
  BY CreatedStep
<1>2. tasks[c].target \notin Loaded
  BY <1>1 DEF CreatedFacts, DeleteInv, IdsAreNew
<1>3. ASSUME NEW n \in Temps, idMap[n] = tasks[c].target
      PROVE  FALSE
  <2>1. idMap[n] # None
    BY <1>1, <1>3 DEF CreatedFacts
  <2>2. PICK d \in Tasks : Creates(d, n)
    BY <2>1 DEF IdInv, TempsAreCreated
  <2>3. tasks[d].outcome = "synced" /\ tasks[d].target = tasks[c].target
    BY <1>3, <2>1, <2>2 DEF IdInv, IdsAreKnown
  <2>4. d = c
    BY <1>1, <2>2, <2>3 DEF CreatedFacts, DeleteInv, IdsAreNew, Creates
  <2>5. QED
    BY <1>1, <2>3, <2>4 DEF CreatedFacts
<1>4. QED
  BY <1>2, <1>3 DEF Known

(* What a task names is known, if it is an object of the kernel.           *)
LEMMA NamedIsKnown ==
  ASSUME TypeInv, DeleteInv, NEW t \in Tasks, tasks[t].op \in Writes,
         Resolve(tasks[t].id) \in Servers
  PROVE  Known(Resolve(tasks[t].id))
<1>1. tasks[t].id \in Ids
  BY TaskFacts DEF Shape
<1>2. CASE tasks[t].id \in Servers
  BY <1>1, <1>2, ResolveFacts DEF DeleteInv, KnownIsNamed
<1>3. CASE tasks[t].id \notin Servers
  BY <1>1, <1>3, IdsApart DEF Resolve, Known, Ids
<1>4. QED
  BY <1>2, <1>3

LEMMA KnownGrows ==
  ASSUME TypeInv, IdInv, [Next]_vars, NEW o \in Servers, Known(o)
  PROVE  Known(o)'
BY IdMapGrows, IdsApart DEF Known

LEMMA KnownIsNamedNext ==
  ASSUME TypeInv, IdInv, DeleteInv, [Next]_vars
  PROVE  KnownIsNamed'
<1>0. KnownIsNamed /\ Tasks \subseteq Tasks' /\ \A t \in Tasks' : t \notin Tasks => User /\ t = New
  BY TasksGo DEF DeleteInv
<1>1. ASSUME NEW o \in Servers, Shown(o)'
      PROVE  Known(o)'
  <2>1. CASE Shown(o)
    BY <1>0, <2>1, KnownGrows DEF KnownIsNamed
  <2>2. CASE ~Shown(o)
    <3>0. o \in Ids /\ o \notin Temps
      BY IdsApart DEF Ids
    <3>1. Brings(o)
      BY <1>1, <2>2, <3>0, Appears
    <3>2. CASE \E t \in Tasks : o = Resolve(tasks[t].id) /\ tasks[t].op \in Writes
      BY <3>2, NamedIsKnown, KnownGrows
    <3>3. CASE \E t \in Tasks : ObjectCreated(t) /\ o = tasks[t].target
      BY <3>3, CreatedStep DEF CreatedFacts, Known
    <3>4. QED
      BY <3>0, <3>1, <3>2, <3>3 DEF Brings, Writes
  <2>3. QED
    BY <2>1, <2>2
<1>2. ASSUME NEW t \in Tasks', tasks'[t].id \in Servers
      PROVE  Known(tasks[t].id)'
  <2>1. PICK o \in Servers : o = tasks'[t].id
    BY <1>2
  <2>2. Known(o)
    <3>1. CASE t \in Tasks
      BY <1>0, <2>1, <3>1, TasksGo DEF Carries, SameTask, KnownIsNamed
    <3>2. CASE t \notin Tasks
      <4>1. UserAdds(tasks'[t])
        BY <1>0, <3>2, UserStep
      <4>2. Shown(o)
        BY <2>1, <4>1, IdsApart DEF UserAdds
      <4>3. QED
        BY <1>0, <4>2 DEF KnownIsNamed
    <3>3. QED
      BY <3>1, <3>2
  <2>3. Known(o)'
    BY <2>2, KnownGrows
  <2>4. QED
    BY <2>1, <2>3
<1>3. QED
  BY <1>1, <1>2 DEF KnownIsNamed

LEMMA IdsAreNewNext ==
  ASSUME TypeInv, TypeInv', DeleteInv, [Next]_vars
  PROVE  IdsAreNew'
<1>0. IdsAreNew /\ Tasks \subseteq Tasks' /\ \A t \in Tasks' : t \notin Tasks => User /\ t = New
  BY TasksGo DEF DeleteInv
<1>1. \A o \in Loaded : kernel'[o] # << >>
  BY <1>0, KernelStays, BridgeAssumption DEF IdsAreNew
<1>2. ASSUME NEW t \in Tasks', tasks'[t].op = "create", tasks'[t].target # None
      PROVE  /\ t \in Tasks /\ tasks[t].op = "create"
             /\ tasks[t].target # None => tasks'[t].target = tasks[t].target
             /\ tasks[t].target = None => kernel[tasks'[t].target] = << >> /\ OnlyTask(t)
             /\ tasks'[t].target \in Servers
             /\ tasks'[t].target \notin Loaded /\ kernel'[tasks'[t].target] # << >>
  <2>1. t \in Tasks
    BY <1>0, <1>2, UserStep DEF Fresh
  <2>2. tasks[t].op = "create"
    BY <1>2, <2>1, TasksGo DEF Carries, SameTask
  <2>3. CASE tasks[t].target # None
    <3>1. tasks'[t].target = tasks[t].target /\ tasks[t].target \in Servers
      BY <2>1, <2>2, <2>3, TasksGo, TaskFacts DEF Carries, Progress, Writes
    <3>2. QED
      BY <1>0, <2>1, <2>2, <2>3, <3>1, KernelStays DEF IdsAreNew
  <2>4. CASE tasks[t].target = None
    <3>1. KernelCreate(tasks'[t].target, tasks[t].v) /\ OnlyTask(t)
      BY <1>2, <2>1, <2>2, <2>4, Targets DEF Carried
    <3>2. tasks[t].v \in Values
      BY <2>1, TaskFacts
    <3>3. /\ kernel[tasks'[t].target] = << >> /\ tasks'[t].target \in Servers
          /\ kernel'[tasks'[t].target] # << >>
      BY <3>1, <3>2, KernelCreateStep
    <3>4. QED
      BY <1>0, <2>1, <2>2, <2>4, <3>1, <3>3 DEF IdsAreNew
  <2>5. QED
    BY <2>3, <2>4
<1>3. ASSUME NEW s \in Tasks', NEW t \in Tasks', tasks'[s].op = "create", tasks'[t].op = "create",
             tasks'[s].target = tasks'[t].target, tasks'[t].target # None
      PROVE  s = t
  <2>1. CASE tasks[s].target # None /\ tasks[t].target # None
    BY <1>0, <1>2, <1>3, <2>1 DEF IdsAreNew
  <2>2. CASE tasks[s].target = None /\ tasks[t].target # None
    BY <1>0, <1>2, <1>3, <2>2 DEF IdsAreNew
  <2>3. CASE tasks[s].target # None /\ tasks[t].target = None
    BY <1>0, <1>2, <1>3, <2>3 DEF IdsAreNew
  <2>4. CASE tasks[s].target = None /\ tasks[t].target = None
    <3>1. OnlyTask(s) /\ OnlyTask(t) /\ s \in Tasks /\ t \in Tasks
      BY <1>2, <1>3, <2>4
    <3>2. QED
      BY <1>3, <2>4, <3>1 DEF OnlyTask
  <2>5. QED
    BY <2>1, <2>2, <2>3, <2>4
<1>4. QED
  BY <1>1, <1>2, <1>3 DEF IdsAreNew

LEMMA DeletedIsHiddenNext ==
  ASSUME TypeInv, TypeInv', IdInv, DeleteInv, [Next]_vars
  PROVE  DeletedIsHidden'
<1>0. /\ KnownIsNamed /\ IdsAreNew /\ DeletedIsHidden /\ StoreTypeOK
      /\ Tasks \subseteq Tasks' /\ \A t \in Tasks' : t \notin Tasks => User /\ t = New
  BY TasksGo DEF DeleteInv, TypeInv, TypeOK
<1>1. ASSUME NEW t \in Tasks, Deletes(t)'
      PROVE  /\ Deletes(t) /\ tasks[t].op = "delete" /\ tasks[t].id \in Ids
             /\ Resolve(tasks[t].id) \in Ids /\ tasks'[t].id = tasks[t].id
             /\ ~Shown(Resolve(tasks[t].id))
             /\ Taken(t) => tasks[t].target = Resolve(tasks[t].id)
  <2>1. Deletes(t) /\ tasks[t].op = "delete" /\ tasks'[t].id = tasks[t].id
    BY <1>1, TasksGo DEF Deletes, Carries, SameTask
  <2>2. tasks[t].id \in Ids
    BY <2>1, TaskFacts DEF Shape, Writes
  <2>3. QED
    BY <1>0, <2>1, <2>2, ResolveFacts DEF DeletedIsHidden
<1>2. ASSUME NEW t \in Tasks', t \notin Tasks, Deletes(t)'
      PROVE  /\ t = New /\ User /\ tasks'[t].id \in Ids /\ Shown(tasks'[t].id)
             /\ Resolve(tasks'[t].id) = tasks'[t].id
             /\ idMap' = idMap /\ RemoveObject(tasks'[t].id) /\ ~Taken(t)'
  <2>1. t = New /\ User /\ UserAdds(tasks'[t]) /\ idMap' = idMap /\ Fresh(tasks'[t])
    BY <1>0, <1>2, UserStep
  <2>2. PICK o \in Ids : RemoveObject(o) /\ Shown(o) /\ tasks'[t].id = o
    BY <1>2, <2>1 DEF UserAdds, Deletes
  <2>3. Resolve(o) = o
    BY <2>2 DEF Resolve, IdInv, IdsAreKnown
  <2>4. QED
    BY <2>1, <2>2, <2>3 DEF Fresh, Taken
<1>3. ASSUME NEW t \in Tasks, Deletes(t)', NEW id \in Ids, id = tasks[t].id,
             NEW p \in Ids, p = Resolve(id)'
      PROVE  ~Shown(p)'
  <2>0. Deletes(t) /\ tasks[t].op = "delete" /\ ~Shown(Resolve(id))
    BY <1>1, <1>3
  <2>01. tasks[t].op \in Writes
    BY <2>0 DEF Writes
  <2>1. ASSUME p = Resolve(id), Shown(p)'
        PROVE  FALSE
    <3>1. Brings(p)
      BY <2>0, <2>1, Appears
    <3>2. ~(p \in Temps /\ AddObject(p))
      <4>1. p \in Temps => p = id
        BY <1>3, <2>1, ResolveFacts
      <4>2. QED
        BY <1>3, <4>1 DEF AddObject
    <3>3. ~\E s \in Tasks : tasks[s].op = "update" /\ p = Resolve(tasks[s].id) /\ Shown(tasks[s].id)
      <4>1. ASSUME NEW s \in Tasks, tasks[s].op = "update", p = Resolve(tasks[s].id), Shown(tasks[s].id)
            PROVE  FALSE
        <5>1. tasks[s].id \in Temps /\ idMap[tasks[s].id] # None
          BY <2>0, <2>1, <4>1 DEF Resolve
        <5>2. QED
          BY <4>1, <5>1 DEF IdInv, IdsAreKnown
      <4>2. QED
        BY <4>1
    <3>4. ~\E s \in Tasks : Fails(s) /\ tasks[s].op = "delete" /\ p = Resolve(tasks[s].id)
      <4>1. ASSUME NEW s \in Tasks, Fails(s), tasks[s].op = "delete", p = Resolve(tasks[s].id)
            PROVE  FALSE
        <5>1. tasks[s].outcome = "none" /\ tasks'[s].outcome = "failed"
          BY <4>1, TaskFacts, FailStep DEF Fails, Progress
        <5>2. s = t
          BY <1>0, <1>3, <2>0, <2>1, <4>1, <5>1 DEF Deletes, DeletedIsHidden
        <5>3. QED
          BY <1>3, <5>1, <5>2 DEF Deletes
      <4>2. QED
        BY <4>1
    <3>5. ~\E c \in Tasks : ObjectCreated(c) /\ p = tasks[c].target
      BY <1>3, <2>01, <2>1, CreatedStep, FreshTarget, NamedIsKnown DEF CreatedFacts
    <3>6. QED
      BY <3>1, <3>2, <3>3, <3>4, <3>5 DEF Brings
  <2>2. ASSUME NEW c \in Tasks, ObjectCreated(c), id = tasks[c].id, Resolve(id) = id, p = tasks[c].target
        PROVE  ~Shown(p)'
    <3>1. CreatedFacts(c) /\ ~Known(p)
      BY <2>2, CreatedStep, FreshTarget
    <3>2. ~Shown(p) /\ ~Shown(id)
      BY <1>0, <2>0, <2>2, <3>1 DEF KnownIsNamed, CreatedFacts
    <3>3. QED
      BY <1>0, <2>2, <3>1, <3>2, ReconcileIdStep DEF CreatedFacts
  <2>3. QED
    BY <1>3, <2>1, <2>2, ResolveGoes
<1>4. ASSUME NEW t \in Tasks, Deletes(t)', Taken(t)', NEW id \in Ids, id = tasks[t].id
      PROVE  tasks'[t].target = Resolve(id)'
  <2>0. Deletes(t) /\ tasks[t].op = "delete" /\ tasks[t].op \in Writes
    BY <1>1, <1>4 DEF Writes
  <2>1. CASE tasks[t].target # None
    <3>1. Taken(t) /\ tasks[t].target \in Servers
      BY <2>0, <2>1, TaskFacts DEF Progress, Taken, Deletes
    <3>2. tasks[t].target = Resolve(id) /\ tasks'[t].target = tasks[t].target
      BY <1>1, <1>4, <2>1, <3>1, TasksGo DEF Carries
    <3>3. QED
      BY <3>1, <3>2, ResolveStays
  <2>2. CASE tasks[t].target = None
    <3>1. tasks[t].pc = "queued"
      BY <2>0, <2>2, TaskFacts DEF Progress, Taken, Deletes
    <3>2. Run(t) /\ Ready(t)
      BY <1>4, <3>1, Starts DEF Taken
    <3>3. Accept(t)
      <4>1. ~Refuse(t) /\ ~LoseAnswer(t) /\ ~Claim(t) /\ ~Ending(t) /\ ~Moving(t)
        BY <1>4, <3>1, FailStep, EndStep, MoveStep DEF Claim, Taken
      <4>2. QED
        BY <3>2, <4>1 DEF Run, Ending, Moving
    <3>4. kernel' \in [Servers -> Seq(DataObject)]
      BY <3>3, AcceptTypes DEF ServerTypeOK
    <3>5. Carried(t, tasks'[t].target) /\ idMap' = idMap
      BY <3>3, <3>4, AcceptStep DEF Accept
    <3>6. QED
      BY <1>4, <2>0, <3>5 DEF Carried, Resolve
  <2>3. QED
    BY <2>1, <2>2
<1>5. ASSUME NEW s \in Tasks, NEW t \in Tasks, Deletes(s)', Deletes(t)',
             NEW i \in Ids, i = tasks[s].id, NEW j \in Ids, j = tasks[t].id, Resolve(i)' = Resolve(j)'
      PROVE  s = t
  <2>0. Deletes(s) /\ Deletes(t) /\ tasks[s].op \in Writes /\ tasks[t].op \in Writes
    BY <1>1, <1>5 DEF Writes
  <2>1. Resolve(i) = Resolve(j) => s = t
    BY <1>0, <1>5, <2>0 DEF DeletedIsHidden
  <2>2. ASSUME NEW c \in Tasks, ObjectCreated(c), NEW k \in Ids, k # tasks[c].id,
               NEW u \in Tasks, k = tasks[u].id, tasks[u].op \in Writes, Resolve(k)' = tasks[c].target
        PROVE  FALSE
    <3>1. CreatedFacts(c) /\ ~Known(tasks[c].target)
      BY <2>2, CreatedStep, FreshTarget
    <3>2. Resolve(k)' = Resolve(k)
      BY <2>2, <3>1 DEF Resolve, CreatedFacts
    <3>3. QED
      BY <2>2, <3>1, <3>2, NamedIsKnown DEF CreatedFacts
  <2>3. CASE Resolve(i)' = Resolve(i) /\ Resolve(j)' = Resolve(j)
    BY <1>5, <2>1, <2>3
  <2>4. ASSUME NEW c \in Tasks, ObjectCreated(c), i = tasks[c].id, Resolve(i)' = tasks[c].target
        PROVE  s = t
    BY <1>5, <2>0, <2>1, <2>2, <2>4
  <2>5. ASSUME NEW c \in Tasks, ObjectCreated(c), j = tasks[c].id, Resolve(j)' = tasks[c].target
        PROVE  s = t
    BY <1>5, <2>0, <2>1, <2>2, <2>5
  <2>6. QED
    BY <2>3, <2>4, <2>5, ResolveGoes
<1>6. ASSUME NEW t \in Tasks', t \notin Tasks, Deletes(t)', NEW o \in Ids, o = tasks'[t].id
      PROVE  ~Shown(o)' /\ Resolve(o)' = o /\ Shown(o)
  <2>1. RemoveObject(o) /\ Resolve(o)' = o /\ Shown(o)
    BY <1>2, <1>6 DEF Resolve
  <2>2. QED
    BY <1>0, <2>1, DeleteObjectStep DEF RemoveObject
<1>7. ASSUME NEW s \in Tasks, NEW t \in Tasks', t \notin Tasks, Deletes(s)', Deletes(t)',
             NEW i \in Ids, i = tasks[s].id, NEW j \in Ids, j = tasks'[t].id, Resolve(i)' = Resolve(j)'
      PROVE  FALSE
  <2>1. Resolve(j)' = j /\ Shown(j) /\ idMap' = idMap
    BY <1>2, <1>6, <1>7
  <2>2. Resolve(i)' = Resolve(i) /\ ~Shown(Resolve(i))
    BY <1>1, <1>7, <2>1 DEF Resolve
  <2>3. QED
    BY <1>7, <2>1, <2>2
<1>8. ASSUME NEW t \in Tasks', Deletes(t)'
      PROVE  /\ tasks'[t].id \in Ids /\ Resolve(tasks[t].id)' \in Ids
             /\ t \in Tasks => tasks'[t].id = tasks[t].id
             /\ \A o \in Ids : o = Resolve(tasks[t].id)' => ~Shown(o)'
             /\ Taken(t)' => tasks'[t].target = Resolve(tasks[t].id)'
  <2>1. PICK id \in Ids : id = tasks'[t].id
    BY <1>1, <1>2, <1>8
  <2>2. Resolve(id)' = Resolve(tasks[t].id)'
    BY <2>1 DEF Resolve
  <2>3. Resolve(id)' \in Ids
    BY DEF Resolve, Ids, TypeInv, TypeOK
  <2>4. CASE t \in Tasks
    BY <1>1, <1>3, <1>4, <1>8, <2>1, <2>2, <2>3, <2>4
  <2>5. CASE t \notin Tasks
    BY <1>2, <1>6, <1>8, <2>1, <2>2, <2>3, <2>5
  <2>6. QED
    BY <2>4, <2>5
<1>9. ASSUME NEW s \in Tasks', NEW t \in Tasks', Deletes(s)', Deletes(t)',
             Resolve(tasks[s].id)' = Resolve(tasks[t].id)'
      PROVE  s = t
  <2>1. PICK i \in Ids, j \in Ids : i = tasks'[s].id /\ j = tasks'[t].id
    BY <1>8, <1>9
  <2>2. Resolve(i)' = Resolve(j)'
    BY <1>9, <2>1 DEF Resolve
  <2>3. CASE s \in Tasks /\ t \in Tasks
    BY <1>5, <1>8, <1>9, <2>1, <2>2, <2>3
  <2>4. CASE s \in Tasks /\ t \notin Tasks
    BY <1>7, <1>8, <1>9, <2>1, <2>2, <2>4
  <2>5. CASE s \notin Tasks /\ t \in Tasks
    BY <1>7, <1>8, <1>9, <2>1, <2>2, <2>5
  <2>6. CASE s \notin Tasks /\ t \notin Tasks
    BY <1>0, <2>6
  <2>7. QED
    BY <2>3, <2>4, <2>5, <2>6
<1>10. ASSUME NEW t \in Tasks', Deletes(t)'
       PROVE  ~Shown(Resolve(tasks[t].id))'
  <2>1. PICK p \in Ids : p = Resolve(tasks[t].id)'
    BY <1>8, <1>10
  <2>2. ~Shown(p)'
    BY <1>8, <1>10, <2>1
  <2>3. QED
    BY <2>1, <2>2 DEF Shown
<1>11. QED
  BY <1>8, <1>9, <1>10 DEF DeletedIsHidden

LEMMA DeleteNext ==
  ASSUME TypeInv, TypeInv', IdInv, DeleteInv, [Next]_vars
  PROVE  DeleteInv'
BY KnownIsNamedNext, IdsAreNewNext, DeletedIsHiddenNext DEF DeleteInv

LEMMA InitDeletes == Init => DeleteInv
<1> SUFFICES ASSUME Init
             PROVE  DeleteInv
  OBVIOUS
<1>1. Tasks = {}
  BY DEF Init, Tasks
<1>2. \A o \in Servers : Shown(o) => o \in Loaded
  BY DEF Init, Shown, Ids
<1>3. \A o \in Loaded : kernel[o] # << >>
  BY BridgeAssumption DEF Init
<1>4. QED
  BY <1>1, <1>2, <1>3 DEF DeleteInv, KnownIsNamed, IdsAreNew, DeletedIsHidden, Known

(***************************************************************************)
(* An object whose deletion the kernel has accepted does not come back: a  *)
(* row that was on its way finds nothing to replace (reconcileObject), an  *)
(* earlier edit that fails rolls nothing back (rollbackField), a creation  *)
(* that is answered late shows nothing (reconcileObjectId), and only the   *)
(* failed deletion itself restores the object (restoreObject).             *)
(***************************************************************************)
THEOREM DeletionsLast == Spec => []DeletedStaysGone
<1>1. TypeInv /\ IdInv /\ DeleteInv /\ [Next]_vars => TypeInv' /\ IdInv' /\ DeleteInv'
  BY NextTypes, IdNext, DeleteNext
<1>2. TypeInv /\ DeleteInv => DeletedStaysGone
  <2> SUFFICES ASSUME TypeInv, DeleteInv, NEW t \in Tasks, tasks[t].op = "delete",
                      tasks[t].outcome \in {"synced", "pending"}
               PROVE  ~Shown(tasks[t].target)
    BY DEF DeletedStaysGone
  <2>1. Deletes(t) /\ Taken(t)
    BY TaskFacts DEF Deletes, Taken, Progress
  <2>2. QED
    BY <2>1 DEF DeleteInv, DeletedIsHidden
<1>3. QED
  BY <1>1, <1>2, InitTypes, InitIds, InitDeletes, PTL DEF Spec

-----------------------------------------------------------------------------
(* Objects that were loaded.                                               *)

(* A set of tasks has a last one.                                          *)
LEMMA HasLast ==
  ASSUME NEW n \in Nat, NEW S \in SUBSET (1 .. n), S # {}
  PROVE  \E m \in S : \A s \in S : s <= m
<1> DEFINE D == {n - s : s \in S}
<1>1. D \subseteq Nat /\ D # {}
  <2>1. \A s \in S : s \in Nat /\ s <= n /\ n - s \in Nat
    OBVIOUS
  <2>2. QED
    BY <2>1
<1>2. PICK d \in D : \A k \in D : ~ (<< k, d >> \in OpToRel(<, Nat))
  <2> HIDE DEF D
  <2>1. QED
    BY <1>1, NatLessThanWellFounded, WFMin
<1>3. \A k \in D : ~ (k < d)
  BY <1>1, <1>2, Zenon DEF OpToRel
<1>4. PICK m \in S : d = n - m
  BY <1>2
<1>5. ASSUME NEW s \in S
      PROVE  s <= m
  <2>1. ~ (n - s < n - m) /\ s \in Nat /\ m \in Nat
    BY <1>3, <1>4
  <2>2. QED
    BY <2>1
<1>6. QED
  BY <1>5

(* Only a loaded object itself resolves to it.                             *)
LEMMA LoadedIsItself ==
  ASSUME TypeInv, IdInv, DeleteInv, NEW o \in Loaded
  PROVE  /\ o \in Servers /\ o \in Ids /\ o \notin Temps /\ Resolve(o) = o
         /\ \A n \in Temps : idMap[n] # o
         /\ \A id : Resolve(id) = o => id = o
<1>1. o \in Servers /\ o \in Ids /\ o \notin Temps /\ o # None
  BY BridgeAssumption, IdsApart DEF Ids
<1>2. ASSUME NEW n \in Temps, idMap[n] = o
      PROVE  FALSE
  <2>1. PICK c \in Tasks : Creates(c, n)
    BY <1>1, <1>2 DEF IdInv, TempsAreCreated
  <2>2. tasks[c].target = o /\ tasks[c].op = "create"
    BY <1>1, <1>2, <2>1 DEF IdInv, IdsAreKnown, Creates
  <2>3. QED
    BY <1>1, <2>2 DEF DeleteInv, IdsAreNew
<1>3. QED
  BY <1>1, <1>2 DEF Resolve

LEMMA AloneBefore ==
  ASSUME TypeInv, [Next]_vars, NEW o
  PROVE  /\ Alone(o)' => Alone(o)
         /\ Smooth(o)' => Smooth(o)
         /\ \A t \in Tasks : t \in WritesOf(o)' <=> t \in WritesOf(o)
         /\ \A t \in Tasks : t \in Updates(o)' <=> t \in Updates(o)
<1>1. ASSUME NEW t \in Tasks
      PROVE  /\ t \in Tasks' /\ tasks'[t].op = tasks[t].op /\ tasks'[t].id = tasks[t].id
             /\ tasks'[t].src = tasks[t].src /\ tasks'[t].tgt = tasks[t].tgt
             /\ tasks[t].outcome \in {"failed", "pending"} => tasks'[t].outcome = tasks[t].outcome
  BY TasksGo DEF Carries, SameTask
<1>2. Alone(o)' => Alone(o)
  BY <1>1 DEF Alone
<1>3. \A t \in Tasks : t \in WritesOf(o)' <=> t \in WritesOf(o)
  BY <1>1 DEF WritesOf
<1>4. Smooth(o)' => Smooth(o)
  <2>1. ASSUME Smooth(o)', NEW t \in WritesOf(o)
        PROVE  tasks[t].outcome \notin {"failed", "pending"}
    <3>1. t \in Tasks /\ t \in WritesOf(o)'
      BY <1>3 DEF WritesOf
    <3>2. QED
      BY <1>1, <2>1, <3>1 DEF Smooth
  <2>2. QED
    BY <1>2, <2>1 DEF Smooth
<1>5. QED
  BY <1>1, <1>2, <1>3, <1>4 DEF Updates

(* Nothing that is refreshed around other objects is alone.                *)
LEMMA RelatedIsApart ==
  ASSUME NEW o, \A r \in RelIds : ~Touches(r, o), NEW p
  PROVE  o \notin Related(p)
<1>1. \A S : o \notin Around(S)
  BY DEF Around, Touches, Present
<1>2. QED
  BY <1>1 DEF Related, Refreshable

LEMMA ApartEndpoints ==
  ASSUME TypeInv, AloneIsApart, NEW o \in Loaded, Alone(o), NEW t \in Tasks,
         tasks[t].op \in {"relate", "unlink", "delete"}
  PROVE  o \notin Endpoints(t)
BY DEF AloneIsApart, Alone, Endpoints, Ends

LEMMA FetchesApart ==
  ASSUME TypeInv, IdInv, DeleteInv, AloneIsApart, [Next]_vars, NEW o \in Loaded, Alone(o)',
         NEW x \in fetches'
  PROVE  x.obj # o
<1>0. /\ Alone(o) /\ \A r \in RelIds : ~Touches(r, o)
      /\ \A y \in fetches : y.obj # o
  BY AloneBefore DEF AloneIsApart
<1>1. CASE fetches' \subseteq fetches
  BY <1>0, <1>1
<1>2. ASSUME NEW t \in Tasks, NEW ids, StartFetches(t, ids), o \notin ids
      PROVE  x.obj # o
  BY <1>0, <1>2 DEF StartFetches
<1>3. ASSUME NEW t \in Tasks, FieldWritten(t)
      PROVE  x.obj # o
  <2>1. StartFetches(t, Related(tasks[t].target))
    BY <1>3 DEF FieldWritten
  <2>2. QED
    BY <1>0, <1>2, <2>1, RelatedIsApart
<1>4. ASSUME NEW t \in Tasks, RelationWritten(t)
      PROVE  x.obj # o
  <2>1. StartFetches(t, {Resolve(e) : e \in Endpoints(t)}) /\ o \notin Endpoints(t)
    BY <1>0, <1>4, ApartEndpoints DEF RelationWritten
  <2>2. o \notin {Resolve(e) : e \in Endpoints(t)}
    BY <2>1, LoadedIsItself
  <2>3. QED
    BY <1>2, <2>1, <2>2
<1>5. ASSUME NEW t \in Tasks, RefreshRelated(t)
      PROVE  x.obj # o
  <2>1. StartFetches(t, UNION {Related(e) : e \in Endpoints(t)})
    BY <1>5 DEF RefreshRelated
  <2>2. o \notin UNION {Related(e) : e \in Endpoints(t)}
    BY <1>0, RelatedIsApart
  <2>3. QED
    BY <1>2, <2>1, <2>2
<1>6. CASE \E y \in fetches : FetchRow(y)
  <2>1. PICK y \in fetches : FetchRow(y)
    BY <1>6
  <2>2. PICK row : fetches' = (fetches \ {y}) \cup {[y EXCEPT !.row = row]}
    BY <2>1 DEF FetchRow
  <2>3. [y EXCEPT !.row = row].obj = y.obj
    OBVIOUS
  <2>4. QED
    BY <1>0, <2>1, <2>2, <2>3
<1>7. CASE \E y \in fetches : FetchFails(y)
  <2>1. x \in fetches \/ \E z \in fetches : x = [z EXCEPT !.task = 0]
    BY <1>7 DEF FetchFails
  <2>2. \A z \in fetches : [z EXCEPT !.task = 0].obj = z.obj
    OBVIOUS
  <2>3. QED
    BY <1>0, <2>1, <2>2
<1>8. CASE User
  BY <1>0, <1>8, UserStep
<1>9. QED
  BY <1>1, <1>3, <1>4, <1>5, <1>6, <1>7, <1>8
  DEF Next, Run, Accept, Refuse, LoseAnswer, Claim, GiveUpClaim, ObjectCreated, Finish,
      Refresh, ShowRow, OtherUpdate, vars

LEMMA AloneIsApartNext ==
  ASSUME TypeInv, IdInv, DeleteInv, AloneIsApart, [Next]_vars
  PROVE  AloneIsApart'
<1>0. Tasks \subseteq Tasks' /\ \A t \in Tasks' : t \notin Tasks => User /\ t = New
  BY TasksGo
<1>1. ASSUME NEW o \in Loaded, Alone(o)', NEW r \in RelIds, Present(r)'
      PROVE  o \notin Ends(relations'[r])
  <2>0. /\ Alone(o)
        /\ \A q \in RelIds : Present(q) => o \notin Ends(relations[q])
        /\ \A t \in Tasks : tasks[t].op = "unlink" => o \notin Ends(tasks[t].prev)
        /\ \A t \in Tasks : tasks[t].op = "delete" =>
             \A q \in RelIds : tasks[t].prev.rels[q] # None => o \notin Ends(tasks[t].prev.rels[q])
    BY <1>1, AloneBefore DEF AloneIsApart, Touches, Present, Ends
  <2>1. EndsFrom(r) /\ \A id : Resolve(id) = o => id = o
    BY <1>1, EndsComeFrom, LoadedIsItself
  <2>2. ASSUME User, NEW a \in Ids, NEW b \in Ids, Relate(r, a, b), r \in TempLinks
        PROVE  o \notin {a, b}
    <3>1. New \in Tasks' /\ tasks'[New].op = "relate" /\ tasks'[New].src = a /\ tasks'[New].tgt = b
      BY <2>2, RelateStep, UserStep
    <3>2. PICK k \in Tasks' : tasks'[k].op = "relate" /\ tasks'[k].src = a /\ tasks'[k].tgt = b
      BY <3>1
    <3>3. QED
      BY <1>1, <3>2 DEF Alone
  <2>3. ASSUME NEW t \in Tasks, ObjectCreated(t), Present(r), Ends(relations'[r]) =
                 {IF e = tasks[t].id THEN tasks[t].target ELSE e : e \in Ends(relations[r])}
        PROVE  o \notin Ends(relations'[r])
    <3>1. tasks[t].target # o
      BY <2>3, CreatedStep DEF CreatedFacts, DeleteInv, IdsAreNew
    <3>2. QED
      BY <2>0, <2>3, <3>1
  <2>4. ASSUME NEW t \in Tasks, tasks[t].op = "delete", tasks[t].prev.rels[r] # None,
               Ends(relations'[r]) =
                 {IF e = tasks[t].id THEN Resolve(tasks[t].id) ELSE e :
                    e \in Ends(tasks[t].prev.rels[r])}
        PROVE  o \notin Ends(relations'[r])
    BY <2>0, <2>1, <2>4
  <2>5. ASSUME NEW t \in Tasks, tasks[t].op = "relate",
               Ends(relations'[r]) = {Resolve(tasks[t].src), Resolve(tasks[t].tgt)}
        PROVE  o \notin Ends(relations'[r])
    BY <2>0, <2>1, <2>5 DEF Alone
  <2>6. QED
    BY <2>0, <2>1, <2>2, <2>3, <2>4, <2>5 DEF EndsFrom
<1>2. ASSUME NEW o \in Loaded, Alone(o)', NEW t \in Tasks'
      PROVE  /\ tasks'[t].op = "unlink" => o \notin Ends(tasks'[t].prev)
             /\ tasks'[t].op = "delete" => \A r \in RelIds : tasks'[t].prev.rels[r] # None =>
                  o \notin Ends(tasks'[t].prev.rels[r])
  <2>0. Alone(o) /\ \A q \in RelIds : Present(q) => o \notin Ends(relations[q])
    BY <1>2, AloneBefore DEF AloneIsApart, Touches, Present, Ends
  <2>1. CASE t \in Tasks
    BY <2>0, <2>1, TasksGo DEF Carries, SameTask, AloneIsApart
  <2>2. CASE t \notin Tasks
    <3>1. UserAdds(tasks'[t])
      BY <1>0, <2>2, UserStep
    <3>2. tasks'[t].op = "unlink" => o \notin Ends(tasks'[t].prev)
      BY <2>0, <3>1 DEF UserAdds
    <3>3. ASSUME tasks'[t].op = "delete", NEW r \in RelIds, tasks'[t].prev.rels[r] # None
          PROVE  o \notin Ends(tasks'[t].prev.rels[r])
      <4>1. PICK p \in Ids : Shown(p) /\ tasks'[t].prev = Snapshot(p)
        BY <3>1, <3>3 DEF UserAdds
      <4>2. tasks'[t].prev.rels[r] = relations[r] /\ Present(r)
        BY <3>3, <4>1, SnapshotFacts DEF Present
      <4>3. QED
        BY <2>0, <4>2
    <3>4. QED
      BY <3>2, <3>3
  <2>3. QED
    BY <2>1, <2>2
<1>3. ASSUME NEW o \in Loaded, Alone(o)', NEW r \in RelIds
      PROVE  ~Touches(r, o)'
  BY <1>1, <1>3 DEF Touches, Present, Ends
<1>4. QED
  BY <1>2, <1>3, FetchesApart DEF AloneIsApart

-----------------------------------------------------------------------------
(* The versions of an object, and how far they have been read.             *)

(* The value of a field in a new version: as it was, another user's, or    *)
(* that of the task which is carried out.                                  *)
ValueFrom(o, e, f) ==
  \/ kernel[o] # << >> /\ e.val[f] = Now(o).val[f]
  \/ e.val[f] \in OtherValues
  \/ \E t \in Tasks : /\ tasks[t].target = None /\ tasks'[t].target = o
                      /\ tasks[t].op \in {"update", "create"} /\ e.val[f] = tasks[t].v

NextVersion(o, e) ==
  /\ Grown(o, e)
  /\ kernel[o] # << >> => e.version = Now(o).version + 1
  /\ \A f \in Fields : ValueFrom(o, e, f)

LEMMA KernelAdds ==
  ASSUME TypeInv, [Next]_vars
  PROVE  \/ kernel' = kernel
         \/ \E o \in Servers, e \in DataObject : NextVersion(o, e)
<1>1. CASE \E o \in Loaded, f \in Fields, w \in OtherValues : OtherUpdate(o, f, w)
  <2>1. PICK o \in Loaded, f \in Fields, w \in OtherValues : OtherUpdate(o, f, w)
    BY <1>1
  <2>2. PICK e \in DataObject : Written(o, e, f, w)
    BY <2>1, OtherUpdateStep
  <2>3. o \in Servers /\ NextVersion(o, e)
    BY <2>2, BridgeAssumption DEF Written, NextVersion, ValueFrom
  <2>4. QED
    BY <2>3
<1>2. CASE \E t \in Tasks : Accept(t)
  <2>1. PICK t \in Tasks : Accept(t)
    BY <1>2
  <2>2. kernel' \in [Servers -> Seq(DataObject)]
    BY <2>1, AcceptTypes DEF ServerTypeOK
  <2>3. PICK x \in Servers \cup Links : Carried(t, x) /\ x = tasks'[t].target
    BY <2>1, <2>2, AcceptStep
  <2>4. tasks[t].target = None
    BY <2>1, TaskFacts DEF Accept, Ready, Progress
  <2>5. CASE tasks[t].op = "update" /\ x \in Servers /\
             \E e \in DataObject : Written(x, e, tasks[t].f, tasks[t].v)
    <3>1. PICK e \in DataObject : Written(x, e, tasks[t].f, tasks[t].v)
      BY <2>5
    <3>2. NextVersion(x, e)
      BY <2>3, <2>4, <2>5, <3>1 DEF Written, NextVersion, ValueFrom
    <3>3. QED
      BY <2>5, <3>2
  <2>6. CASE /\ tasks[t].op = "create" /\ x \in Servers /\ kernel[x] = << >>
             /\ \E e \in DataObject : Grown(x, e) /\ \A f \in Fields : e.val[f] = tasks[t].v
    <3>1. PICK e \in DataObject : Grown(x, e) /\ \A f \in Fields : e.val[f] = tasks[t].v
      BY <2>6
    <3>2. NextVersion(x, e)
      BY <2>3, <2>4, <2>6, <3>1 DEF NextVersion, ValueFrom
    <3>3. QED
      BY <2>6, <3>2
  <2>7. CASE /\ tasks[t].op = "delete" /\ x \in Servers /\ kernel[x] # << >>
             /\ \E e \in DataObject :
                  Grown(x, e) /\ e.version = Now(x).version + 1 /\ e.val = Now(x).val
    <3>1. PICK e \in DataObject : Grown(x, e) /\ e.version = Now(x).version + 1 /\ e.val = Now(x).val
      BY <2>7
    <3>2. NextVersion(x, e)
      BY <2>7, <3>1 DEF NextVersion, ValueFrom
    <3>3. QED
      BY <2>7, <3>2
  <2>8. QED
    BY <2>3, <2>5, <2>6, <2>7, CarriedKernel
<1>3. CASE User
  BY <1>3, UserStep DEF server
<1>4. QED
  BY <1>1, <1>2, <1>3
  DEF Next, Run, Refuse, LoseAnswer, Claim, GiveUpClaim, FieldWritten, ObjectCreated, RelationWritten,
      RefreshRelated, Finish, Refresh, FetchRow, ShowRow, FetchFails, vars, server

(* What the read model has shown only grows, and stays within the kernel.  *)
LEMMA SeenGoes ==
  ASSUME TypeInv, [Next]_vars, NEW o \in Servers
  PROVE  /\ seen[o].row \in Nat \ {0} /\ seen[o].row <= seen'[o].row
         /\ \A f \in Fields : seen[o].f[f] \in Nat \ {0} /\ seen[o].f[f] <= seen'[o].f[f]
         /\ \/ seen'[o] = seen[o]
            \/ /\ kernel' = kernel
               /\ seen'[o].row <= Len(kernel[o]) /\ \A f \in Fields : seen'[o].f[f] <= Len(kernel[o])
               /\ \/ \E t \in Tasks : Claim(t) /\ tasks[t].target = o
                  \/ \E x \in fetches : FetchRow(x) /\ x.obj = o
<1>0. seen[o] \in Reading /\ seen[o].row \in Nat \ {0}
      /\ \A f \in Fields : seen[o].f[f] \in Nat \ {0}
  BY DEF TypeInv, TypeOK, Reading
<1>1. CASE seen'[o] = seen[o]
  BY <1>0, <1>1
<1>2. ASSUME NEW p, NEW i \in Steps, NEW j \in [Fields -> Steps], ReadRow(p, i, j)
      PROVE  \/ seen'[o] = seen[o]
             \/ /\ p = o /\ seen[o].row <= seen'[o].row /\ seen'[o].row <= Len(kernel[o])
                /\ \A f \in Fields : /\ seen[o].f[f] <= seen'[o].f[f]
                                     /\ seen'[o].f[f] <= Len(kernel[o])
  BY <1>2, ReadRowFacts
<1>3. ASSUME NEW t \in Tasks, Claim(t)
      PROVE  \/ seen'[o] = seen[o]
             \/ /\ tasks[t].target = o /\ seen[o].row <= seen'[o].row /\ seen'[o].row <= Len(kernel[o])
                /\ \A f \in Fields : /\ seen[o].f[f] <= seen'[o].f[f]
                                     /\ seen'[o].f[f] <= Len(kernel[o])
                /\ kernel' = kernel
  BY <1>2, <1>3 DEF Claim, server
<1>4. ASSUME NEW x \in fetches, FetchRow(x)
      PROVE  \/ seen'[o] = seen[o]
             \/ /\ x.obj = o /\ seen[o].row <= seen'[o].row /\ seen'[o].row <= Len(kernel[o])
                /\ \A f \in Fields : /\ seen[o].f[f] <= seen'[o].f[f]
                                     /\ seen'[o].f[f] <= Len(kernel[o])
                /\ kernel' = kernel
  BY <1>2, <1>4 DEF FetchRow, server
<1>5. CASE User
  BY <1>1, <1>5, UserStep
<1>6. CASE \E t \in Tasks : Claim(t)
  BY <1>0, <1>1, <1>3, <1>6
<1>7. CASE \E x \in fetches : FetchRow(x)
  BY <1>0, <1>1, <1>4, <1>7
<1>8. CASE UNCHANGED seen
  BY <1>1, <1>8
<1>9. QED
  BY <1>5, <1>6, <1>7, <1>8
  DEF Next, Run, Accept, Refuse, LoseAnswer, GiveUpClaim, FieldWritten, ObjectCreated, RelationWritten,
      RefreshRelated, Finish, Refresh, ShowRow, FetchFails, OtherUpdate, vars

LEMMA KernelInvNext ==
  ASSUME TypeInv, DeleteInv, KernelInv, [Next]_vars
  PROVE  KernelInv'
<1>0. Tasks \subseteq Tasks' /\ Loaded \subseteq Servers /\ \A o \in Loaded : kernel[o] # << >>
  BY TasksGo, BridgeAssumption DEF DeleteInv, IdsAreNew
<1>00. \A o \in Servers : kernel[o] \in Seq(DataObject) /\ Len(kernel[o]) \in Nat
         /\ \A i \in 1 .. Len(kernel[o]) : kernel[o][i] \in DataObject /\ kernel[o][i].version \in Nat
  <2>1. \A e \in DataObject : e.version \in Nat
    BY DEF DataObject
  <2>2. kernel \in [Servers -> Seq(DataObject)]
    BY DEF TypeInv, TypeOK
  <2>3. QED
    BY <2>1, <2>2
<1>1. ASSUME NEW o \in Loaded
      PROVE  seen'[o].row <= Len(kernel'[o]) /\ \A f \in Fields : seen'[o].f[f] <= Len(kernel'[o])
  <2>1. o \in Servers /\ Len(kernel[o]) <= Len(kernel'[o]) /\ Len(kernel[o]) \in Nat /\ Len(kernel'[o]) \in Nat
    BY <1>0, KernelStays
  <2>2. seen[o].row <= Len(kernel[o]) /\ \A f \in Fields : seen[o].f[f] <= Len(kernel[o])
    BY DEF KernelInv
  <2>3. CASE seen'[o] = seen[o]
    <3>1. seen[o].row \in Nat /\ \A f \in Fields : seen[o].f[f] \in Nat
      BY <2>1, SeenGoes
    <3>2. QED
      BY <2>1, <2>2, <2>3, <3>1
  <2>4. QED
    BY <2>1, <2>3, SeenGoes
<1>2. CASE kernel' = kernel
  BY <1>0, <1>1, <1>2 DEF KernelInv
<1>3. ASSUME NEW p \in Servers, NEW e \in DataObject, NextVersion(p, e)
      PROVE  KernelInv'
  <2>0. /\ Len(kernel'[p]) = Len(kernel[p]) + 1 /\ kernel'[p][Len(kernel[p]) + 1] = e
        /\ \A i \in 1 .. Len(kernel[p]) : kernel'[p][i] = kernel[p][i]
        /\ \A q \in Servers : q # p => kernel'[q] = kernel[q]
    BY <1>3 DEF NextVersion, Grown
  <2>1. ASSUME NEW o \in Servers, NEW i \in 1 .. Len(kernel'[o]), NEW j \in 1 .. Len(kernel'[o]), i <= j
        PROVE  kernel'[o][i].version <= kernel'[o][j].version
    <3>1. CASE o # p \/ j <= Len(kernel[p])
      BY <1>00, <2>0, <2>1, <3>1 DEF KernelInv
    <3>2. CASE o = p /\ j = Len(kernel[p]) + 1 /\ i <= Len(kernel[p])
      <4>1. kernel[p] # << >> /\ Len(kernel[p]) \in Nat /\ i \in 1 .. Len(kernel[p])
        BY <1>00, <3>2
      <4>2. Now(p) = kernel[p][Len(kernel[p])] /\ Len(kernel[p]) \in 1 .. Len(kernel[p])
        BY <4>1, NowFacts
      <4>3. kernel[p][i].version <= Now(p).version
        BY <4>1, <4>2 DEF KernelInv
      <4>4. e.version = Now(p).version + 1 /\ Now(p).version \in Nat /\ kernel[p][i].version \in Nat
        BY <1>3, <1>00, <4>1, <4>2 DEF NextVersion
      <4>5. QED
        BY SMTT(30), <2>0, <3>2, <4>1, <4>3, <4>4
    <3>3. CASE o = p /\ i = Len(kernel[p]) + 1
      <4>1. j = i /\ kernel'[o][i] = e /\ e.version \in Nat
        BY <1>00, <2>0, <2>1, <3>3 DEF DataObject
      <4>2. QED
        BY <4>1
    <3>4. QED
      BY <1>00, <2>0, <2>1, <3>1, <3>2, <3>3
  <2>2. ASSUME NEW o \in Servers, NEW i \in 1 .. Len(kernel'[o]), NEW f \in Fields
        PROVE  kernel'[o][i].val[f] \in {0} \cup OtherValues \cup Tasks'
    <3>1. CASE o # p \/ i <= Len(kernel[p])
      BY SMTT(30), <1>0, <1>00, <2>0, <2>2, <3>1 DEF KernelInv
    <3>2. CASE o = p /\ i = Len(kernel[p]) + 1
      <4>1. ValueFrom(p, e, f) /\ kernel'[o][i] = e
        BY <1>3, <2>0, <3>2 DEF NextVersion
      <4>2. ASSUME kernel[p] # << >>, e.val[f] = Now(p).val[f]
            PROVE  e.val[f] \in {0} \cup OtherValues \cup Tasks
        <5>1. Now(p) = kernel[p][Len(kernel[p])] /\ Len(kernel[p]) \in 1 .. Len(kernel[p])
          BY <4>2, NowFacts
        <5>2. QED
          BY <4>2, <5>1 DEF KernelInv
      <4>3. \A t \in Tasks : tasks[t].op \in {"update", "create"} => tasks[t].v \in {0} \cup Tasks
        BY TaskFacts DEF Shape
      <4>4. QED
        BY <1>0, <4>1, <4>2, <4>3 DEF ValueFrom
    <3>3. QED
      BY <1>00, <2>0, <2>2, <3>1, <3>2
  <2>3. QED
    BY <1>1, <2>1, <2>2 DEF KernelInv
<1>4. QED
  BY <1>2, <1>3, KernelAdds

LEMMA TargetsAreNamedNext ==
  ASSUME TypeInv, IdInv, TargetsAreNamed, [Next]_vars
  PROVE  TargetsAreNamed'
<1>1. ASSUME NEW t \in Tasks', tasks'[t].op = "update", tasks'[t].target # None,
             NEW id \in {tasks'[t].id}
      PROVE  tasks'[t].target = Resolve(id)'
  <2>1. t \in Tasks
    BY <1>1, TasksGo, UserStep DEF Fresh
  <2>2. tasks[t].op = "update" /\ tasks[t].id = id
    BY <1>1, <2>1, TasksGo DEF Carries, SameTask
  <2>3. id \in Ids
    BY <2>1, <2>2, TaskFacts DEF Shape, Writes
  <2>4. CASE tasks[t].target # None
    <3>1. tasks'[t].target = tasks[t].target /\ tasks[t].target \in Servers
      BY <2>1, <2>2, <2>4, TasksGo, TaskFacts DEF Carries, Progress, Writes
    <3>2. tasks[t].target = Resolve(id)
      BY <2>1, <2>2, <2>4 DEF TargetsAreNamed
    <3>3. QED
      BY <2>3, <3>1, <3>2, ResolveStays
  <2>5. CASE tasks[t].target = None
    BY <1>1, <2>1, <2>2, <2>5, Targets DEF Carried, Resolve
  <2>6. QED
    BY <2>4, <2>5
<1>2. QED
  BY <1>1 DEF TargetsAreNamed, Resolve

LEMMA WritesAreThereNext ==
  ASSUME TypeInv, IdInv, DeleteInv, KernelInv, TargetsAreNamed, WritesAreThere, [Next]_vars
  PROVE  WritesAreThere'
<1>1. SUFFICES ASSUME NEW o \in Loaded, NEW t \in Updates(o)'
               PROVE  /\ o \in tasks'[t].keys
                      /\ tasks'[t].target # None =>
                           /\ tasks'[t].target = o /\ tasks'[t].at \in 1 .. Len(kernel'[o])
                           /\ kernel'[o][tasks'[t].at].val[tasks'[t].f] = tasks'[t].v
                      /\ tasks'[t].v # 0 => \A i \in 1 .. Len(kernel'[o]) :
                           kernel'[o][i].val[tasks'[t].f] = tasks'[t].v =>
                             tasks'[t].target # None /\ tasks'[t].at <= i
  BY DEF WritesAreThere
<1>0. /\ t \in Tasks' /\ tasks'[t].op = "update" /\ tasks'[t].id = o
      /\ t \notin Tasks => User /\ t = New
  BY <1>1, TasksGo DEF Updates, WritesOf
<1>2. /\ o \in Servers /\ kernel[o] # << >> /\ Resolve(o) = o
      /\ kernel[o] \in Seq(DataObject) /\ Len(kernel[o]) \in Nat \ {0}
      /\ Now(o) = kernel[o][Len(kernel[o])]
  BY LoadedIsItself, NowFacts DEF DeleteInv, IdsAreNew
<1>3. /\ Len(kernel'[o]) \in Nat /\ Len(kernel[o]) <= Len(kernel'[o])
      /\ \A i \in 1 .. Len(kernel[o]) : kernel'[o][i] = kernel[o][i]
  BY <1>2, KernelStays
<1>4. CASE t \notin Tasks
  <2>1. User /\ t = New /\ UserAdds(tasks'[t]) /\ Fresh(tasks'[t]) /\ kernel' = kernel
    BY <1>0, <1>4, UserStep DEF server
  <2>2. tasks'[t].keys = {o} /\ tasks'[t].v \in {0, New} /\ tasks'[t].f \in Fields
    BY <1>0, <1>2, <2>1 DEF UserAdds
  <2>3. New \notin {0} \cup OtherValues \cup Tasks
    BY <2>1, UserStep
  <2>4. \A i \in 1 .. Len(kernel[o]) : kernel[o][i].val[tasks'[t].f] \in {0} \cup OtherValues \cup Tasks
    BY <1>2, <2>2 DEF KernelInv
  <2>5. QED
    BY <2>1, <2>2, <2>3, <2>4 DEF Fresh
<1>5. CASE t \in Tasks
  <2>1. /\ SameTask(tasks[t], tasks'[t]) /\ t \in Updates(o) /\ tasks[t].op = "update" /\ tasks[t].id = o
        /\ tasks[t].target # None => tasks'[t].target = tasks[t].target /\ tasks'[t].at = tasks[t].at
    BY <1>1, <1>5, TasksGo, AloneBefore DEF Carries, Updates, WritesOf
  <2> DEFINE f == tasks[t].f  v == tasks[t].v
  <2>2. /\ o \in tasks[t].keys
        /\ tasks[t].target # None =>
             /\ tasks[t].target = o /\ tasks[t].at \in 1 .. Len(kernel[o])
             /\ kernel[o][tasks[t].at].val[f] = v
        /\ v # 0 => \A i \in 1 .. Len(kernel[o]) :
             kernel[o][i].val[f] = v => tasks[t].target # None /\ tasks[t].at <= i
    BY <2>1 DEF WritesAreThere
  <2>3. f \in Fields /\ v \in {0, t} /\ t \in Nat /\ t \notin OtherValues
    BY <1>5, <2>1, TaskFacts DEF Shape
  <2>4. o \in tasks'[t].keys /\ tasks'[t].f = f /\ tasks'[t].v = v
    BY <2>1, <2>2 DEF SameTask
  <2>5. ASSUME tasks[t].target = None, tasks'[t].target # None
        PROVE  /\ tasks'[t].target = o /\ tasks'[t].at = Len(kernel'[o])
               /\ kernel'[o][Len(kernel'[o])].val[f] = v
    <3>1. Carried(t, tasks'[t].target)
      BY <1>5, <2>5, Targets
    <3>2. tasks'[t].target = o /\ KernelUpdate(o, f, v, tasks[t].expected)
      BY <1>2, <2>1, <3>1 DEF Carried
    <3>3. tasks'[t].at = Len(kernel'[o]) /\ v \in Values
      BY <1>2, <1>5, <2>5, <3>2, Targets, TaskFacts
    <3>4. CASE kernel' = kernel /\ Now(o).val[f] = v
      BY <1>2, <3>2, <3>3, <3>4
    <3>5. CASE \E e \in DataObject : Written(o, e, f, v)
      BY <1>2, <3>2, <3>3, <3>5 DEF Written, Grown
    <3>6. QED
      BY <2>3, <3>2, <3>3, <3>4, <3>5, KernelUpdateStep
  <2>6. ASSUME tasks'[t].target # None
        PROVE  /\ tasks'[t].target = o /\ tasks'[t].at \in 1 .. Len(kernel'[o])
               /\ kernel'[o][tasks'[t].at].val[f] = v
    <3>1. CASE tasks[t].target # None
      BY <1>2, <1>3, <2>1, <2>2, <3>1
    <3>2. CASE tasks[t].target = None
      BY <1>2, <1>3, <2>5, <2>6, <3>2
    <3>3. QED
      BY <3>1, <3>2
  <2>7. ASSUME v # 0, NEW i \in 1 .. Len(kernel'[o]), kernel'[o][i].val[f] = v
        PROVE  tasks'[t].target # None /\ tasks'[t].at <= i
    <3>1. CASE i <= Len(kernel[o])
      <4>1. i \in 1 .. Len(kernel[o]) /\ kernel[o][i].val[f] = v
        BY <1>2, <1>3, <2>7, <3>1
      <4>2. tasks[t].target # None /\ tasks[t].at <= i
        BY <2>2, <2>7, <4>1
      <4>3. QED
        BY <2>1, <4>2
    <3>2. CASE i > Len(kernel[o])
      <4>1. PICK p \in Servers, e \in DataObject : NextVersion(p, e)
        BY <1>2, <2>7, <3>2, KernelAdds
      <4>2. p = o /\ i = Len(kernel[o]) + 1 /\ Len(kernel'[o]) = i /\ kernel'[o][i] = e /\ ValueFrom(o, e, f)
        BY <1>2, <2>3, <2>7, <3>2, <4>1 DEF NextVersion, Grown
      <4>3. CASE e.val[f] = Now(o).val[f]
        <5>1. kernel[o][Len(kernel[o])].val[f] = v
          BY <1>2, <2>7, <4>2, <4>3
        <5>2. tasks[t].target # None /\ tasks[t].at <= Len(kernel[o]) /\ tasks[t].at \in 1 .. Len(kernel[o])
          BY <1>2, <2>2, <2>7, <5>1
        <5>3. QED
          BY <1>2, <2>1, <4>2, <5>2
      <4>4. CASE e.val[f] \in OtherValues
        BY <2>3, <2>7, <4>2, <4>4
      <4>5. ASSUME NEW s \in Tasks, tasks[s].target = None, tasks'[s].target = o,
                   tasks[s].op \in {"update", "create"}, e.val[f] = tasks[s].v
            PROVE  tasks'[t].target # None /\ tasks'[t].at <= i
        <5>1. tasks[s].v \in {0, s}
          BY <4>5, TaskFacts DEF Shape
        <5>2. s = t
          BY <2>3, <2>7, <4>2, <4>5, <5>1
        <5>3. tasks'[t].target # None
          BY <4>5, <5>2, LoadedIsItself, IdsApart DEF Ids
        <5>4. QED
          BY <2>5, <4>2, <4>5, <5>2, <5>3
      <4>6. QED
        BY <4>2, <4>3, <4>4, <4>5 DEF ValueFrom
    <3>3. QED
      BY <1>2, <3>1, <3>2
  <2>8. QED
    BY <2>4, <2>6, <2>7
<1>6. QED
  BY <1>4, <1>5

(* A task gets its row by claiming it.                                     *)
LEMMA RowGoes ==
  ASSUME TypeInv, [Next]_vars, NEW t \in Tasks, tasks[t].row = None, tasks'[t].row # None
  PROVE  Claim(t)
<1>1. CASE User
  BY <1>1, UserStep
<1>2. CASE Quiet
  BY <1>2, QuietTasks DEF SameAnswer
<1>3. ASSUME NEW s \in Tasks, Run(s)
      PROVE  Claim(t)
  <2>1. s = t
    BY <1>3, RunCarries DEF OnlyTask
  <2>2. ~Refuse(t) /\ ~LoseAnswer(t) /\ ~Ending(t) /\ ~Moving(t)
    BY FailStep, EndStep, MoveStep DEF SameAnswer
  <2>3. ~Accept(t)
    <3>1. Accept(t) => kernel' \in [Servers -> Seq(DataObject)]
      BY AcceptTypes DEF ServerTypeOK
    <3>2. QED
      BY <3>1, AcceptStep
  <2>4. QED
    BY <1>3, <2>1, <2>2, <2>3 DEF Run, Ending, Moving
<1>4. QED
  BY <1>1, <1>2, <1>3, StepKinds

(* The writes of an object run one after the other.                        *)
LEMMA WritesInTurn ==
  ASSUME TypeInv, IdInv, WritesAreThere, NEW o \in Loaded, NEW s \in Updates(o), NEW t \in Updates(o),
         tasks[t].pc # "queued", s # t
  PROVE  /\ s < t => tasks[s].pc = "done"
         /\ s < t \/ t < s
         /\ t < s => tasks[s].pc = "queued" \/ tasks[t].pc = "done"
<1>1. s \in Tasks /\ t \in Tasks /\ s \in Nat \ {0} /\ t \in Nat \ {0}
  BY TaskFacts DEF Updates, WritesOf
<1>2. o \in tasks[s].keys /\ o \in tasks[t].keys
  BY DEF WritesAreThere
<1>3. s < t => s \in 1 .. t - 1
  BY <1>1
<1>4. t < s => t \in 1 .. s - 1
  BY <1>1
<1>5. QED
  BY <1>1, <1>2, <1>3, <1>4 DEF IdInv, OneAtATime

LEMMA SeenVersionGoes ==
  ASSUME TypeInv, TypeInv', DeleteInv, KernelInv, KernelInv', [Next]_vars, NEW o \in Loaded
  PROVE  /\ o \in Servers /\ seen[o].row \in 1 .. Len(kernel[o]) /\ Len(kernel[o]) \in Nat
         /\ SeenVersion(o) \in Nat /\ SeenVersion(o)' \in Nat
         /\ SeenVersion(o) <= SeenVersion(o)'
         /\ seen'[o] = seen[o] => SeenVersion(o)' = SeenVersion(o)
<1>1. o \in Servers /\ Len(kernel[o]) \in Nat /\ Len(kernel'[o]) \in Nat
      /\ Len(kernel[o]) <= Len(kernel'[o])
      /\ \A i \in 1 .. Len(kernel[o]) : kernel'[o][i] = kernel[o][i]
  BY BridgeAssumption, KernelStays
<1>2. seen[o].row \in 1 .. Len(kernel[o]) /\ seen'[o].row \in 1 .. Len(kernel'[o])
      /\ seen[o].row <= seen'[o].row /\ seen[o].row \in 1 .. Len(kernel'[o])
  <2>1. seen[o].row \in Nat \ {0} /\ seen[o].row <= seen'[o].row
    BY <1>1, SeenGoes
  <2>2. seen[o].row <= Len(kernel[o]) /\ seen'[o].row <= Len(kernel'[o])
    BY DEF KernelInv
  <2>3. seen'[o].row \in Nat
    BY <1>1 DEF TypeInv, TypeOK, Reading
  <2>4. QED
    BY <1>1, <2>1, <2>2, <2>3
<1>3. kernel[o][seen[o].row] \in DataObject /\ kernel'[o][seen'[o].row] \in DataObject
  BY <1>1, <1>2 DEF TypeInv, TypeOK
<1>4. SeenVersion(o) \in Nat /\ SeenVersion(o)' \in Nat
  BY <1>3 DEF SeenVersion, DataObject
<1>5. SeenVersion(o) = kernel'[o][seen[o].row].version
  BY <1>1, <1>2 DEF SeenVersion
<1>6. kernel'[o][seen[o].row].version <= kernel'[o][seen'[o].row].version
  BY <1>1, <1>2 DEF KernelInv
<1>7. QED
  BY <1>1, <1>2, <1>4, <1>5, <1>6 DEF SeenVersion

(* What is read of an object nothing refreshes is claimed by its writes.   *)
LEMMA SeenByWrites ==
  ASSUME TypeInv, IdInv, DeleteInv, AloneIsApart, TargetsAreNamed, [Next]_vars,
         NEW o \in Loaded, Alone(o), seen'[o] # seen[o]
  PROVE  \E s \in Updates(o) : Claim(s)
<1>1. o \in Servers
  BY BridgeAssumption
<1>2. ~\E x \in fetches : FetchRow(x) /\ x.obj = o
  BY DEF AloneIsApart
<1>3. PICK s \in Tasks : Claim(s) /\ tasks[s].target = o
  BY <1>1, <1>2, SeenGoes
<1>4. tasks[s].op \in {"update", "create"} /\ o # None
  BY <1>1, <1>3, IdsApart DEF Claim
<1>5. tasks[s].op = "update"
  BY <1>3, <1>4 DEF DeleteInv, IdsAreNew
<1>6. Resolve(tasks[s].id) = o
  BY <1>3, <1>4, <1>5 DEF TargetsAreNamed
<1>7. QED
  BY <1>3, <1>5, <1>6, LoadedIsItself DEF Updates, WritesOf

LEMMA RowsShowWritesNext ==
  ASSUME TypeInv, TypeInv', IdInv, DeleteInv, ShowInv, KernelInv', WritesAreThere', [Next]_vars
  PROVE  RowsShowWrites'
<1>0. AloneIsApart /\ KernelInv /\ TargetsAreNamed /\ WritesAreThere /\ RowsShowWrites
  BY DEF ShowInv
<1>1. SUFFICES ASSUME NEW o \in Loaded, Smooth(o)', NEW t \in Updates(o)', tasks'[t].row # None
               PROVE  LET d == tasks'[t] IN
                      /\ d.row.val[d.f] = d.v
                      /\ d.row.version > d.expected
                      /\ d.row.version <= SeenVersion(o)'
                      /\ d.pc = "claimed" => d.row.version = SeenVersion(o)'
                      /\ d.v # 0 => d.at <= seen'[o].f[d.f]
                      /\ \A s \in Updates(o)' : s < t /\ tasks'[s].v # 0 =>
                           \E i \in tasks'[s].at .. Len(kernel'[o]) :
                             d.row.val[tasks'[s].f] = kernel'[o][i].val[tasks'[s].f]
  BY DEF RowsShowWrites
<1>2. t \in Tasks
  BY <1>1, TasksGo, UserStep DEF Fresh, Updates, WritesOf
<1>3. t \in Updates(o) /\ Smooth(o) /\ Alone(o) /\ tasks[t].op = "update"
  BY <1>1, <1>2, AloneBefore DEF Smooth, Updates
<1>4. /\ SameTask(tasks[t], tasks'[t]) /\ tasks[t].f \in Fields /\ o \in Servers
      /\ tasks[t].row \in DataObject \cup {None} /\ tasks[t].expected \in Nat
  BY <1>2, <1>3, TasksGo, TaskFacts, BridgeAssumption DEF Carries, Shape
<1>5. /\ SeenVersion(o) \in Nat /\ SeenVersion(o)' \in Nat /\ SeenVersion(o) <= SeenVersion(o)'
      /\ Len(kernel[o]) \in Nat /\ Len(kernel'[o]) \in Nat /\ Len(kernel[o]) <= Len(kernel'[o])
      /\ \A i \in 1 .. Len(kernel[o]) : kernel'[o][i] = kernel[o][i]
  BY <1>0, <1>4, SeenVersionGoes, KernelStays
(* The earlier writes of the object are synced.                            *)
<1>6. ASSUME NEW s \in Updates(o)', s < t, tasks[t].pc # "queued"
      PROVE  /\ s \in Tasks /\ s \in Updates(o) /\ tasks[s].outcome = "synced"
             /\ tasks[s].target # None /\ tasks[s].row # None /\ tasks[s].f \in Fields
             /\ tasks'[s].f = tasks[s].f /\ tasks'[s].v = tasks[s].v /\ tasks'[s].at = tasks[s].at
             /\ tasks[s].at \in 1 .. Len(kernel[o])
  <2>1. s \in Tasks
    BY <1>2, <1>6, TasksGo, UserStep, TaskFacts DEF Updates, WritesOf
  <2>2. s \in Updates(o) /\ s # t /\ tasks[s].op = "update"
    BY <1>2, <1>6, <2>1, TaskFacts, AloneBefore DEF Updates
  <2>3. tasks[s].pc = "done"
    BY <1>0, <1>3, <1>6, <2>2, WritesInTurn
  <2>4. tasks[s].outcome = "synced"
    BY <1>3, <2>1, <2>2, <2>3, TaskFacts DEF Smooth, Updates, Progress, Outcomes
  <2>5. tasks[s].target # None /\ tasks[s].row # None /\ tasks[s].f \in Fields
    BY <2>1, <2>2, <2>4, TaskFacts DEF Progress, Shape
  <2>6. tasks[s].at \in 1 .. Len(kernel[o])
    BY <1>0, <2>2, <2>5 DEF WritesAreThere
  <2>7. QED
    BY <2>1, <2>2, <2>4, <2>5, <2>6, TasksGo DEF Carries, SameTask
<1>7. CASE tasks[t].row # None
  <2>1. /\ tasks'[t].row = tasks[t].row /\ tasks[t].target # None /\ tasks[t].pc # "queued"
        /\ tasks'[t].at = tasks[t].at
    BY <1>2, <1>7, TasksGo, TaskFacts DEF Carries, Progress
  <2>2. /\ tasks[t].row.val[tasks[t].f] = tasks[t].v /\ tasks[t].row.version > tasks[t].expected
        /\ tasks[t].row.version <= SeenVersion(o) /\ tasks[t].row.version \in Nat
        /\ tasks[t].pc = "claimed" => tasks[t].row.version = SeenVersion(o)
        /\ tasks[t].v # 0 => tasks[t].at <= seen[o].f[tasks[t].f]
        /\ \A s \in Updates(o) : s < t /\ tasks[s].v # 0 =>
             \E i \in tasks[s].at .. Len(kernel[o]) :
               tasks[t].row.val[tasks[s].f] = kernel[o][i].val[tasks[s].f]
    BY <1>0, <1>3, <1>4, <1>7 DEF RowsShowWrites, DataObject
  <2>3. ASSUME tasks'[t].pc = "claimed"
        PROVE  tasks[t].row.version = SeenVersion(o)'
    <3>1. tasks[t].pc = "claimed"
      <4>1. ASSUME tasks[t].pc # "claimed"
            PROVE  FALSE
        <5>1. ~Claim(t)
          BY <1>2, <1>7, TaskFacts DEF Claim, Progress
        <5>2. ASSUME NEW s \in Tasks, Run(s)
              PROVE  FALSE
          <6>1. s = t
            BY <1>2, <2>3, <4>1, <5>2, RunCarries DEF OnlyTask
          <6>2. ~Refuse(t) /\ ~LoseAnswer(t) /\ ~Ending(t) /\ ~Moving(t)
            BY <1>2, <2>3, FailStep, EndStep, MoveStep
          <6>3. ~Accept(t)
            BY <1>2, <2>1 DEF Accept, Ready
          <6>4. QED
            BY <5>1, <5>2, <6>1, <6>2, <6>3 DEF Run, Ending, Moving
        <5>3. ~User /\ ~Quiet
          BY <1>2, <2>3, <4>1, UserStep, QuietTasks
        <5>4. QED
          BY <5>2, <5>3, StepKinds
      <4>2. QED
        BY <4>1
    <3>2. seen'[o] = seen[o]
      <4>1. ASSUME NEW s \in Updates(o), Claim(s)
            PROVE  FALSE
        <5>1. tasks[s].pc = "accepted"
          BY <4>1 DEF Claim
        <5>2. QED
          BY <1>0, <1>3, <3>1, <5>1, WritesInTurn
      <4>2. QED
        BY <1>0, <1>3, <4>1, SeenByWrites
    <3>3. QED
      BY <1>0, <2>2, <3>1, <3>2, SeenVersionGoes
  <2>4. tasks[t].v # 0 => tasks[t].at <= seen'[o].f[tasks[t].f]
    <3>1. seen[o].f[tasks[t].f] \in Nat /\ seen'[o].f[tasks[t].f] \in Nat /\ tasks[t].at \in Nat
          /\ seen[o].f[tasks[t].f] <= seen'[o].f[tasks[t].f]
      BY SMTT(30), <1>2, <1>4, SeenGoes, TaskFacts DEF TypeInv, TypeOK, Reading
    <3>2. QED
      BY <2>2, <3>1
  <2>5. ASSUME NEW s \in Updates(o)', s < t, tasks'[s].v # 0
        PROVE  \E i \in tasks'[s].at .. Len(kernel'[o]) :
                 tasks[t].row.val[tasks'[s].f] = kernel'[o][i].val[tasks'[s].f]
    <3>1. PICK i \in tasks[s].at .. Len(kernel[o]) :
            tasks[t].row.val[tasks[s].f] = kernel[o][i].val[tasks[s].f]
      BY <1>6, <2>1, <2>2, <2>5
    <3>2. i \in 1 .. Len(kernel[o]) /\ i \in tasks'[s].at .. Len(kernel'[o])
      BY <1>5, <1>6, <2>1, <2>5, <3>1
    <3>3. QED
      BY <1>5, <1>6, <2>1, <2>5, <3>1, <3>2
  <2>6. tasks'[t].f = tasks[t].f /\ tasks'[t].v = tasks[t].v /\ tasks'[t].expected = tasks[t].expected
    BY <1>4 DEF SameTask
  <2>7. tasks[t].row.version <= SeenVersion(o)'
    BY <1>5, <2>2
  <2>8. QED
    BY <2>1, <2>2, <2>3, <2>4, <2>5, <2>6, <2>7
<1>8. CASE tasks[t].row = None
  <2>1. Claim(t) /\ kernel' = kernel
    BY <1>1, <1>2, <1>8, RowGoes DEF Claim, server
  <2>2. PICK i \in Steps, j \in [Fields -> Steps] :
          /\ ReadRow(tasks[t].target, i, j) /\ Claims(t, RowAt(tasks[t].target, i, j))
          /\ tasks'[t].row = RowAt(tasks[t].target, i, j)
    BY <1>2, <2>1, ClaimStep
  <2>3. tasks[t].target = o /\ tasks[t].pc # "queued" /\ tasks'[t].at = tasks[t].at
    <3>1. tasks[t].target \in Servers /\ tasks[t].pc # "queued" /\ tasks'[t].at = tasks[t].at
      BY <1>2, <2>1, ClaimStep
    <3>2. QED
      BY <1>0, <1>3, <3>1, IdsApart DEF WritesAreThere
  <2> DEFINE row == RowAt(o, i, j)
  <2>4. /\ i \in 1 .. Len(kernel[o]) /\ row.version = kernel[o][i].version
        /\ \A f \in Fields : /\ j[f] \in 1 .. Len(kernel[o]) /\ seen[o].f[f] <= j[f]
                             /\ row.val[f] = kernel[o][j[f]].val[f]
        /\ seen'[o].row = i /\ seen'[o].f = j /\ row \in DataObject
    BY <2>2, <2>3, ReadRowFacts
  <2>5. tasks'[t].row = row /\ row.version > tasks[t].expected /\ row.val[tasks[t].f] = tasks[t].v
    BY <1>3, <2>2, <2>3 DEF Claims
  <2> HIDE DEF row
  <2>6. SeenVersion(o)' = row.version
    BY <2>1, <2>4 DEF SeenVersion
  <2>7. tasks[t].v # 0 => tasks[t].at <= j[tasks[t].f]
    BY <1>0, <1>3, <1>4, <2>4, <2>5 DEF WritesAreThere
  <2>8. ASSUME NEW s \in Updates(o)', s < t, tasks'[s].v # 0
        PROVE  \E k \in tasks'[s].at .. Len(kernel'[o]) :
                 row.val[tasks'[s].f] = kernel'[o][k].val[tasks'[s].f]
    <3>1. tasks[s].at <= seen[o].f[tasks[s].f]
      BY <1>0, <1>3, <1>6, <2>3, <2>8 DEF RowsShowWrites
    <3>2. seen[o].f[tasks[s].f] <= j[tasks[s].f] /\ seen[o].f[tasks[s].f] \in Nat
          /\ j[tasks[s].f] \in 1 .. Len(kernel[o])
      BY <1>4, <1>6, <2>3, <2>4, <2>8, SeenGoes
    <3>3. j[tasks[s].f] \in tasks'[s].at .. Len(kernel'[o])
      BY <1>5, <1>6, <2>1, <2>3, <2>8, <3>1, <3>2
    <3>4. row.val[tasks'[s].f] = kernel'[o][j[tasks[s].f]].val[tasks'[s].f]
      BY <1>6, <2>1, <2>3, <2>4, <2>8
    <3>5. QED
      BY <3>3, <3>4
  <2>9. row.version \in Nat
    BY <2>4 DEF DataObject
  <2>10. QED
    BY <1>4, <2>3, <2>4, <2>5, <2>6, <2>7, <2>8, <2>9 DEF SameTask
<1>9. QED
  BY <1>7, <1>8

(* What changes a loaded object whose writes all go well.                  *)
LEMMA ObjectGoes ==
  ASSUME TypeInv, IdInv, DeleteInv, AloneIsApart, TargetsAreNamed, [Next]_vars,
         NEW o \in Loaded, Smooth(o)', Shown(o)'
  PROVE  /\ Shown(o)
         /\ \/ objects'[o] = objects[o]
            \/ \E f \in Fields, v \in {0, New} : EditField(o, f, v)
            \/ \E s \in Updates(o) : FieldWritten(s) /\ tasks[s].target = o
<1>0. /\ StoreTypeOK /\ Smooth(o) /\ Alone(o) /\ o \in Servers /\ o \in Ids /\ o \notin Temps
      /\ o # None /\ \A id : Resolve(id) = o => id = o
  BY LoadedIsItself, AloneBefore, IdsApart DEF TypeInv, TypeOK, Smooth
<1>1. ASSUME NEW t \in Tasks, Fails(t)
      PROVE  tasks[t].id # o
  <2>1. tasks'[t].outcome = "failed" /\ tasks'[t].id = tasks[t].id /\ t \in Tasks'
    BY <1>1, FailStep, TasksGo DEF Fails, OnlyTask, SameTask
  <2>2. QED
    BY <2>1 DEF Smooth, WritesOf
<1>2. ASSUME NEW t \in Tasks, ObjectCreated(t)
      PROVE  tasks[t].target # o /\ objects'[o] = objects[o]
  <2>1. CreatedFacts(t) /\ tasks[t].target # o
    BY <1>2, CreatedStep DEF CreatedFacts, DeleteInv, IdsAreNew
  <2>2. QED
    BY <1>0, <2>1, ReconcileIdStep DEF CreatedFacts
<1>3. Shown(o)
  <2>1. ASSUME ~Shown(o)
        PROVE  FALSE
    <3>1. Brings(o)
      BY <1>0, <2>1, Appears
    <3>2. QED
      BY <1>0, <1>1, <1>2, <3>1 DEF Brings
  <2>2. QED
    BY <2>1
<1>4. CASE UNCHANGED objects
  BY <1>3, <1>4
<1>5. CASE User
  <2>1. CASE \E p \in Ids, f \in Fields, v \in {0, Len(tasks) + 1} : EditField(p, f, v)
    <3>1. PICK p \in Ids, f \in Fields, v \in {0, New} : EditField(p, f, v)
      BY <2>1 DEF New
    <3>2. UpdateField(p, f, v) /\ v \in Values
      BY <1>5, <3>1, UserStep, IdsApart DEF EditField
    <3>3. p # o => objects'[o] = objects[o]
      BY <1>0, <3>2, UpdateFieldStep
    <3>4. QED
      BY <1>3, <3>1, <3>3
  <2>2. CASE \E n \in Temps : AddObject(n)
    <3>1. PICK n \in Temps : AddObject(n)
      BY <2>2
    <3>2. CreateObject(n, [f \in Fields |-> New]) /\ [f \in Fields |-> New] \in [Fields -> Values]
      BY <1>5, <3>1, UserStep DEF AddObject, New
    <3>3. QED
      BY <1>0, <1>3, <3>2, CreateObjectStep DEF Ids
  <2>3. CASE \E p \in Ids : RemoveObject(p)
    BY <1>0, <1>3, <2>3, DeleteObjectStep DEF RemoveObject
  <2>4. CASE (\E m \in TempLinks, a, b \in Ids : Relate(m, a, b)) \/ \E r \in RelIds : Unrelate(r)
    BY <1>4, <2>4 DEF Relate, CreateRelation, Unrelate, UnlinkRelation
  <2>5. QED
    BY <1>5, <2>1, <2>2, <2>3, <2>4 DEF User
<1>6. ASSUME NEW t \in Tasks, Fails(t)
      PROVE  objects'[o] = objects[o]
  <2>1. Undo(t) /\ tasks[t].id # o /\ Resolve(tasks[t].id) # o
    BY <1>0, <1>1, <1>6 DEF Fails, Refuse, LoseAnswer
  <2> DEFINE d == tasks[t]  q == Resolve(tasks[t].id)
  <2>2. CASE /\ d.op = "update" /\ RollbackField(q, d.prev, d.id)
             /\ q \in Ids /\ d.id \in Ids /\ d.prev \in DataObject
    BY <1>0, <2>1, <2>2, RollbackStep
  <2>3. CASE d.op = "create" /\ DeleteObject(d.id) /\ d.id \in Temps /\ d.id \in Ids
    BY <1>0, <2>1, <2>3, DeleteObjectStep
  <2>4. CASE /\ d.op = "delete" /\ RestoreObject(q, d.prev, d.id)
             /\ q \in Ids /\ d.id \in Ids /\ d.prev \in Snapshots
    BY <1>0, <2>1, <2>4, RestoreStep
  <2>5. CASE d.op = "relate" /\ RemoveRelation(d.rel) /\ d.rel \in RelIds
    BY <1>0, <2>5, RemoveRelationStep
  <2>6. CASE /\ d.op = "unlink" /\ ReconcileRelation(d.rel, d.prev)
             /\ d.rel \in RelIds /\ d.prev \in DataRelation
    BY <1>0, <2>6, ReconcileRelationStep
  <2>7. QED
    BY <2>1, <2>2, <2>3, <2>4, <2>5, <2>6, UndoKinds
<1>7. ASSUME NEW t \in Tasks, FieldWritten(t)
      PROVE  objects'[o] = objects[o] \/ (t \in Updates(o) /\ tasks[t].target = o)
  <2>1. /\ tasks[t].op = "update" /\ tasks[t].target \in Servers /\ tasks[t].row \in DataObject
        /\ tasks[t].target # None /\ ReconcileObject(tasks[t].target, tasks[t].row)
    BY <1>7, TaskFacts, IdsApart DEF FieldWritten, Progress, Writes, Taken
  <2>2. tasks[t].target # o => objects'[o] = objects[o]
    BY <1>0, <2>1, ReconcileObjectStep DEF Ids
  <2>3. tasks[t].target = o => tasks[t].id = o
    BY <1>0, <2>1 DEF TargetsAreNamed
  <2>4. QED
    BY <2>1, <2>2, <2>3 DEF Updates, WritesOf
<1>8. ASSUME NEW t \in Tasks, RelationWritten(t)
      PROVE  objects'[o] = objects[o]
  BY <1>0, <1>8, WrittenKinds, ReconcileRelationIdStep, ReconcileRelationStep DEF store
<1>9. ASSUME NEW x \in fetches, ShowRow(x)
      PROVE  objects'[o] = objects[o]
  <2>1. x.row \in DataObject /\ x.obj \in Ids /\ x.obj # o
    BY <1>0, <1>9 DEF ShowRow, TypeInv, TypeOK, AloneIsApart
  <2>2. CASE UNCHANGED store
    BY <2>2 DEF store
  <2>3. QED
    BY <1>0, <1>9, <2>1, <2>2, ReconcileObjectStep DEF ShowRow
<1>10. ASSUME NEW t \in Tasks, Run(t)
       PROVE  objects'[o] = objects[o] \/ \E s \in Updates(o) : FieldWritten(s) /\ tasks[s].target = o
  BY <1>2, <1>4, <1>6, <1>7, <1>8, <1>10
  DEF Run, Fails, Accept, Claim, GiveUpClaim, RefreshRelated, Finish, store
<1>11. QED
  BY <1>3, <1>4, <1>5, <1>9, <1>10
  DEF Next, Refresh, OtherUpdate, FetchRow, FetchFails, store, vars

(* A write whose row is not yet shown is, at most, claimed in a step.      *)
LEMMA UpdateMoves ==
  ASSUME TypeInv, TypeInv', [Next]_vars, NEW t \in Tasks, tasks[t].op = "update",
         tasks'[t].outcome \notin {"failed", "pending"}
  PROVE  /\ tasks[t].pc \in {"queued", "accepted"} =>
              tasks'[t].pc \in {"queued", "accepted"} \/ (tasks'[t].pc = "claimed" /\ tasks'[t].row # None)
         /\ tasks'[t].pc = "related" \/ tasks'[t].outcome = "synced" =>
              tasks[t].pc = "related" \/ tasks[t].outcome = "synced" \/ FieldWritten(t)
<1>0. Progress(t) /\ Shape(t) /\ tasks[t].pc \in Pcs /\ tasks[t].outcome \in Outcomes
  BY TaskFacts
<1>1. CASE tasks'[t].pc = tasks[t].pc /\ tasks'[t].outcome = tasks[t].outcome
  BY <1>1
<1>2. CASE User
  BY <1>1, <1>2, UserStep
<1>3. CASE Quiet
  BY <1>1, <1>3, QuietTasks
<1>4. ASSUME NEW s \in Tasks, Run(s), s # t
      PROVE  tasks'[t] = tasks[t]
  BY <1>4, RunCarries DEF OnlyTask
<1>5. CASE Run(t)
  <2>1. CASE Accept(t)
    <3>1. kernel' \in [Servers -> Seq(DataObject)]
      BY <2>1, AcceptTypes DEF ServerTypeOK
    <3>2. QED
      BY <1>0, <2>1, <3>1, AcceptStep DEF Progress
  <2>2. CASE Fails(t)
    BY <2>2, FailStep DEF Fails
  <2>3. CASE Claim(t)
    BY <1>0, <2>3, ClaimStep DEF Progress
  <2>4. CASE Ending(t)
    BY <1>0, <2>4, EndStep DEF Progress, Ending, Finish, ObjectCreated
  <2>5. CASE Moving(t)
    BY <1>0, <2>5, MoveStep DEF Progress, Moving
  <2>6. QED
    BY <1>5, <2>1, <2>2, <2>3, <2>4, <2>5 DEF Run, Fails, Ending, Moving
<1>6. QED
  BY <1>1, <1>2, <1>3, <1>4, <1>5, StepKinds

(* What a step does to a loaded object whose writes all go well.           *)
LEMMA ShownGoes ==
  ASSUME TypeInv, IdInv, DeleteInv, ShowInv, [Next]_vars, NEW o \in Loaded, Smooth(o)', Shown(o)'
  PROVE  /\ Shown(o) /\ Smooth(o) /\ objects[o] \in DataObject /\ objects[o].version \in Nat
         /\ \/ objects'[o] = objects[o]
            \/ /\ User /\ New \in Updates(o)' /\ tasks'[New].pc = "queued"
               /\ objects'[o].version = tasks'[New].expected + 1
            \/ \E s \in Updates(o) :
                 /\ FieldWritten(s) /\ objects[o].version <= tasks[s].row.version
                 /\ objects'[o] = tasks[s].row
<1>0. AloneIsApart /\ TargetsAreNamed /\ o \in Ids /\ StoreTypeOK
  BY LoadedIsItself DEF ShowInv, TypeInv, TypeOK
<1>1. /\ Shown(o)
      /\ \/ objects'[o] = objects[o]
         \/ \E f \in Fields, v \in {0, New} : EditField(o, f, v)
         \/ \E s \in Updates(o) : FieldWritten(s) /\ tasks[s].target = o
  BY <1>0, ObjectGoes
<1>2. Smooth(o) /\ objects[o] \in DataObject
  BY <1>0, <1>1, AloneBefore DEF StoreTypeOK, Shown
<1>3. objects[o].version \in Nat
  BY <1>2 DEF DataObject
<1>4. ASSUME NEW f \in Fields, NEW v \in {0, New}, EditField(o, f, v)
      PROVE  /\ User /\ New \in Updates(o)' /\ tasks'[New].pc = "queued"
             /\ objects'[o].version = tasks'[New].expected + 1
  <2>1. User
    BY <1>0, <1>4 DEF User, New
  <2>2. v \in Values /\ UpdateField(o, f, v) /\ New \in Tasks'
    BY <1>4, <2>1, UserStep, IdsApart DEF EditField
  <2>3. objects'[o].version = objects[o].version + 1
    BY <1>0, <2>2, UpdateFieldStep
  <2> DEFINE e == tasks'[New]
  <2>4. e.op = "update" /\ e.id = o /\ e.expected = objects[o].version /\ e.pc = "queued"
    BY ZenonT(60), <1>0, <1>4, EditStep DEF Fresh
  <2>5. \A n \in Tasks' : tasks'[n].op = "update" /\ tasks'[n].id = o => n \in Updates(o)'
    BY DEF Updates, WritesOf
  <2>6. QED
    BY <2>1, <2>2, <2>3, <2>4, <2>5
<1>5. ASSUME NEW s \in Updates(o), FieldWritten(s), tasks[s].target = o
      PROVE  \/ objects'[o] = objects[o]
             \/ objects[o].version <= tasks[s].row.version /\ objects'[o] = tasks[s].row
  <2>1. s \in Tasks /\ tasks[s].pc = "claimed" /\ ReconcileObject(o, tasks[s].row)
    BY <1>5 DEF FieldWritten, Updates, WritesOf
  <2>2. tasks[s].row \in DataObject
    BY <2>1, TaskFacts DEF Progress
  <2>3. QED
    BY <1>0, <2>1, <2>2, ReconcileObjectStep
<1>6. QED
  BY <1>1, <1>2, <1>3, <1>4, <1>5

LEMMA VersionsShownNext ==
  ASSUME TypeInv, TypeInv', IdInv, DeleteInv, ShowInv, KernelInv', RowsShowWrites', [Next]_vars,
         NEW o \in Loaded, Smooth(o)', Shown(o)'
  PROVE  \/ objects'[o].version <= SeenVersion(o)'
         \/ \E t \in Updates(o)' : /\ tasks'[t].pc \in {"queued", "accepted"}
                                   /\ objects'[o].version <= tasks'[t].expected + 1
<1>0. KernelInv /\ RowsShowWrites /\ RowsAreShown
  BY DEF ShowInv
<1>1. /\ Shown(o) /\ Smooth(o) /\ objects[o].version \in Nat
      /\ SeenVersion(o) \in Nat /\ SeenVersion(o)' \in Nat /\ SeenVersion(o) <= SeenVersion(o)'
  BY <1>0, ShownGoes, SeenVersionGoes
<1>2. CASE objects'[o] = objects[o]
  <2>1. CASE objects[o].version <= SeenVersion(o)
    BY <1>1, <1>2, <2>1
  <2>2. ASSUME NEW t \in Updates(o), tasks[t].pc \in {"queued", "accepted"},
               objects[o].version <= tasks[t].expected + 1
        PROVE  \/ objects'[o].version <= SeenVersion(o)'
               \/ t \in Updates(o)' /\ tasks'[t].pc \in {"queued", "accepted"}
                  /\ objects'[o].version <= tasks'[t].expected + 1
    <3>1. /\ t \in Tasks /\ t \in Updates(o)' /\ t \in WritesOf(o)' /\ tasks[t].op = "update"
          /\ tasks'[t].expected = tasks[t].expected /\ tasks[t].expected \in Nat /\ t \in Tasks'
      BY <2>2, AloneBefore, TasksGo, TaskFacts DEF Updates, WritesOf, Carries, SameTask
    <3>2. tasks'[t].outcome \notin {"failed", "pending"}
      BY <3>1 DEF Smooth
    <3>3. \/ tasks'[t].pc \in {"queued", "accepted"}
          \/ tasks'[t].pc = "claimed" /\ tasks'[t].row # None
      BY <2>2, <3>1, <3>2, UpdateMoves
    <3>4. CASE tasks'[t].pc = "claimed" /\ tasks'[t].row # None
      <4>1. tasks'[t].row.version > tasks'[t].expected /\ tasks'[t].row.version = SeenVersion(o)'
        BY <3>1, <3>4 DEF RowsShowWrites
      <4>2. QED
        BY <1>1, <1>2, <2>2, <3>1, <4>1
    <3>5. QED
      BY <1>2, <2>2, <3>1, <3>3, <3>4
  <2>3. QED
    BY <1>0, <1>1, <2>1, <2>2 DEF RowsAreShown
<1>3. CASE User /\ New \in Updates(o)' /\ tasks'[New].pc = "queued"
           /\ objects'[o].version = tasks'[New].expected + 1
  <2>1. New \in Tasks'
    BY <1>3, UserStep
  <2>2. tasks'[New].expected \in Nat
    <3>1. \A t \in Tasks' : tasks'[t] \in Task
      BY DEF TypeInv, TypeOK, Tasks
    <3>2. QED
      BY <2>1, <3>1 DEF Task
  <2>3. objects'[o].version <= tasks'[New].expected + 1
    BY <1>3, <2>2
  <2> HIDE DEF New
  <2>4. QED
    BY <1>3, <2>3
<1>4. ASSUME NEW s \in Updates(o), FieldWritten(s), objects'[o] = tasks[s].row
      PROVE  objects'[o].version <= SeenVersion(o)'
  <2>1. s \in Tasks /\ tasks[s].pc = "claimed"
    BY <1>4 DEF FieldWritten, Updates, WritesOf
  <2>2. tasks[s].row # None
    BY <2>1, TaskFacts DEF Progress
  <2>3. tasks[s].row.version = SeenVersion(o)
    BY <1>0, <1>1, <1>4, <2>1, <2>2 DEF RowsShowWrites
  <2>4. QED
    BY <1>1, <1>4, <2>3
<1>5. QED
  BY <1>2, <1>3, <1>4, ShownGoes

LEMMA LastRowShownNext ==
  ASSUME TypeInv, TypeInv', IdInv, DeleteInv, ShowInv, [Next]_vars,
         NEW o \in Loaded, Smooth(o)', Shown(o)', NEW t \in Updates(o)',
         tasks'[t].pc = "related" \/ tasks'[t].outcome = "synced", \A s \in WritesOf(o)' : s <= t
  PROVE  objects'[o] = tasks'[t].row
<1>0. KernelInv /\ RowsShowWrites /\ RowsAreShown /\ WritesAreThere /\ Smooth(o) /\ Shown(o)
  BY ShownGoes DEF ShowInv
<1>1. t \in Tasks /\ t \in WritesOf(o)'
  <2>1. \A e : Fresh(e) => e.pc = "queued" /\ e.outcome = "none"
    BY DEF Fresh
  <2>2. t \in Tasks' /\ t \in WritesOf(o)'
    BY DEF Updates, WritesOf
  <2>3. QED
    BY <2>1, <2>2, TasksGo, UserStep
<1>2. /\ t \in Updates(o) /\ tasks[t].op = "update" /\ tasks'[t].outcome \notin {"failed", "pending"}
      /\ \A s \in WritesOf(o) : s <= t
  <2>1. \A s \in WritesOf(o) : s \in Tasks /\ s \in WritesOf(o)'
    BY AloneBefore DEF WritesOf
  <2>2. QED
    BY <1>1, <2>1, AloneBefore DEF Updates, Smooth
<1>3. ~User \/ New \notin Updates(o)'
  <2>1. User => New \notin Tasks /\ \A s \in Tasks : s < New /\ s \in Nat /\ New \in Nat
    BY UserStep DEF TypeInv, TypeOK, Tasks
  <2>2. \A n \in Updates(o)' : n \in WritesOf(o)'
    BY DEF Updates
  <2> HIDE DEF New
  <2>3. QED
    BY <1>1, <2>1, <2>2
<1>4. CASE tasks[t].pc = "related" \/ tasks[t].outcome = "synced"
  <2>1. objects[o] = tasks[t].row
    BY <1>0, <1>2, <1>4 DEF RowsAreShown
  <2>2. tasks'[t].row = tasks[t].row /\ tasks[t].pc \notin {"queued", "claimed"}
    BY <1>1, <1>2, <1>4, TaskFacts, TasksGo DEF Progress, Carries
  <2>3. ASSUME NEW s \in Updates(o), FieldWritten(s)
        PROVE  FALSE
    <3>1. tasks[s].pc = "claimed" /\ s <= t /\ s # t /\ s \in Nat /\ t \in Nat
      BY <1>1, <1>2, <2>2, <2>3, TaskFacts DEF FieldWritten, Updates, WritesOf
    <3>2. s < t
      BY <1>0, <1>2, <2>2, <2>3, <3>1, WritesInTurn
    <3>3. QED
      BY <1>0, <1>2, <2>2, <2>3, <3>1, <3>2, WritesInTurn
  <2>4. objects'[o] = objects[o]
    BY <1>3, <2>3, ShownGoes
  <2>5. QED
    BY <2>1, <2>2, <2>4
<1>5. CASE FieldWritten(t)
  <2>1. /\ tasks[t].pc = "claimed" /\ tasks'[t].row = tasks[t].row
        /\ tasks[t].row # None /\ tasks[t].row \in DataObject /\ tasks[t].target # None
    BY <1>1, <1>5, MoveStep, TaskFacts DEF Moving, SameAnswer, Progress
  <2>2. tasks[t].row.version = SeenVersion(o)
    BY <1>0, <1>2, <2>1 DEF RowsShowWrites
  <2>3. objects[o].version <= SeenVersion(o)
    <3>1. ASSUME NEW u \in Updates(o), tasks[u].pc \in {"queued", "accepted"}
          PROVE  FALSE
      <4>1. u <= t /\ u # t /\ u \in Nat /\ t \in Nat
        BY <1>1, <1>2, <2>1, <3>1, TaskFacts DEF Updates, WritesOf
      <4>2. u < t
        BY <1>0, <1>2, <2>1, <3>1, <4>1, WritesInTurn
      <4>3. QED
        BY <1>0, <1>2, <2>1, <3>1, <4>1, <4>2, WritesInTurn
    <3>2. QED
      BY <1>0, <3>1 DEF RowsAreShown
  <2>4. tasks[t].target = o /\ o \in Ids /\ StoreTypeOK
    BY <1>0, <1>2, <2>1, LoadedIsItself DEF WritesAreThere, TypeInv, TypeOK
  <2>5. ReconcileObject(o, tasks[t].row)
    BY <1>5, <2>4 DEF FieldWritten
  <2>6. QED
    BY <1>0, <2>1, <2>2, <2>3, <2>4, <2>5, ReconcileObjectStep
<1>6. QED
  BY <1>1, <1>2, <1>4, <1>5, UpdateMoves

LEMMA RowsAreShownNext ==
  ASSUME TypeInv, TypeInv', IdInv, DeleteInv, ShowInv, KernelInv', RowsShowWrites', [Next]_vars
  PROVE  RowsAreShown'
BY VersionsShownNext, LastRowShownNext DEF RowsAreShown

LEMMA ShowNext ==
  ASSUME TypeInv, IdInv, DeleteInv, ShowInv, [Next]_vars
  PROVE  ShowInv'
<1>1. TypeInv' /\ AloneIsApart' /\ KernelInv' /\ TargetsAreNamed' /\ WritesAreThere'
  BY NextTypes, AloneIsApartNext, KernelInvNext, TargetsAreNamedNext, WritesAreThereNext DEF ShowInv
<1>2. RowsShowWrites'
  BY <1>1, RowsShowWritesNext
<1>3. RowsAreShown'
  BY <1>1, <1>2, RowsAreShownNext
<1>4. QED
  BY <1>1, <1>2, <1>3 DEF ShowInv

LEMMA InitShows == Init => ShowInv
<1> SUFFICES ASSUME Init
             PROVE  ShowInv
  OBVIOUS
<1>1. Tasks = {} /\ fetches = {} /\ Loaded \subseteq Servers
  BY BridgeAssumption DEF Init, Tasks
<1>2. \A r \in RelIds : relations[r] = None
  BY DEF Init
<1>3. \A o \in Loaded : kernel[o] = << Initial >> /\ objects[o] = Initial
        /\ seen[o] = [row |-> 1, f |-> [f \in Fields |-> 1]]
  BY <1>1 DEF Init, Ids
<1>4. \A o \in Servers : kernel[o] = << Initial >> \/ kernel[o] = << >>
  BY DEF Init
<1>5. \A f \in Fields : Initial.val[f] = 0
  BY DEF Initial
<1>6. AloneIsApart
  BY <1>1, <1>2 DEF AloneIsApart, Touches
<1>7. \A o \in Servers : \A i \in 1 .. Len(kernel[o]) : kernel[o][i] = Initial
  BY <1>4
<1>8. KernelInv
  <2>1. \A o \in Loaded : seen[o].row = 1 /\ Len(kernel[o]) = 1 /\ \A f \in Fields : seen[o].f[f] = 1
    <3>1. \A o \in Loaded : Len(kernel[o]) = 1
      BY <1>3
    <3>2. QED
      BY <1>3, <3>1
  <2>2. Initial.version <= Initial.version
    BY DEF Initial
  <2>3. QED
    BY <1>5, <1>7, <2>1, <2>2 DEF KernelInv
<1>9. \A o \in Loaded : objects[o].version <= SeenVersion(o)
  <2>1. \A o \in Loaded : seen[o].row = 1 /\ kernel[o][1] = Initial
    BY <1>3
  <2>2. Initial.version <= Initial.version
    BY DEF Initial
  <2>3. QED
    BY <1>3, <2>1, <2>2 DEF SeenVersion
<1>10. TargetsAreNamed /\ \A o : Updates(o) = {}
  BY <1>1 DEF TargetsAreNamed, Updates, WritesOf
<1>11. QED
  BY <1>6, <1>8, <1>9, <1>10 DEF ShowInv, WritesAreThere, RowsShowWrites, RowsAreShown

(* Of an object that is still shown, the writes are updates.               *)
LEMMA ShownIsUpdated ==
  ASSUME TypeInv, IdInv, DeleteInv, NEW o \in Loaded, Shown(o), NEW t \in WritesOf(o),
         tasks[t].outcome = "synced"
  PROVE  t \in Updates(o)
<1>1. t \in Tasks /\ tasks[t].id = o /\ Resolve(o) = o /\ o \notin Temps /\ o # None
  BY LoadedIsItself, IdsApart, BridgeAssumption DEF WritesOf
<1>2. tasks[t].op \in Ops /\ tasks[t].op \notin {"create", "relate", "unlink"}
  BY <1>1, TaskFacts DEF Shape
<1>3. tasks[t].op # "delete"
  BY <1>1 DEF DeleteInv, DeletedIsHidden, Deletes
<1>4. QED
  BY <1>2, <1>3 DEF Updates, Ops

(***************************************************************************)
(* When the queue has run dry and every write of a loaded object was       *)
(* reported as synced, the screen shows of each field what the user wrote  *)
(* last or what the kernel put over it, and no version the kernel has not  *)
(* reached: the row the last write claims shows its own value and, of the  *)
(* writes before it, none that has been forgotten (claimUpdatedObject,     *)
(* reconcileObject, and the queue that lets the writes of an object run    *)
(* one after the other).                                                   *)
(***************************************************************************)
THEOREM SyncedShown == Spec => []SyncedIsShown
<1>1. TypeInv /\ IdInv /\ DeleteInv /\ ShowInv /\ [Next]_vars
        => TypeInv' /\ IdInv' /\ DeleteInv' /\ ShowInv'
  BY NextTypes, IdNext, DeleteNext, ShowNext
<1>2. TypeInv /\ IdInv /\ DeleteInv /\ ShowInv => SyncedIsShown
  <2> SUFFICES ASSUME TypeInv, IdInv, DeleteInv, ShowInv, Idle, NEW o \in Loaded, Shown(o), Alone(o),
                      \A t \in WritesOf(o) : tasks[t].outcome = "synced"
               PROVE  /\ objects[o].version <= Now(o).version
                      /\ \A f \in Fields : \A t \in {w \in WritesOfField(o, f) : Lasting(w)} :
                           \E i \in tasks[t].at .. Len(kernel[o]) :
                             objects[o].val[f] = kernel[o][i].val[f]
    BY DEF SyncedIsShown
  <2>1. /\ Smooth(o) /\ KernelInv /\ WritesAreThere /\ RowsShowWrites /\ RowsAreShown
        /\ \A t \in Tasks : tasks[t].pc = "done"
    BY DEF Smooth, ShowInv, Idle
  <2>2. /\ o \in Servers /\ kernel[o] # << >> /\ Len(kernel[o]) \in Nat \ {0}
        /\ Now(o) = kernel[o][Len(kernel[o])] /\ Now(o).version \in Nat
        /\ \A i \in 1 .. Len(kernel[o]) : kernel[o][i] \in DataObject
    <3>1. o \in Servers /\ kernel[o] # << >>
      BY BridgeAssumption DEF DeleteInv, IdsAreNew
    <3>2. kernel[o] \in Seq(DataObject)
      BY <3>1, NowFacts
    <3>3. QED
      BY <3>1, <3>2, NowFacts
  <2>3. objects[o].version <= Now(o).version
    <3>1. objects[o].version <= SeenVersion(o)
      BY <2>1 DEF RowsAreShown, Updates, WritesOf
    <3>2. seen[o].row \in 1 .. Len(kernel[o])
      <4>1. seen[o].row \in Nat \ {0}
        BY <2>2 DEF TypeInv, TypeOK, Reading
      <4>2. seen[o].row <= Len(kernel[o])
        BY <2>1 DEF KernelInv
      <4>3. QED
        BY <2>2, <4>1, <4>2
    <3>3. SeenVersion(o) <= Now(o).version
      <4>1. Len(kernel[o]) \in 1 .. Len(kernel[o]) /\ seen[o].row <= Len(kernel[o])
        BY <2>2, <3>2
      <4>2. kernel[o][seen[o].row].version <= kernel[o][Len(kernel[o])].version
        BY <2>1, <2>2, <3>2, <4>1 DEF KernelInv
      <4>3. QED
        BY <2>2, <4>2 DEF SeenVersion
    <3>4. SeenVersion(o) \in Nat /\ objects[o].version \in Nat
      <4>1. objects[o] \in DataObject
        BY LoadedIsItself DEF TypeInv, TypeOK, StoreTypeOK, Shown
      <4>2. QED
        BY <2>2, <3>2, <4>1 DEF SeenVersion, DataObject
    <3>5. QED
      BY <2>2, <3>1, <3>3, <3>4
  <2>4. ASSUME NEW f \in Fields, NEW t \in WritesOfField(o, f), Lasting(t)
        PROVE  \E i \in tasks[t].at .. Len(kernel[o]) : objects[o].val[f] = kernel[o][i].val[f]
    <3>1. /\ t \in WritesOf(o) /\ t \in Updates(o) /\ tasks[t].f = f /\ tasks[t].id = o
          /\ WritesOf(o) \subseteq 1 .. Len(tasks) /\ Len(tasks) \in Nat
      BY DEF WritesOfField, WritesOf, Updates, TypeInv, TypeOK, Tasks
    <3>2. PICK m \in WritesOf(o) : \A s \in WritesOf(o) : s <= m
      <4>1. WritesOf(o) \in SUBSET (1 .. Len(tasks)) /\ WritesOf(o) # {} /\ Len(tasks) \in Nat
        BY <3>1
      <4> HIDE DEF Idle
      <4>2. QED
        BY <4>1, HasLast
    <3>3. m \in Updates(o) /\ m \in Tasks /\ t \in Tasks /\ m \in Nat /\ t \in Nat
      BY <3>1, <3>2, ShownIsUpdated, TaskFacts DEF WritesOf
    <3>4. objects[o] = tasks[m].row /\ tasks[m].row # None
      <4>1. tasks[m].row # None
        BY <3>2, <3>3, TaskFacts DEF Progress, Updates
      <4>2. QED
        BY <2>1, <3>2, <3>3, <4>1 DEF RowsAreShown
    <3>5. tasks[t].at \in 1 .. Len(kernel[o]) /\ kernel[o][tasks[t].at].val[f] = tasks[t].v
      <4>1. tasks[t].target # None
        BY <3>1, <3>3, TaskFacts DEF Progress, Taken
      <4>2. QED
        BY <2>1, <3>1, <4>1 DEF WritesAreThere
    <3>6. CASE t = m
      <4>1. objects[o].val[f] = tasks[t].v
        BY <2>1, <3>1, <3>3, <3>4, <3>6 DEF RowsShowWrites
      <4>2. QED
        BY <2>2, <3>5, <4>1
    <3>7. CASE t # m
      <4>1. t < m /\ tasks[t].v # 0
        BY <3>1, <3>2, <3>3, <3>7, <2>4 DEF Lasting
      <4>2. QED
        BY <2>1, <3>1, <3>3, <3>4, <4>1 DEF RowsShowWrites
    <3>8. QED
      BY <3>6, <3>7
  <2>5. QED
    BY <2>3, <2>4
<1>3. QED
  BY <1>1, <1>2, InitTypes, InitIds, InitDeletes, InitShows, PTL DEF Spec

=============================================================================
