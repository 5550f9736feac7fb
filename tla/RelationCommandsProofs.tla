----------------------- MODULE RelationCommandsProofs -----------------------
(***************************************************************************)
(* The relation commands, whatever their interleaving, act on the graph of *)
(* active relations as if each ran alone; what a transaction decided on    *)
(* still holds at its commit; and only an UpdateRelation can be part of a  *)
(* deadlock: for any number of threads, objects, relations and commands.   *)
(*                                                                         *)
(* The argument: a relation becomes active, or moves, only while the locks *)
(* of both its endpoints are held, an object changes only while its own    *)
(* is, and a relation that has a row only while the relation's is.  So     *)
(* what a transaction has read under its locks stays true until it ends.   *)
(* The closure table is another matter: no lock protects what is read of   *)
(* it, and it is right as long as its readers do not overlap.              *)
(***************************************************************************)
EXTENDS RelationCommands, FiniteSetTheorems, WellFoundedInduction, TLAPS

Candidates == {"CreateRelation", "UpdateRelation"}
Removals   == {"Archive", "SoftDelete"}

(* Which command a transaction is in the middle of.                        *)
Phase(t) ==
  /\ tx[t].pc # "idle" => tx[t].cmd \in Commands
  /\ tx[t].pc = "idle" => tx[t].got = {}
  /\ tx[t].pc = "object" => tx[t].cmd.kind \in ObjectKinds /\ tx[t].got = {}
  /\ tx[t].pc = "relation" => tx[t].cmd.kind \in RelationKinds /\ tx[t].got = {}
  /\ tx[t].pc \in {"endpoints", "validate", "write"} =>
       tx[t].cmd.kind \in Candidates /\ tx[t].got = {}
  /\ tx[t].pc \in {"cascade", "clear"} => tx[t].cmd.kind \in Removals
  /\ tx[t].pc = "commit" /\ tx[t].cmd.kind \notin Removals => tx[t].got = {}

(* The relation a command named is locked, and as it was read.             *)
RowRead(t) ==
  IF /\ tx[t].pc \in {"endpoints", "validate", "write", "commit"}
     /\ tx[t].cmd.kind \in RelationKinds
  THEN /\ tx[t].row # NoRelation /\ rel[tx[t].cmd.rel] = tx[t].row
       /\ RelationLock(tx[t].cmd.rel) \in held[t]
       /\ tx[t].cmd.kind = "UpdateRelation" => tx[t].row.status = "ACTIVE"
  ELSE tx[t].row = NoRelation

(* The endpoints of a candidate are locked, or still to be locked.         *)
EndpointsHeld(t) ==
  /\ tx[t].pc \in {"endpoints", "validate", "write", "commit"} /\ tx[t].cmd.kind \in Candidates =>
       /\ Source(t) \in Objects /\ Target(t) \in Objects
       /\ \A o \in {Source(t), Target(t)} :
            ObjectLock(o) \in held[t] \/ (tx[t].pc = "endpoints" /\ o \in tx[t].todo)
  /\ tx[t].pc = "endpoints" => tx[t].todo \subseteq Objects

(* A candidate that was admitted still fits.                               *)
Fitting(t) ==
  tx[t].pc \in {"write", "commit"} /\ tx[t].cmd.kind \in Candidates =>
    /\ Source(t) # Target(t)
    /\ ~InvalidEndpoint(Source(t)) /\ ~InvalidEndpoint(Target(t))
    /\ ~Duplicate(t) /\ ~TooMany(t)

(* The object a command named is locked, and may become what it asks.      *)
ObjectHeld(t) ==
  tx[t].pc \in {"cascade", "clear", "commit"} /\ tx[t].cmd.kind \in ObjectKinds =>
    /\ ObjectLock(tx[t].cmd.obj) \in held[t]
    /\ tx[t].cmd.kind = "ChangeState" => MayChange(obj[tx[t].cmd.obj].status, tx[t].cmd.to)

(* A cascade has, or has still to lock, all active relations there are.    *)
Cascading(t) ==
  /\ \A r \in tx[t].got : RelationLock(r) \in held[t] /\ Active(r) /\ Touches(r, tx[t].cmd.obj)
  /\ tx[t].pc \in {"cascade", "clear", "commit"} /\ tx[t].cmd.kind \in Removals =>
       \A r \in Relations : Active(r) /\ Touches(r, tx[t].cmd.obj) =>
         r \in tx[t].got \/ (tx[t].pc = "cascade" /\ r \in tx[t].todo)
  /\ tx[t].pc = "cascade" => tx[t].todo \subseteq Relations

(* The order of the row locks: objects by id, then relations by id.        *)
Below(k, l) ==
  \/ k[1] = "object" /\ l[1] = "relation"
  \/ k[1] = l[1] /\ k[2] < l[2]

(* A transaction locks upwards, but for an UpdateRelation.                 *)
Ordered(t) ==
  /\ tx[t].pc \in {"object", "relation"} => held[t] = {}
  /\ tx[t].pc = "endpoints" /\ tx[t].cmd.kind = "CreateRelation" =>
       \A l \in held[t], o \in tx[t].todo : Below(l, ObjectLock(o))
  /\ tx[t].pc = "cascade" =>
       \A l \in held[t], r \in tx[t].todo : Below(l, RelationLock(r))
  /\ tx[t].pc = "idle" => held[t] = {}

ThreadInv(t) ==
  /\ Phase(t) /\ RowRead(t) /\ EndpointsHeld(t) /\ Fitting(t)
  /\ ObjectHeld(t) /\ Cascading(t) /\ Ordered(t)

Exclusive == \A t, u \in Threads : t # u => held[t] \cap held[u] = {}

IInv ==
  /\ TypeOK
  /\ Exclusive
  /\ ValidatedHolds
  /\ \A t \in Threads : ThreadInv(t)

-----------------------------------------------------------------------------
(* What the types and the validation of the commands say.                  *)
LEMMA CommandFacts ==
  ASSUME NEW c \in Commands
  PROVE  /\ c \in Command /\ c # Absent
         /\ c.kind \in {"CreateRelation"} \cup RelationKinds \cup ObjectKinds
         /\ c.kind \in ObjectKinds => c.obj \in Objects
         /\ c.kind \in RelationKinds => c.rel \in Relations
         /\ c.kind = "CreateRelation" => c.src \in Objects /\ c.tgt \in Objects /\ c.rel = Absent
         /\ c.kind = "ChangeState" => c.to \in ObjectStatus /\ c.to # "DELETED"
         /\ c.src \in Objects \cup {Absent} /\ c.tgt \in Objects \cup {Absent}
<1>1. c \in Command
  BY CommandsValid
<1> QED
  BY <1>1, CommandsValid, AbsentApart DEF Command

(* A relation that is active has a row of its type.                        *)
LEMMA RowFacts ==
  ASSUME TypeOK, NEW r \in Relations
  PROVE  /\ rel[r] \in Relation \cup {NoRelation}
         /\ NoRelation.status = Absent /\ NoRelation.src = Absent /\ NoRelation.tgt = Absent
         /\ rel[r] # NoRelation => /\ rel[r] \in Relation
                                   /\ rel[r].src \in Objects /\ rel[r].tgt \in Objects
                                   /\ rel[r].status \in RelationStatus
                                   /\ rel[r].version \in Nat \ {0}
         /\ Active(r) => rel[r] # NoRelation
<1>1. rel[r] \in Relation \cup {NoRelation}
  BY DEF TypeOK
<1>2. NoRelation.status = Absent /\ NoRelation.src = Absent /\ NoRelation.tgt = Absent
  BY DEF NoRelation
<1>3. "ACTIVE" \in RelationStatus
  BY DEF RelationStatus
<1> HIDE DEF NoRelation
<1>4. rel[r] # NoRelation => /\ rel[r] \in Relation
                             /\ rel[r].src \in Objects /\ rel[r].tgt \in Objects
                             /\ rel[r].status \in RelationStatus
                             /\ rel[r].version \in Nat \ {0}
  BY <1>1 DEF Relation
<1>5. Active(r) => rel[r] # NoRelation
  BY <1>2, <1>3, AbsentApart DEF Active
<1> QED
  BY <1>1, <1>2, <1>4, <1>5

(* The fields of a transaction.                                            *)
LEMMA TxFacts ==
  ASSUME TypeOK, NEW t \in Threads
  PROVE  /\ tx[t] \in Transaction
         /\ tx[t].pc \in PCs
         /\ tx[t].cmd \in Commands \cup {Absent}
         /\ tx[t].row \in Relation \cup {NoRelation}
         /\ tx[t].todo \subseteq Objects \cup Relations
         /\ tx[t].got \subseteq Relations
         /\ tx[t].del \subseteq Pairs
         /\ tx[t].ins \subseteq Pairs
         /\ held[t] \subseteq Lock
<1>1. tx[t] \in Transaction /\ held[t] \subseteq Lock
  BY DEF TypeOK
<1> QED
  BY <1>1 DEF Transaction

(* Locks of two rows are two locks.                                        *)
LEMMA LockFacts ==
  /\ \A o \in Objects : ObjectLock(o) \in Lock
  /\ \A r \in Relations : RelationLock(r) \in Lock
  /\ \A o, p \in Objects : ObjectLock(o) = ObjectLock(p) => o = p
  /\ \A r, q \in Relations : RelationLock(r) = RelationLock(q) => r = q
BY DEF Lock, ObjectLock, RelationLock

-----------------------------------------------------------------------------
(***************************************************************************)
(* What a commit of t may do to the tables: it changes an object, or a     *)
(* relation that has a row, whose lock it holds, and makes a relation      *)
(* active, or moves one, between objects whose locks it holds.             *)
(***************************************************************************)
Effect(t) ==
  /\ \A o \in Objects : obj'[o] = obj[o] \/ ObjectLock(o) \in held[t]
  /\ \A r \in Relations :
       /\ rel'[r] = rel[r] \/ rel[r] = NoRelation \/ RelationLock(r) \in held[t]
       /\ rel'[r].status = "ACTIVE" =>
            \/ Active(r) /\ rel'[r].src = rel[r].src /\ rel'[r].tgt = rel[r].tgt
            \/ /\ rel'[r].src \in Objects /\ rel'[r].tgt \in Objects
               /\ ObjectLock(rel'[r].src) \in held[t] /\ ObjectLock(rel'[r].tgt) \in held[t]

LEMMA NoEffect ==
  ASSUME UNCHANGED tables, NEW t
  PROVE  Effect(t)
BY DEF tables, Effect, Active

LEMMA KeepsRow ==
  ASSUME IInv, NEW t \in Threads, NEW u \in Threads, u # t, Effect(t),
         tx'[u] = tx[u], held'[u] = held[u]
  PROVE  RowRead(u)'
<1>1. RowRead(u) /\ held[t] \cap held[u] = {} /\ Phase(u) /\ tx[u].pc \in PCs
  BY TxFacts DEF IInv, ThreadInv, Exclusive
<1>2. CASE /\ tx[u].pc \in {"endpoints", "validate", "write", "commit"}
           /\ tx[u].cmd.kind \in RelationKinds
  <2>1. tx[u].cmd.rel \in Relations
    BY <1>1, <1>2, CommandFacts DEF Phase
  <2>2. /\ tx[u].row # NoRelation /\ rel[tx[u].cmd.rel] = tx[u].row
        /\ RelationLock(tx[u].cmd.rel) \in held[u]
        /\ tx[u].cmd.kind = "UpdateRelation" => tx[u].row.status = "ACTIVE"
    BY <1>1, <1>2 DEF RowRead
  <2>3. rel'[tx[u].cmd.rel] = rel[tx[u].cmd.rel]
    BY <1>1, <2>1, <2>2 DEF Effect
  <2> QED
    BY <1>2, <2>2, <2>3 DEF RowRead
<1>3. CASE ~(/\ tx[u].pc \in {"endpoints", "validate", "write", "commit"}
             /\ tx[u].cmd.kind \in RelationKinds)
  BY <1>1, <1>3 DEF RowRead
<1> QED
  BY <1>2, <1>3

LEMMA KeepsFitting ==
  ASSUME IInv, NEW t \in Threads, NEW u \in Threads, u # t, Effect(t),
         tx'[u] = tx[u], held'[u] = held[u]
  PROVE  Fitting(u)'
<1> SUFFICES ASSUME tx[u].pc \in {"write", "commit"}, tx[u].cmd.kind \in Candidates
             PROVE  (/\ Source(u) # Target(u)
                     /\ ~InvalidEndpoint(Source(u)) /\ ~InvalidEndpoint(Target(u))
                     /\ ~Duplicate(u) /\ ~TooMany(u))'
  BY DEF Fitting
<1> DEFINE s == Source(u)
           d == Target(u)
<1>1. /\ s \in Objects /\ d \in Objects /\ s # d
      /\ ObjectLock(s) \in held[u] /\ ObjectLock(d) \in held[u]
      /\ ~InvalidEndpoint(s) /\ ~InvalidEndpoint(d)
      /\ ~Duplicate(u) /\ ~TooMany(u)
  BY DEF IInv, ThreadInv, EndpointsHeld, Fitting
<1>2. held[t] \cap held[u] = {}
  BY DEF IInv, Exclusive
<1>3. Source(u)' = s /\ Target(u)' = d
  BY DEF Source, Target
<1>4. obj'[s] = obj[s] /\ obj'[d] = obj[d]
  BY <1>1, <1>2 DEF Effect
<1>5. ~InvalidEndpoint(s)' /\ ~InvalidEndpoint(d)'
  BY <1>1, <1>3, <1>4 DEF InvalidEndpoint

<1>6. ASSUME NEW r \in Relations, rel'[r].status = "ACTIVE", r # tx[u].cmd.rel
      PROVE  /\ ~(rel'[r].src = s /\ rel'[r].tgt = d)
             /\ OneToMany => rel'[r].tgt # d
  <2>1. CASE Active(r) /\ rel'[r].src = rel[r].src /\ rel'[r].tgt = rel[r].tgt
    <3>1. r \in Others(u)
      BY <1>6, <2>1 DEF Others
    <3> QED
      BY <1>1, <2>1, <3>1 DEF Duplicate, TooMany
  <2>2. CASE /\ rel'[r].src \in Objects /\ rel'[r].tgt \in Objects
             /\ ObjectLock(rel'[r].src) \in held[t] /\ ObjectLock(rel'[r].tgt) \in held[t]
    <3>1. rel'[r].tgt # d
      BY <1>1, <1>2, <2>2
    <3> QED
      BY <3>1
  <2> QED
    BY <1>6, <2>1, <2>2 DEF Effect
<1>7. Others(u)' = {r \in Relations : rel'[r].status = "ACTIVE" /\ r # tx[u].cmd.rel}
  BY DEF Others, Active
<1>8. ~Duplicate(u)'
  BY <1>3, <1>6, <1>7 DEF Duplicate
<1>9. ~TooMany(u)'
  BY <1>3, <1>6, <1>7 DEF TooMany
<1> QED
  BY <1>1, <1>3, <1>5, <1>8, <1>9

LEMMA KeepsObject ==
  ASSUME IInv, NEW t \in Threads, NEW u \in Threads, u # t, Effect(t),
         tx'[u] = tx[u], held'[u] = held[u]
  PROVE  ObjectHeld(u)' /\ EndpointsHeld(u)' /\ Phase(u)' /\ Ordered(u)'
<1>1. /\ ObjectHeld(u) /\ EndpointsHeld(u) /\ Phase(u) /\ Ordered(u)
      /\ held[t] \cap held[u] = {}
  BY DEF IInv, ThreadInv, Exclusive
<1>2. Phase(u)' /\ Ordered(u)'
  BY <1>1 DEF Phase, Ordered
<1>3. EndpointsHeld(u)'
  BY <1>1 DEF EndpointsHeld, Source, Target
<1>4. ASSUME tx[u].pc \in {"cascade", "clear", "commit"}, tx[u].cmd.kind \in ObjectKinds
      PROVE  /\ ObjectLock(tx[u].cmd.obj) \in held'[u]
             /\ tx[u].cmd.kind = "ChangeState" => MayChange(obj'[tx[u].cmd.obj].status, tx[u].cmd.to)
  <2>1. tx[u].cmd.obj \in Objects
    BY <1>1, <1>4, CommandFacts DEF Phase
  <2>2. ObjectLock(tx[u].cmd.obj) \in held[u]
    BY <1>1, <1>4 DEF ObjectHeld
  <2>3. obj'[tx[u].cmd.obj] = obj[tx[u].cmd.obj]
    BY <1>1, <2>1, <2>2 DEF Effect
  <2> QED
    BY <1>1, <1>4, <2>2, <2>3 DEF ObjectHeld
<1> QED
  BY <1>2, <1>3, <1>4 DEF ObjectHeld

LEMMA KeepsCascade ==
  ASSUME IInv, NEW t \in Threads, NEW u \in Threads, u # t, Effect(t),
         tx'[u] = tx[u], held'[u] = held[u]
  PROVE  Cascading(u)'
<1>1. /\ ObjectHeld(u) /\ Cascading(u) /\ Phase(u) /\ held[t] \cap held[u] = {}
  BY DEF IInv, ThreadInv, Exclusive
<1>2. ASSUME NEW r \in tx[u].got
      PROVE  /\ RelationLock(r) \in held'[u]
             /\ rel'[r].status = "ACTIVE" /\ tx[u].cmd.obj \in {rel'[r].src, rel'[r].tgt}
  <2>1. /\ r \in Relations /\ RelationLock(r) \in held[u]
        /\ Active(r) /\ Touches(r, tx[u].cmd.obj)
    BY <1>1, TxFacts DEF IInv, Cascading
  <2>2. rel[r] # NoRelation
    BY <2>1, RowFacts DEF IInv
  <2>3. rel'[r] = rel[r]
    BY <1>1, <2>1, <2>2 DEF Effect
  <2> QED
    BY <2>1, <2>3 DEF Active, Touches
<1>3. ASSUME tx[u].pc \in {"cascade", "clear", "commit"}, tx[u].cmd.kind \in Removals,
             NEW r \in Relations, rel'[r].status = "ACTIVE",
             tx[u].cmd.obj \in {rel'[r].src, rel'[r].tgt}
      PROVE  r \in tx[u].got \/ (tx[u].pc = "cascade" /\ r \in tx[u].todo)
  <2>1. tx[u].cmd.kind \in ObjectKinds
    BY <1>3 DEF Removals, ObjectKinds
  <2>2. ObjectLock(tx[u].cmd.obj) \in held[u]
    BY <1>1, <1>3, <2>1 DEF ObjectHeld
  <2>3. Active(r) /\ rel'[r].src = rel[r].src /\ rel'[r].tgt = rel[r].tgt
    BY <1>1, <1>3, <2>2 DEF Effect
  <2> QED
    BY <1>1, <1>3, <2>3 DEF Cascading, Touches
<1>4. \A r \in tx'[u].got : RelationLock(r) \in held'[u] /\ Active(r)' /\ Touches(r, tx[u].cmd.obj)'
  BY <1>2 DEF Active, Touches
<1>5. tx[u].pc = "cascade" => tx[u].todo \subseteq Relations
  BY <1>1 DEF Cascading
<1> QED
  BY <1>3, <1>4, <1>5 DEF Cascading, Active, Touches

(* What the others have read under their locks is as they read it.         *)
LEMMA OthersKeep ==
  ASSUME IInv, NEW t \in Threads, NEW u \in Threads, u # t, Effect(t),
         tx'[u] = tx[u], held'[u] = held[u]
  PROVE  ThreadInv(u)'
BY KeepsRow, KeepsFitting, KeepsObject, KeepsCascade DEF ThreadInv

(***************************************************************************)
(* A step of t that leaves the tables alone, and takes only free locks.    *)
(***************************************************************************)
LEMMA QuietStep ==
  ASSUME IInv, NEW t \in Threads, NEW b, NEW h, b \in Transaction, h \subseteq Lock,
         tx' = [tx EXCEPT ![t] = b], held' = [held EXCEPT ![t] = h],
         UNCHANGED tables,
         \A l \in h : l \in held[t] \/ Free(t, l),
         ThreadInv(t)'
  PROVE  IInv'
<1>1. /\ tx \in [Threads -> Transaction] /\ held \in [Threads -> SUBSET Lock]
  BY DEF IInv, TypeOK
<1>2. tx'[t] = b /\ held'[t] = h /\ \A u \in Threads \ {t} : tx'[u] = tx[u] /\ held'[u] = held[u]
  BY <1>1
<1>3. TypeOK'
  <2>1. tx' \in [Threads -> Transaction] /\ held' \in [Threads -> SUBSET Lock]
    BY <1>1
  <2> QED
    BY <2>1 DEF IInv, TypeOK, tables
<1>4. Exclusive'
  BY <1>2 DEF IInv, Exclusive, Free
<1>5. ValidatedHolds'
  BY DEF IInv, ValidatedHolds, OneParent, DeletedIsUnrelated, Active, tables
<1>6. ASSUME NEW u \in Threads PROVE ThreadInv(u)'
  BY <1>2, NoEffect, OthersKeep
<1> QED
  BY <1>3, <1>4, <1>5, <1>6 DEF IInv

-----------------------------------------------------------------------------
(* The steps that write no table.                                          *)

(* A transaction begins with nothing read and nothing done.                *)
LEMMA BeginFacts ==
  ASSUME NEW c \in Commands \cup {Absent}, NEW pc \in PCs,
         NEW rows \in SUBSET (Objects \cup Relations)
  PROVE  /\ Begin(c, pc, rows) \in Transaction
         /\ Begin(c, pc, rows).pc = pc /\ Begin(c, pc, rows).cmd = c
         /\ Begin(c, pc, rows).row = NoRelation
         /\ Begin(c, pc, rows).todo = rows /\ Begin(c, pc, rows).got = {}
         /\ Begin(c, pc, rows).del = {} /\ Begin(c, pc, rows).ins = {}
<1> HIDE DEF NoRelation, PCs, Pairs
<1> QED
  BY DEF Begin, Transaction

(* A step that takes no lock.                                              *)
LEMMA SameLocks ==
  ASSUME IInv, NEW t \in Threads, NEW b, b \in Transaction,
         tx' = [tx EXCEPT ![t] = b], UNCHANGED << tables, held >>,
         ThreadInv(t)'
  PROVE  IInv'
<1>1. /\ held' = [held EXCEPT ![t] = held[t]] /\ held[t] \subseteq Lock
  BY DEF IInv, TypeOK
<1> QED
  BY <1>1, QuietStep

LEMMA QuitKeeps ==
  ASSUME IInv, NEW t \in Threads, Quit(t)
  PROVE  IInv'
<1> DEFINE b == Begin(Absent, "idle", {})
<1>1. /\ b \in Transaction /\ b.pc = "idle" /\ b.row = NoRelation /\ b.got = {}
  BY BeginFacts DEF PCs
<1>2. tx' = [tx EXCEPT ![t] = b] /\ held' = [held EXCEPT ![t] = {}] /\ UNCHANGED tables
  BY DEF Quit, Finish
<1> HIDE DEF b
<1>3. tx'[t] = b /\ held'[t] = {}
  BY <1>2 DEF IInv, TypeOK
<1>4. ThreadInv(t)'
  <2>1. Phase(t)' /\ RowRead(t)'
    BY <1>1, <1>3 DEF Phase, RowRead
  <2>2. EndpointsHeld(t)' /\ Fitting(t)' /\ ObjectHeld(t)'
    BY <1>1, <1>3 DEF EndpointsHeld, Fitting, ObjectHeld
  <2>3. Cascading(t)' /\ Ordered(t)'
    BY <1>1, <1>3 DEF Cascading, Ordered
  <2> QED
    BY <2>1, <2>2, <2>3 DEF ThreadInv
<1> QED
  BY <1>1, <1>2, <1>4, QuietStep

LEMMA StartKeeps ==
  ASSUME IInv, NEW t \in Threads, NEW c \in Commands, Start(t, c)
  PROVE  IInv'
<1> DEFINE pc == CASE c.kind = "CreateRelation" -> "endpoints"
                   [] c.kind \in RelationKinds  -> "relation"
                   [] c.kind \in ObjectKinds    -> "object"
           rows == IF c.kind = "CreateRelation" THEN {c.src, c.tgt} ELSE {}
           b == Begin(c, pc, rows)
<1>1. /\ c.kind \in {"CreateRelation"} \cup RelationKinds \cup ObjectKinds
      /\ c.kind = "CreateRelation" => c.src \in Objects /\ c.tgt \in Objects
      /\ c.src \in Objects => c.src # Absent
      /\ c.tgt \in Objects => c.tgt # Absent
  BY CommandFacts, AbsentApart
<1>2. /\ c.kind = "CreateRelation" => pc = "endpoints"
      /\ c.kind \in RelationKinds => pc = "relation"
      /\ c.kind \in ObjectKinds => pc = "object"
      /\ pc \in {"endpoints", "relation", "object"}
      /\ c.kind = "CreateRelation" => c.kind \notin RelationKinds \cup ObjectKinds
      /\ c.kind \in RelationKinds => c.kind \notin ObjectKinds
  BY <1>1 DEF RelationKinds, ObjectKinds
<1>3. tx' = [tx EXCEPT ![t] = b] /\ UNCHANGED << tables, held >> /\ tx[t].pc = "idle"
  <2>1. /\ c.kind \in RelationKinds => c.kind # "CreateRelation"
        /\ c.kind \in ObjectKinds => c.kind # "CreateRelation" /\ c.kind \notin RelationKinds
    BY DEF RelationKinds, ObjectKinds
  <2>2. b = CASE c.kind = "CreateRelation" -> Begin(c, "endpoints", {c.src, c.tgt})
              [] c.kind \in RelationKinds  -> Begin(c, "relation", {})
              [] c.kind \in ObjectKinds    -> Begin(c, "object", {})
    BY <1>1, <2>1
  <2> QED
    BY <2>2 DEF Start
<1>4. rows \subseteq Objects
  BY <1>1
<1>5. pc \in PCs /\ rows \in SUBSET (Objects \cup Relations)
  BY <1>2, <1>4 DEF PCs
<1>6. c.kind = "CreateRelation" => rows = {c.src, c.tgt}
  OBVIOUS
<1> HIDE DEF pc, rows
<1>7. /\ b \in Transaction /\ b.pc = pc /\ b.cmd = c /\ b.row = NoRelation
      /\ b.todo = rows /\ b.got = {}
  BY <1>5, BeginFacts
<1> HIDE DEF b
<1>8. tx'[t] = b /\ held'[t] = held[t] /\ held[t] = {}
  BY <1>3 DEF IInv, TypeOK, ThreadInv, Ordered
<1>9. ThreadInv(t)'
  <2>1. Phase(t)'
    BY <1>1, <1>2, <1>6, <1>7, <1>8 DEF Phase, Candidates
  <2>2. RowRead(t)'
    BY <1>1, <1>2, <1>6, <1>7, <1>8 DEF RowRead
  <2>3. EndpointsHeld(t)'
    <3>1. CASE c.kind = "CreateRelation"
      <4>1. Source(t)' = c.src /\ Target(t)' = c.tgt
        BY <1>1, <1>6, <1>7, <1>8, <3>1 DEF Source, Target
      <4> QED
        BY <1>1, <1>2, <1>6, <1>7, <1>8, <3>1, <4>1 DEF EndpointsHeld
    <3>2. CASE c.kind # "CreateRelation"
      BY <1>1, <1>2, <1>6, <1>7, <1>8, <3>2 DEF EndpointsHeld
    <3> QED
      BY <3>1, <3>2
  <2>4. Fitting(t)' /\ ObjectHeld(t)' /\ Cascading(t)' /\ Ordered(t)'
    BY <1>2, <1>6, <1>7, <1>8 DEF Fitting, ObjectHeld, Cascading, Ordered
  <2> QED
    BY <2>1, <2>2, <2>3, <2>4 DEF ThreadInv
<1> QED
  BY <1>3, <1>7, <1>9, SameLocks

(* The closure rows a command deletes or inserts are pairs of objects.     *)
LEMMA ClosureFacts ==
  ASSUME TypeOK, NEW t \in Threads
  PROVE  /\ View(t) \subseteq Pairs
         /\ \A row : Cleared(closure, row) \subseteq Pairs /\ Cleared(View(t), row) \subseteq Pairs
         /\ \A s, d \in Objects : Spanned(View(t), s, d) \subseteq Pairs
<1>1. closure \subseteq Pairs /\ View(t) \subseteq Pairs
  BY DEF TypeOK, View
<1>2. \A row : Cleared(closure, row) \subseteq Pairs /\ Cleared(View(t), row) \subseteq Pairs
  BY <1>1 DEF Cleared
<1>3. \A s : Ancestors(View(t), s) \subseteq Objects /\ Descendants(View(t), s) \subseteq Objects
  BY <1>1 DEF Ancestors, Descendants, Pairs
<1> QED
  BY <1>1, <1>2, <1>3 DEF Spanned, Pairs

LEMMA LockRelationKeeps ==
  ASSUME IInv, NEW t \in Threads, LockRelation(t)
  PROVE  IInv'
<1> DEFINE c == tx[t].cmd
           row == rel[c.rel]
           b == [tx[t] EXCEPT !.pc = "commit", !.row = row, !.del = Cleared(closure, row)]
           h == held[t] \cup {RelationLock(c.rel)}
<1>1. /\ tx[t].pc = "relation" /\ c.kind \in RelationKinds /\ c.kind # "UpdateRelation"
      /\ c \in Commands /\ tx[t].got = {} /\ c.rel \in Relations /\ tx[t] \in Transaction
      /\ held[t] \subseteq Lock
  BY TxFacts, CommandFacts DEF LockRelation, IInv, ThreadInv, Phase
<1>2. row \in Relation /\ row # NoRelation
  BY <1>1, RowFacts DEF IInv, LockRelation, Refused
<1>3. c.kind \notin Candidates /\ c.kind \notin Removals /\ c.kind \notin ObjectKinds
  BY <1>1 DEF Candidates, Removals, ObjectKinds, RelationKinds
<1>4. /\ tx' = [tx EXCEPT ![t] = b] /\ held' = [held EXCEPT ![t] = h] /\ UNCHANGED tables
      /\ Free(t, RelationLock(c.rel))
  BY DEF LockRelation, Take
<1>5. b \in Transaction
  <2>1. Cleared(closure, row) \subseteq Pairs
    BY ClosureFacts DEF IInv
  <2> HIDE DEF row
  <2> QED
    BY <1>1, <1>2, <2>1 DEF Transaction, PCs
<1>6. /\ b.pc = "commit" /\ b.cmd = c /\ b.row = row /\ b.todo = tx[t].todo /\ b.got = {}
  BY <1>1 DEF Transaction
<1>7. h \subseteq Lock /\ RelationLock(c.rel) \in h /\ \A l \in h : l \in held[t] \/ Free(t, l)
  BY <1>1, <1>4, LockFacts
<1>8. rel' = rel
  BY <1>4 DEF tables
<1> HIDE DEF b, h
<1>9. tx'[t] = b /\ held'[t] = h
  BY <1>4 DEF IInv, TypeOK
<1>10. ThreadInv(t)'
  <2>1. Phase(t)'
    BY <1>1, <1>6, <1>9 DEF Phase
  <2>2. RowRead(t)'
    BY <1>1, <1>2, <1>6, <1>7, <1>8, <1>9 DEF RowRead
  <2>3. EndpointsHeld(t)' /\ Fitting(t)' /\ ObjectHeld(t)'
    BY <1>3, <1>6, <1>9 DEF EndpointsHeld, Fitting, ObjectHeld
  <2>4. Cascading(t)' /\ Ordered(t)'
    BY <1>3, <1>6, <1>9 DEF Cascading, Ordered
  <2> QED
    BY <2>1, <2>2, <2>3, <2>4 DEF ThreadInv
<1> QED
  BY <1>4, <1>5, <1>7, <1>10, QuietStep

LEMMA LockForUpdateKeeps ==
  ASSUME IInv, NEW t \in Threads, LockForUpdate(t)
  PROVE  IInv'
<1> DEFINE c == tx[t].cmd
           row == rel[c.rel]
           s == IF c.src = Absent THEN row.src ELSE c.src
           d == IF c.tgt = Absent THEN row.tgt ELSE c.tgt
           gone == IF << s, d >> = << row.src, row.tgt >> THEN {} ELSE Cleared(closure, row)
           b == [tx[t] EXCEPT !.pc = "endpoints", !.row = row, !.todo = {s, d}, !.del = gone]
           h == held[t] \cup {RelationLock(c.rel)}
<1>1. /\ tx[t].pc = "relation" /\ c.kind = "UpdateRelation"
      /\ c \in Commands /\ tx[t].got = {} /\ tx[t] \in Transaction /\ held[t] \subseteq Lock
  BY TxFacts DEF LockForUpdate, IInv, ThreadInv, Phase
<1>2. /\ c.kind \in RelationKinds /\ c.kind \in Candidates /\ c.kind \notin Removals
      /\ c.kind \notin ObjectKinds /\ c.kind # "CreateRelation"
  BY <1>1 DEF Candidates, Removals, ObjectKinds, RelationKinds
<1>3. c.rel \in Relations /\ c.src \in Objects \cup {Absent} /\ c.tgt \in Objects \cup {Absent}
  BY <1>1, <1>2, CommandFacts
<1>4. row \in Relation /\ row # NoRelation /\ row.status = "ACTIVE"
  BY <1>1, <1>3, RowFacts DEF IInv, LockForUpdate, Refused
<1>5. s \in Objects /\ d \in Objects
  BY <1>3, <1>4 DEF Relation
<1>6. /\ tx' = [tx EXCEPT ![t] = b] /\ held' = [held EXCEPT ![t] = h] /\ UNCHANGED tables
      /\ Free(t, RelationLock(c.rel))
  BY DEF LockForUpdate, Take
<1>7. gone \subseteq Pairs
  BY ClosureFacts DEF IInv
<1> HIDE DEF gone
<1>8. b \in Transaction
  <2> HIDE DEF row, s, d
  <2> QED
    BY <1>1, <1>4, <1>5, <1>7 DEF Transaction, PCs
<1>9. /\ b.pc = "endpoints" /\ b.cmd = c /\ b.row = row /\ b.todo = {s, d} /\ b.got = {}
  BY <1>1 DEF Transaction
<1>10. h \subseteq Lock /\ RelationLock(c.rel) \in h /\ \A l \in h : l \in held[t] \/ Free(t, l)
  BY <1>1, <1>3, <1>6, LockFacts
<1>11. rel' = rel
  BY <1>6 DEF tables
<1> HIDE DEF b, h
<1>12. tx'[t] = b /\ held'[t] = h
  BY <1>6 DEF IInv, TypeOK
<1>13. Source(t)' = s /\ Target(t)' = d
  BY <1>9, <1>12 DEF Source, Target
<1>14. ThreadInv(t)'
  <2>1. Phase(t)'
    BY <1>1, <1>2, <1>9, <1>12 DEF Phase
  <2>2. RowRead(t)'
    BY <1>2, <1>4, <1>9, <1>10, <1>11, <1>12 DEF RowRead
  <2> HIDE DEF s, d
  <2>3. EndpointsHeld(t)'
    BY <1>5, <1>9, <1>12, <1>13 DEF EndpointsHeld
  <2>4. Fitting(t)' /\ ObjectHeld(t)'
    BY <1>9, <1>12 DEF Fitting, ObjectHeld
  <2>5. Cascading(t)' /\ Ordered(t)'
    BY <1>2, <1>9, <1>12 DEF Cascading, Ordered
  <2> QED
    BY <2>1, <2>2, <2>3, <2>4, <2>5 DEF ThreadInv
<1> QED
  BY <1>6, <1>8, <1>10, <1>14, QuietStep

LEMMA LockEndpointKeeps ==
  ASSUME IInv, NEW t \in Threads, NEW o \in Objects, LockEndpoint(t, o)
  PROVE  IInv'
<1> DEFINE c == tx[t].cmd
           rest == tx[t].todo \ {o}
           next == IF rest = {} THEN "validate" ELSE "endpoints"
           b == [tx[t] EXCEPT !.todo = rest, !.pc = next]
           h == held[t] \cup {ObjectLock(o)}
<1>1. /\ tx[t].pc = "endpoints" /\ c.kind \in Candidates /\ c \in Commands /\ tx[t].got = {}
      /\ tx[t] \in Transaction /\ held[t] \subseteq Lock
      /\ tx[t].todo \subseteq Objects
  BY TxFacts DEF LockEndpoint, IInv, ThreadInv, Phase, EndpointsHeld
<1>2. c.kind \notin Removals /\ c.kind \notin ObjectKinds
  BY <1>1 DEF Candidates, Removals, ObjectKinds
<1>3. RowRead(t) /\ EndpointsHeld(t) /\ Ordered(t) /\ Cascading(t)
  BY DEF IInv, ThreadInv
<1>4. /\ tx' = [tx EXCEPT ![t] = b] /\ held' = [held EXCEPT ![t] = h] /\ UNCHANGED tables
      /\ Free(t, ObjectLock(o)) /\ o \in tx[t].todo /\ \A j \in tx[t].todo : o <= j
  BY DEF LockEndpoint, Take, First
<1>5. next \in {"validate", "endpoints"} /\ (next = "validate" => rest = {}) /\ rest \subseteq Objects
  BY <1>1
<1> HIDE DEF next
<1>6. b \in Transaction
  BY <1>1, <1>5 DEF Transaction, PCs
<1>7. /\ b.pc = next /\ b.cmd = c /\ b.row = tx[t].row /\ b.todo = rest /\ b.got = {}
  BY <1>1 DEF Transaction
<1>8. h \subseteq Lock /\ ObjectLock(o) \in h /\ \A l \in h : l \in held[t] \/ Free(t, l)
  BY <1>1, <1>4, LockFacts
<1>9. rel' = rel
  BY <1>4 DEF tables
<1>10. \A l \in held[t] : l \in h
  OBVIOUS
<1>11. \A l \in h : l \in held[t] \/ l = ObjectLock(o)
  OBVIOUS
<1>12. c.kind = "CreateRelation" => \A l \in h, j \in rest : Below(l, ObjectLock(j))
  <2> SUFFICES ASSUME c.kind = "CreateRelation", NEW l \in h, NEW j \in rest
               PROVE  Below(l, ObjectLock(j))
    OBVIOUS
  <2>1. CASE l \in held[t]
    BY <1>1, <1>3, <2>1 DEF Ordered
  <2>2. CASE l = ObjectLock(o)
    <3>1. o \in Nat /\ j \in Nat /\ o <= j /\ o # j
      BY <1>1, <1>4, RelationTypeValid
    <3>2. o < j
      BY <3>1
    <3> QED
      BY <2>2, <3>2 DEF Below, ObjectLock
  <2> QED
    BY <1>11, <2>1, <2>2
<1> HIDE DEF b, h
<1>13. tx'[t] = b /\ held'[t] = h
  BY <1>4 DEF IInv, TypeOK
<1>14. Source(t)' = Source(t) /\ Target(t)' = Target(t)
  BY <1>7, <1>13 DEF Source, Target
<1>15. ThreadInv(t)'
  <2>1. Phase(t)'
    BY <1>1, <1>5, <1>7, <1>13 DEF Phase
  <2>2. RowRead(t)'
    BY <1>1, <1>3, <1>5, <1>7, <1>9, <1>10, <1>13 DEF RowRead
  <2>3. EndpointsHeld(t)'
    <3>1. \A p \in {Source(t), Target(t)} : ObjectLock(p) \in h \/ p \in rest
      BY <1>1, <1>3, <1>8, <1>10 DEF EndpointsHeld
    <3> QED
      BY <1>1, <1>3, <1>5, <1>7, <1>13, <1>14, <3>1 DEF EndpointsHeld
  <2>4. Fitting(t)' /\ ObjectHeld(t)' /\ Cascading(t)'
    BY <1>5, <1>7, <1>13 DEF Fitting, ObjectHeld, Cascading
  <2>5. Ordered(t)'
    BY <1>5, <1>7, <1>12, <1>13 DEF Ordered
  <2> QED
    BY <2>1, <2>2, <2>3, <2>4, <2>5 DEF ThreadInv
<1> QED
  BY <1>4, <1>6, <1>8, <1>15, QuietStep

LEMMA ValidateKeeps ==
  ASSUME IInv, NEW t \in Threads, Validate(t)
  PROVE  IInv'
<1> DEFINE c == tx[t].cmd
           b == [tx[t] EXCEPT !.pc = "write"]
<1>1. /\ tx[t].pc = "validate" /\ c.kind \in Candidates /\ c \in Commands /\ tx[t].got = {}
      /\ tx[t] \in Transaction
  BY TxFacts DEF Validate, IInv, ThreadInv, Phase
<1>2. RowRead(t) /\ EndpointsHeld(t)
  BY DEF IInv, ThreadInv
<1>3. /\ tx' = [tx EXCEPT ![t] = b] /\ UNCHANGED << tables, held >> /\ Admissible(t)
  BY DEF Validate
<1>4. b \in Transaction
  BY <1>1 DEF Transaction, PCs
<1>5. /\ b.pc = "write" /\ b.cmd = c /\ b.row = tx[t].row /\ b.todo = tx[t].todo /\ b.got = {}
  BY <1>1 DEF Transaction
<1>6. rel' = rel /\ obj' = obj /\ held' = held
  BY <1>3 DEF tables
<1> HIDE DEF b
<1>7. tx'[t] = b
  BY <1>3 DEF IInv, TypeOK
<1>8. Source(t)' = Source(t) /\ Target(t)' = Target(t)
  BY <1>5, <1>7 DEF Source, Target
<1>9. Others(t)' = Others(t)
  BY <1>5, <1>6, <1>7 DEF Others, Active
<1>10. ThreadInv(t)'
  <2>1. Phase(t)'
    BY <1>1, <1>5, <1>7 DEF Phase
  <2>2. RowRead(t)'
    BY <1>1, <1>2, <1>5, <1>6, <1>7 DEF RowRead
  <2>3. EndpointsHeld(t)'
    BY <1>1, <1>2, <1>5, <1>6, <1>7, <1>8 DEF EndpointsHeld
  <2>4. Fitting(t)'
    <3>1. /\ Source(t) # Target(t)
          /\ ~InvalidEndpoint(Source(t)) /\ ~InvalidEndpoint(Target(t))
          /\ ~Duplicate(t) /\ ~TooMany(t)
      BY <1>3 DEF Admissible
    <3>2. ~InvalidEndpoint(Source(t))' /\ ~InvalidEndpoint(Target(t))'
      BY <1>6, <1>8, <3>1 DEF InvalidEndpoint
    <3>3. ~Duplicate(t)' /\ ~TooMany(t)'
      BY <1>6, <1>8, <1>9, <3>1 DEF Duplicate, TooMany
    <3> QED
      BY <1>8, <3>1, <3>2, <3>3 DEF Fitting
  <2>5. ObjectHeld(t)' /\ Cascading(t)' /\ Ordered(t)'
    BY <1>5, <1>7 DEF ObjectHeld, Cascading, Ordered
  <2> QED
    BY <2>1, <2>2, <2>3, <2>4, <2>5 DEF ThreadInv
<1> QED
  BY <1>3, <1>4, <1>10, SameLocks

LEMMA InsertClosureKeeps ==
  ASSUME IInv, NEW t \in Threads, InsertClosure(t)
  PROVE  IInv'
<1> DEFINE c == tx[t].cmd
           new == IF Hierarchical /\ EndpointsChanged(t)
                  THEN Spanned(View(t), Source(t), Target(t)) ELSE {}
           b == [tx[t] EXCEPT !.pc = "commit", !.ins = new]
<1>1. /\ tx[t].pc = "write" /\ c.kind \in Candidates /\ c \in Commands /\ tx[t].got = {}
      /\ tx[t] \in Transaction
  BY TxFacts DEF InsertClosure, IInv, ThreadInv, Phase
<1>2. c.kind \notin Removals /\ c.kind \notin ObjectKinds
  BY <1>1 DEF Candidates, Removals, ObjectKinds
<1>3. RowRead(t) /\ EndpointsHeld(t) /\ Fitting(t)
  BY DEF IInv, ThreadInv
<1>4. /\ tx' = [tx EXCEPT ![t] = b] /\ UNCHANGED << tables, held >>
  BY DEF InsertClosure
<1>5. new \subseteq Pairs
  <2>1. Source(t) \in Objects /\ Target(t) \in Objects
    BY <1>1, <1>3 DEF EndpointsHeld
  <2> QED
    BY <2>1, ClosureFacts DEF IInv
<1> HIDE DEF new
<1>6. b \in Transaction
  BY <1>1, <1>5 DEF Transaction, PCs
<1>7. /\ b.pc = "commit" /\ b.cmd = c /\ b.row = tx[t].row /\ b.todo = tx[t].todo /\ b.got = {}
  BY <1>1 DEF Transaction
<1>8. rel' = rel /\ obj' = obj /\ held' = held
  BY <1>4 DEF tables
<1> HIDE DEF b
<1>9. tx'[t] = b
  BY <1>4 DEF IInv, TypeOK
<1>10. Source(t)' = Source(t) /\ Target(t)' = Target(t)
  BY <1>7, <1>9 DEF Source, Target
<1>11. Others(t)' = Others(t)
  BY <1>7, <1>8, <1>9 DEF Others, Active
<1>12. ThreadInv(t)'
  <2>1. Phase(t)'
    BY <1>1, <1>7, <1>9 DEF Phase
  <2>2. RowRead(t)'
    BY <1>1, <1>3, <1>7, <1>8, <1>9 DEF RowRead
  <2>3. EndpointsHeld(t)'
    BY <1>1, <1>3, <1>7, <1>8, <1>9, <1>10 DEF EndpointsHeld
  <2>4. Fitting(t)'
    <3>1. /\ Source(t) # Target(t)
          /\ ~InvalidEndpoint(Source(t)) /\ ~InvalidEndpoint(Target(t))
          /\ ~Duplicate(t) /\ ~TooMany(t)
      BY <1>1, <1>3 DEF Fitting
    <3>2. ~InvalidEndpoint(Source(t))' /\ ~InvalidEndpoint(Target(t))'
      BY <1>8, <1>10, <3>1 DEF InvalidEndpoint
    <3>3. ~Duplicate(t)' /\ ~TooMany(t)'
      BY <1>8, <1>10, <1>11, <3>1 DEF Duplicate, TooMany
    <3> QED
      BY <1>10, <3>1, <3>2, <3>3 DEF Fitting
  <2>5. ObjectHeld(t)' /\ Cascading(t)' /\ Ordered(t)'
    BY <1>2, <1>7, <1>9 DEF ObjectHeld, Cascading, Ordered
  <2> QED
    BY <2>1, <2>2, <2>3, <2>4, <2>5 DEF ThreadInv
<1> QED
  BY <1>4, <1>6, <1>12, SameLocks

LEMMA LockObjectKeeps ==
  ASSUME IInv, NEW t \in Threads, LockObject(t)
  PROVE  IInv'
<1> DEFINE c == tx[t].cmd
           found == {r \in Relations : Active(r) /\ Touches(r, c.obj)}
           next == IF c.kind = "ChangeState" THEN "commit" ELSE "cascade"
           todo == IF c.kind = "ChangeState" THEN {} ELSE found
           b == [tx[t] EXCEPT !.pc = next, !.todo = todo]
           h == held[t] \cup {ObjectLock(c.obj)}
<1>1. /\ tx[t].pc = "object" /\ c.kind \in ObjectKinds /\ c \in Commands /\ tx[t].got = {}
      /\ tx[t] \in Transaction /\ held[t] \subseteq Lock /\ held[t] = {}
      /\ tx[t].row = NoRelation /\ c.obj \in Objects
  BY TxFacts, CommandFacts DEF LockObject, IInv, ThreadInv, Phase, Ordered, RowRead
<1>2. /\ c.kind \notin RelationKinds /\ c.kind \notin Candidates
      /\ c.kind \in Removals <=> c.kind # "ChangeState"
  BY <1>1 DEF Candidates, Removals, ObjectKinds, RelationKinds
<1>3. /\ tx' = [tx EXCEPT ![t] = b] /\ held' = [held EXCEPT ![t] = h] /\ UNCHANGED tables
      /\ Free(t, ObjectLock(c.obj)) /\ ~RefusedObject(c)
  BY DEF LockObject, Take
<1>4. /\ next \in {"commit", "cascade"} /\ todo \subseteq Relations
      /\ next = "commit" <=> c.kind = "ChangeState"
      /\ next = "cascade" => todo = found
  OBVIOUS
<1>5. c.kind = "ChangeState" => MayChange(obj[c.obj].status, c.to)
  BY <1>3 DEF RefusedObject
<1> HIDE DEF next, todo
<1>6. b \in Transaction
  BY <1>1, <1>4 DEF Transaction, PCs
<1>7. /\ b.pc = next /\ b.cmd = c /\ b.row = NoRelation /\ b.todo = todo /\ b.got = {}
  BY <1>1 DEF Transaction
<1>8. /\ h \subseteq Lock /\ h = {ObjectLock(c.obj)}
      /\ \A l \in h : l \in held[t] \/ Free(t, l)
  BY <1>1, <1>3, LockFacts
<1>9. rel' = rel /\ obj' = obj
  BY <1>3 DEF tables
<1> HIDE DEF b, h
<1>10. tx'[t] = b /\ held'[t] = h
  BY <1>3 DEF IInv, TypeOK
<1>11. ThreadInv(t)'
  <2>1. Phase(t)'
    BY <1>1, <1>2, <1>4, <1>7, <1>10 DEF Phase
  <2>2. RowRead(t)'
    BY <1>2, <1>7, <1>10 DEF RowRead
  <2>3. EndpointsHeld(t)' /\ Fitting(t)'
    BY <1>2, <1>4, <1>7, <1>10 DEF EndpointsHeld, Fitting
  <2>4. ObjectHeld(t)'
    BY <1>5, <1>7, <1>8, <1>9, <1>10 DEF ObjectHeld
  <2>5. Cascading(t)'
    <3>1. ASSUME NEW r \in Relations, next = "cascade",
                 rel'[r].status = "ACTIVE", c.obj \in {rel'[r].src, rel'[r].tgt}
          PROVE  r \in todo
      BY <1>4, <1>9, <3>1 DEF Active, Touches
    <3>2. next = "cascade" \/ c.kind \notin Removals
      BY <1>2, <1>4
    <3> QED
      BY <1>4, <1>7, <1>10, <3>1, <3>2 DEF Cascading, Active, Touches
  <2>6. Ordered(t)'
    <3>1. \A r : Below(ObjectLock(c.obj), RelationLock(r))
      BY DEF Below, ObjectLock, RelationLock
    <3> QED
      BY <1>4, <1>7, <1>8, <1>10, <3>1 DEF Ordered
  <2> QED
    BY <2>1, <2>2, <2>3, <2>4, <2>5, <2>6 DEF ThreadInv
<1> QED
  BY <1>3, <1>6, <1>8, <1>11, QuietStep

LEMMA LockActiveKeeps ==
  ASSUME IInv, NEW t \in Threads, NEW r \in Relations, LockActive(t, r)
  PROVE  IInv'
<1> DEFINE c == tx[t].cmd
           rest == tx[t].todo \ {r}
           got == IF Active(r) /\ Touches(r, c.obj) THEN tx[t].got \cup {r} ELSE tx[t].got
           b == [tx[t] EXCEPT !.todo = rest, !.got = got]
           h == held[t] \cup {RelationLock(r)}
<1>1. /\ tx[t].pc = "cascade" /\ c.kind \in Removals /\ c \in Commands
      /\ tx[t] \in Transaction /\ held[t] \subseteq Lock /\ tx[t].got \subseteq Relations
      /\ tx[t].row = NoRelation /\ tx[t].todo \subseteq Relations
  BY TxFacts DEF LockActive, IInv, ThreadInv, Phase, RowRead, Cascading
<1>2. c.kind \in ObjectKinds /\ c.kind # "ChangeState"
  BY <1>1 DEF Removals, ObjectKinds
<1>3. ObjectHeld(t) /\ Cascading(t) /\ Ordered(t)
  BY DEF IInv, ThreadInv
<1>4. /\ tx' = [tx EXCEPT ![t] = b] /\ held' = [held EXCEPT ![t] = h] /\ UNCHANGED tables
      /\ Free(t, RelationLock(r)) /\ r \in tx[t].todo /\ \A j \in tx[t].todo : r <= j
  <2>1. LockActive(t, r) => tx' = [tx EXCEPT ![t] = b]
    BY DEF LockActive
  <2> QED
    BY <2>1 DEF LockActive, Take, First
<1>5. /\ got \subseteq Relations /\ tx[t].got \subseteq got
      /\ \A q \in got : q \in tx[t].got \/ q = r
      /\ r \in got <=> r \in tx[t].got \/ (Active(r) /\ Touches(r, c.obj))
  BY <1>1
<1> HIDE DEF got
<1>6. b \in Transaction
  BY <1>1, <1>5 DEF Transaction
<1>7. /\ b.pc = "cascade" /\ b.cmd = c /\ b.row = NoRelation /\ b.todo = rest /\ b.got = got
  BY <1>1 DEF Transaction
<1>8. h \subseteq Lock /\ RelationLock(r) \in h /\ \A l \in h : l \in held[t] \/ Free(t, l)
  BY <1>1, <1>4, LockFacts
<1>9. rel' = rel /\ obj' = obj
  BY <1>4 DEF tables
<1>10. \A l \in held[t] : l \in h
  OBVIOUS
<1>11. \A l \in h, j \in rest : Below(l, RelationLock(j))
  <2> SUFFICES ASSUME NEW l \in h, NEW j \in rest
               PROVE  Below(l, RelationLock(j))
    OBVIOUS
  <2>1. CASE l \in held[t]
    BY <1>1, <1>3, <2>1 DEF Ordered
  <2>2. CASE l = RelationLock(r)
    <3>1. r \in Nat /\ j \in Nat /\ r <= j /\ r # j
      BY <1>1, <1>4, RelationTypeValid
    <3>2. r < j
      BY <3>1
    <3> QED
      BY <2>2, <3>2 DEF Below, RelationLock
  <2> QED
    BY <2>1, <2>2
<1> HIDE DEF b, h
<1>12. tx'[t] = b /\ held'[t] = h
  BY <1>4 DEF IInv, TypeOK
<1>13. ThreadInv(t)'
  <2>1. Phase(t)'
    BY <1>1, <1>7, <1>12 DEF Phase
  <2>2. RowRead(t)' /\ EndpointsHeld(t)' /\ Fitting(t)'
    BY <1>7, <1>12 DEF RowRead, EndpointsHeld, Fitting
  <2>3. ObjectHeld(t)'
    BY <1>1, <1>2, <1>3, <1>7, <1>10, <1>12 DEF ObjectHeld
  <2>4. Cascading(t)'
    <3>1. \A q \in tx[t].got : RelationLock(q) \in held[t] /\ Active(q) /\ Touches(q, c.obj)
      BY <1>3 DEF Cascading
    <3>2. \A q \in got : RelationLock(q) \in h /\ Active(q) /\ Touches(q, c.obj)
      BY <1>5, <1>8, <1>10, <3>1
    <3>3. \A q \in Relations : Active(q) /\ Touches(q, c.obj) => q \in tx[t].got \/ q \in tx[t].todo
      BY <1>1, <1>3 DEF Cascading
    <3>4. \A q \in Relations : Active(q) /\ Touches(q, c.obj) => q \in got \/ q \in rest
      BY <1>5, <3>3
    <3>5. rest \subseteq Relations
      BY <1>1
    <3> HIDE DEF rest
    <3> QED
      BY <1>7, <1>9, <1>12, <3>2, <3>4, <3>5 DEF Cascading, Active, Touches
  <2>5. Ordered(t)'
    BY <1>7, <1>11, <1>12 DEF Ordered
  <2> QED
    BY <2>1, <2>2, <2>3, <2>4, <2>5 DEF ThreadInv
<1> QED
  BY <1>4, <1>6, <1>8, <1>13, QuietStep

(* AcceptActive and ClearCascade go on with what the cascade has locked.   *)
LEMMA CascadeGoesOn ==
  ASSUME IInv, NEW t \in Threads, NEW b, b \in Transaction,
         tx[t].pc \in {"cascade", "clear"}, tx[t].pc = "cascade" => tx[t].todo = {},
         tx' = [tx EXCEPT ![t] = b], UNCHANGED << tables, held >>,
         b.pc \in {"clear", "commit"}, b.cmd = tx[t].cmd, b.row = tx[t].row, b.got = tx[t].got
  PROVE  IInv'
<1> DEFINE c == tx[t].cmd
<1>1. /\ c.kind \in Removals /\ c \in Commands /\ tx[t].row = NoRelation
  BY DEF IInv, ThreadInv, Phase, RowRead
<1>2. c.kind \in ObjectKinds /\ c.kind \notin RelationKinds /\ c.kind \notin Candidates
  BY <1>1 DEF Removals, ObjectKinds, RelationKinds, Candidates
<1>3. ObjectHeld(t) /\ Cascading(t)
  BY DEF IInv, ThreadInv
<1>4. rel' = rel /\ obj' = obj /\ held' = held
  BY DEF tables
<1>5. tx'[t] = b
  BY DEF IInv, TypeOK
<1>6. ThreadInv(t)'
  <2>1. Phase(t)'
    BY <1>1, <1>5 DEF Phase
  <2>2. RowRead(t)' /\ EndpointsHeld(t)' /\ Fitting(t)'
    BY <1>1, <1>2, <1>5 DEF RowRead, EndpointsHeld, Fitting
  <2>3. ObjectHeld(t)'
    BY <1>2, <1>3, <1>4, <1>5 DEF ObjectHeld
  <2>4. Cascading(t)'
    BY <1>1, <1>3, <1>4, <1>5 DEF Cascading, Active, Touches
  <2>5. Ordered(t)'
    BY <1>5 DEF Ordered
  <2> QED
    BY <2>1, <2>2, <2>3, <2>4, <2>5 DEF ThreadInv
<1> QED
  BY <1>6, SameLocks

LEMMA AcceptActiveKeeps ==
  ASSUME IInv, NEW t \in Threads, AcceptActive(t)
  PROVE  IInv'
<1> DEFINE next == IF tx[t].got = {} THEN "commit" ELSE "clear"
           b == [tx[t] EXCEPT !.pc = next, !.todo = tx[t].got]
<1>1. /\ tx[t] \in Transaction /\ tx[t].got \subseteq Relations
      /\ tx[t].pc = "cascade" /\ tx[t].todo = {}
      /\ tx' = [tx EXCEPT ![t] = b] /\ UNCHANGED << tables, held >>
  BY TxFacts DEF IInv, AcceptActive
<1>2. next \in {"clear", "commit"}
  OBVIOUS
<1> HIDE DEF next
<1>3. b \in Transaction
  BY <1>1, <1>2 DEF Transaction, PCs
<1>4. b.pc = next /\ b.cmd = tx[t].cmd /\ b.row = tx[t].row /\ b.got = tx[t].got
  BY <1>1 DEF Transaction
<1> HIDE DEF b
<1> QED
  BY <1>1, <1>2, <1>3, <1>4, CascadeGoesOn

LEMMA ClearCascadeKeeps ==
  ASSUME IInv, NEW t \in Threads, NEW r \in Relations, ClearCascade(t, r)
  PROVE  IInv'
<1> DEFINE rest == tx[t].todo \ {r}
           next == IF rest = {} THEN "commit" ELSE "clear"
           del == tx[t].del \cup Cleared(View(t), rel[r])
           b == [tx[t] EXCEPT !.todo = rest, !.pc = next, !.del = del]
<1>1. /\ tx[t] \in Transaction /\ tx[t].todo \subseteq Objects \cup Relations
      /\ tx[t].pc = "clear"
      /\ tx' = [tx EXCEPT ![t] = b] /\ UNCHANGED << tables, held >>
  BY TxFacts DEF IInv, ClearCascade
<1>2. next \in {"clear", "commit"} /\ del \subseteq Pairs
  BY TxFacts, ClosureFacts DEF IInv
<1> HIDE DEF next, del
<1>3. b \in Transaction
  BY <1>1, <1>2 DEF Transaction, PCs
<1>4. b.pc = next /\ b.cmd = tx[t].cmd /\ b.row = tx[t].row /\ b.got = tx[t].got
  BY <1>1 DEF Transaction
<1> HIDE DEF b
<1> QED
  BY <1>1, <1>2, <1>3, <1>4, CascadeGoesOn

-----------------------------------------------------------------------------
(* The commits.                                                            *)

(* A transaction that commits has the locks its effect needs.              *)
LEMMA CommitStep ==
  ASSUME IInv, NEW t \in Threads, Finish(t), WriteClosure(t), Effect(t), ValidatedHolds',
         obj' \in [Objects -> [status : ObjectStatus, version : Nat \ {0}]],
         rel' \in [Relations -> Relation \cup {NoRelation}]
  PROVE  IInv'
<1> DEFINE b == Begin(Absent, "idle", {})
<1>1. b \in Transaction /\ b.pc = "idle" /\ b.row = NoRelation /\ b.got = {}
  BY BeginFacts DEF PCs
<1>2. tx' = [tx EXCEPT ![t] = b] /\ held' = [held EXCEPT ![t] = {}]
  BY DEF Finish
<1> HIDE DEF b
<1>3. tx \in [Threads -> Transaction] /\ held \in [Threads -> SUBSET Lock]
  BY DEF IInv, TypeOK
<1>4. tx'[t] = b /\ held'[t] = {} /\ \A u \in Threads \ {t} : tx'[u] = tx[u] /\ held'[u] = held[u]
  BY <1>2, <1>3
<1>5. TypeOK'
  <2>1. tx' \in [Threads -> Transaction] /\ held' \in [Threads -> SUBSET Lock]
    BY <1>1, <1>2, <1>3
  <2>2. closure' \subseteq Pairs
    BY TxFacts DEF WriteClosure, IInv, TypeOK
  <2> QED
    BY <2>1, <2>2 DEF TypeOK
<1>6. Exclusive'
  BY <1>4 DEF IInv, Exclusive
<1>7. ThreadInv(t)'
  <2>1. Phase(t)' /\ RowRead(t)'
    BY <1>1, <1>4 DEF Phase, RowRead
  <2>2. EndpointsHeld(t)' /\ Fitting(t)' /\ ObjectHeld(t)'
    BY <1>1, <1>4 DEF EndpointsHeld, Fitting, ObjectHeld
  <2>3. Cascading(t)' /\ Ordered(t)'
    BY <1>1, <1>4 DEF Cascading, Ordered
  <2> QED
    BY <2>1, <2>2, <2>3 DEF ThreadInv
<1>8. ASSUME NEW u \in Threads, u # t PROVE ThreadInv(u)'
  BY <1>4, <1>8, OthersKeep
<1> QED
  BY <1>5, <1>6, <1>7, <1>8 DEF IInv

(* What a candidate may count on when it commits.                          *)
LEMMA CandidateFacts ==
  ASSUME IInv, NEW t \in Threads, tx[t].pc = "commit", tx[t].cmd.kind \in Candidates
  PROVE  /\ tx[t].cmd \in Commands
         /\ Source(t) \in Objects /\ Target(t) \in Objects
         /\ ObjectLock(Source(t)) \in held[t] /\ ObjectLock(Target(t)) \in held[t]
         /\ Source(t) # Target(t)
         /\ obj[Source(t)].status = "LIVE" /\ obj[Target(t)].status = "LIVE"
         /\ \A q \in Relations : Active(q) /\ q # tx[t].cmd.rel =>
              /\ << rel[q].src, rel[q].tgt >> # << Source(t), Target(t) >>
              /\ OneToMany => rel[q].tgt # Target(t)
<1>1. EndpointsHeld(t) /\ Fitting(t) /\ Phase(t)
  BY DEF IInv, ThreadInv
<1>2. /\ tx[t].cmd \in Commands
      /\ Source(t) \in Objects /\ Target(t) \in Objects
      /\ ObjectLock(Source(t)) \in held[t] /\ ObjectLock(Target(t)) \in held[t]
  BY <1>1 DEF EndpointsHeld, Phase
<1>3. /\ Source(t) # Target(t)
      /\ ~InvalidEndpoint(Source(t)) /\ ~InvalidEndpoint(Target(t))
      /\ ~Duplicate(t) /\ ~TooMany(t)
  BY <1>1 DEF Fitting
<1>4. \A o \in Objects : ~InvalidEndpoint(o) => obj[o].status = "LIVE"
  BY DEF InvalidEndpoint, IInv, TypeOK, ObjectStatus
<1>5. ASSUME NEW q \in Relations, Active(q), q # tx[t].cmd.rel
      PROVE  /\ << rel[q].src, rel[q].tgt >> # << Source(t), Target(t) >>
             /\ OneToMany => rel[q].tgt # Target(t)
  <2>1. q \in Others(t)
    BY <1>5 DEF Others
  <2> QED
    BY <1>3, <2>1 DEF Duplicate, TooMany
<1> QED
  BY <1>2, <1>3, <1>4, <1>5

(***************************************************************************)
(* A candidate commits: relation r gets the ends that were validated, and  *)
(* everything else stays.                                                  *)
(***************************************************************************)
Places(t, r) ==
  /\ rel' \in [Relations -> Relation \cup {NoRelation}]
  /\ rel'[r].status = "ACTIVE" /\ rel'[r].src = Source(t) /\ rel'[r].tgt = Target(t)
  /\ \A q \in Relations \ {r} : rel'[q] = rel[q]
  /\ UNCHANGED obj

LEMMA PlacesKeeps ==
  ASSUME IInv, NEW t \in Threads, tx[t].pc = "commit", tx[t].cmd.kind \in Candidates,
         Finish(t), WriteClosure(t), NEW r \in Relations, Places(t, r),
         \/ tx[t].cmd.kind = "CreateRelation" /\ rel[r] = NoRelation
         \/ r = tx[t].cmd.rel /\ RelationLock(r) \in held[t]
  PROVE  IInv'
<1> DEFINE s == Source(t)
           d == Target(t)
<1>1. /\ s \in Objects /\ d \in Objects
      /\ ObjectLock(s) \in held[t] /\ ObjectLock(d) \in held[t]
      /\ s # d
      /\ obj[s].status = "LIVE" /\ obj[d].status = "LIVE"
      /\ \A q \in Relations : Active(q) /\ q # tx[t].cmd.rel =>
           /\ << rel[q].src, rel[q].tgt >> # << s, d >>
           /\ OneToMany => rel[q].tgt # d
  BY CandidateFacts
<1>2. /\ rel'[r].status = "ACTIVE" /\ rel'[r].src = s /\ rel'[r].tgt = d
      /\ \A q \in Relations \ {r} : rel'[q] = rel[q]
      /\ obj' = obj
  BY DEF Places
<1>3. \A q \in Relations \ {r} : Active(q) => q # tx[t].cmd.rel
  <2>1. CASE tx[t].cmd.kind = "CreateRelation"
    BY <2>1, CandidateFacts, CommandFacts, AbsentApart
  <2>2. CASE r = tx[t].cmd.rel
    BY <2>2
  <2> QED
    BY <2>1, <2>2
<1> HIDE DEF s, d
<1>4. Effect(t)
  BY <1>1, <1>2 DEF Effect, Active
<1>5. OneParent'
  <2> SUFFICES ASSUME NEW p \in Relations, NEW q \in Relations, p # q,
                      rel'[p].status = "ACTIVE", rel'[q].status = "ACTIVE"
               PROVE  /\ << rel'[p].src, rel'[p].tgt >> # << rel'[q].src, rel'[q].tgt >>
                      /\ OneToMany => rel'[p].tgt # rel'[q].tgt
    BY DEF OneParent, Active
  <2>1. CASE p # r /\ q # r
    BY <1>2, <2>1 DEF IInv, ValidatedHolds, OneParent, Active
  <2>2. CASE p = r
    BY <1>1, <1>2, <1>3, <2>2 DEF Active
  <2>3. CASE q = r
    BY <1>1, <1>2, <1>3, <2>3 DEF Active
  <2> QED
    BY <2>1, <2>2, <2>3
<1>6. DeletedIsUnrelated'
  <2> SUFFICES ASSUME NEW q \in Relations, rel'[q].status = "ACTIVE"
               PROVE  obj'[rel'[q].src].status # "DELETED" /\ obj'[rel'[q].tgt].status # "DELETED"
    BY DEF DeletedIsUnrelated, Active
  <2>1. CASE q = r
    BY <1>1, <1>2, <2>1
  <2>2. CASE q # r
    BY <1>2, <2>2 DEF IInv, ValidatedHolds, DeletedIsUnrelated, Active
  <2> QED
    BY <2>1, <2>2
<1>7. obj' \in [Objects -> [status : ObjectStatus, version : Nat \ {0}]]
  BY <1>2 DEF IInv, TypeOK
<1> QED
  BY <1>4, <1>5, <1>6, <1>7, CommitStep DEF ValidatedHolds, Places

LEMMA CommitCreatePlaces ==
  ASSUME IInv, NEW t \in Threads, CommitCreate(t)
  PROVE  /\ tx[t].cmd.kind \in Candidates /\ tx[t].pc = "commit"
         /\ \E r \in Relations : rel[r] = NoRelation /\ Places(t, r)
<1>1. /\ tx[t].pc = "commit" /\ tx[t].cmd.kind = "CreateRelation"
      /\ tx[t].cmd.kind \in Candidates
      /\ UNCHANGED obj
  BY DEF CommitCreate, Candidates
<1>2. Source(t) \in Objects /\ Target(t) \in Objects
  BY <1>1, CandidateFacts
<1> DEFINE row == [src |-> Source(t), tgt |-> Target(t), status |-> "ACTIVE", version |-> 1]
<1>3. row \in Relation /\ row.status = "ACTIVE" /\ row.src = Source(t) /\ row.tgt = Target(t)
  BY <1>2 DEF Relation, RelationStatus
<1>4. PICK r \in Relations : rel[r] = NoRelation /\ rel' = [rel EXCEPT ![r] = row]
  BY DEF CommitCreate
<1> HIDE DEF row, NoRelation
<1>5. rel \in [Relations -> Relation \cup {NoRelation}]
  BY DEF IInv, TypeOK
<1>6. /\ rel'[r] = row /\ \A q \in Relations \ {r} : rel'[q] = rel[q]
      /\ rel' \in [Relations -> Relation \cup {NoRelation}]
  BY <1>3, <1>4, <1>5
<1>7. Places(t, r)
  BY <1>1, <1>3, <1>6 DEF Places
<1> QED
  BY <1>1, <1>4, <1>7

LEMMA CommitUpdatePlaces ==
  ASSUME IInv, NEW t \in Threads, CommitUpdate(t)
  PROVE  /\ tx[t].cmd.kind \in Candidates /\ tx[t].pc = "commit"
         /\ tx[t].cmd.rel \in Relations /\ Active(tx[t].cmd.rel)
         /\ RelationLock(tx[t].cmd.rel) \in held[t]
         /\ Places(t, tx[t].cmd.rel)
<1> DEFINE r == tx[t].cmd.rel
<1>1. /\ tx[t].pc = "commit" /\ tx[t].cmd.kind = "UpdateRelation"
      /\ tx[t].cmd.kind \in Candidates /\ tx[t].cmd.kind \in RelationKinds
      /\ UNCHANGED obj
  BY DEF CommitUpdate, Candidates, RelationKinds
<1>2. Source(t) \in Objects /\ Target(t) \in Objects
  BY <1>1, CandidateFacts
<1>3. /\ r \in Relations /\ tx[t].row # NoRelation /\ rel[r] = tx[t].row
      /\ RelationLock(r) \in held[t] /\ tx[t].row.status = "ACTIVE"
  BY <1>1, CommandFacts DEF IInv, ThreadInv, RowRead, Phase
<1>4. tx[t].row \in Relation
  BY <1>3, RowFacts DEF IInv
<1> DEFINE row == [tx[t].row EXCEPT !.src = Source(t), !.tgt = Target(t),
                                    !.version = tx[t].row.version + 1]
<1>5. rel \in [Relations -> Relation \cup {NoRelation}]
  BY DEF IInv, TypeOK
<1>6. rel' = [rel EXCEPT ![r].src = Source(t), ![r].tgt = Target(t),
                         ![r].version = tx[t].row.version + 1]
  BY DEF CommitUpdate
<1> DEFINE n == tx[t].row.version + 1
<1>7. n \in Nat \ {0}
  BY <1>4 DEF Relation
<1> HIDE DEF n, r, NoRelation
<1>8. rel' = [rel EXCEPT ![r] = row]
  BY <1>3, <1>5, <1>6 DEF n
<1>9. /\ row \in Relation /\ row.status = "ACTIVE" /\ row.src = Source(t) /\ row.tgt = Target(t)
  BY <1>2, <1>3, <1>4, <1>7 DEF Relation, n
<1> HIDE DEF row
<1>10. /\ rel'[r] = row /\ \A q \in Relations \ {r} : rel'[q] = rel[q]
       /\ rel' \in [Relations -> Relation \cup {NoRelation}]
  BY <1>3, <1>5, <1>8, <1>9
<1>11. Places(t, r)
  BY <1>1, <1>9, <1>10 DEF Places
<1> QED
  BY <1>1, <1>3, <1>11 DEF Active, r

LEMMA CommitCreateKeeps ==
  ASSUME IInv, NEW t \in Threads, CommitCreate(t)
  PROVE  IInv'
<1>1. PICK r \in Relations : rel[r] = NoRelation /\ Places(t, r)
  BY CommitCreatePlaces
<1> QED
  BY <1>1, CommitCreatePlaces, PlacesKeeps DEF CommitCreate

LEMMA CommitUpdateKeeps ==
  ASSUME IInv, NEW t \in Threads, CommitUpdate(t)
  PROVE  IInv'
BY CommitUpdatePlaces, PlacesKeeps DEF CommitUpdate

(***************************************************************************)
(* A commit ends the relations of S, whose locks it holds, and makes and   *)
(* moves none.                                                             *)
(***************************************************************************)
Ends(t, S) ==
  /\ rel' \in [Relations -> Relation \cup {NoRelation}]
  /\ S \subseteq Relations
  /\ \A q \in S : /\ rel[q] # NoRelation /\ RelationLock(q) \in held[t]
                  /\ rel'[q] \in Relation /\ rel'[q].status # "ACTIVE"
  /\ \A q \in Relations \ S : rel'[q] = rel[q]

LEMMA EndsFacts ==
  ASSUME IInv, NEW t, NEW S, Ends(t, S)
  PROVE  /\ \A q \in Relations : rel'[q].status = "ACTIVE" <=> Active(q) /\ q \notin S
         /\ \A q \in Relations : rel'[q].status = "ACTIVE" => rel'[q] = rel[q]
         /\ \A q \in Relations : rel'[q] = NoRelation <=> rel[q] = NoRelation
<1>1. \A q \in S : rel'[q] # NoRelation
  <2> SUFFICES ASSUME NEW q \in S PROVE rel'[q] # NoRelation
    OBVIOUS
  <2>1. rel'[q].status \in RelationStatus
    BY DEF Ends, Relation
  <2>2. NoRelation.status = Absent
    BY DEF NoRelation
  <2> HIDE DEF NoRelation
  <2> QED
    BY <2>1, <2>2, AbsentApart
<1> HIDE DEF NoRelation
<1> QED
  BY <1>1 DEF Ends, Active

LEMMA CommitRelationEnds ==
  ASSUME IInv, NEW t \in Threads, CommitRelation(t)
  PROVE  Ends(t, {tx[t].cmd.rel})
<1> DEFINE r == tx[t].cmd.rel
           status == Final(tx[t].cmd.kind)
           n == tx[t].row.version + 1
           row == [rel[r] EXCEPT !.status = status, !.version = n]
<1>1. /\ tx[t].pc = "commit" /\ tx[t].cmd.kind \in RelationKinds
      /\ tx[t].cmd.kind # "UpdateRelation"
  BY DEF CommitRelation
<1>2. /\ r \in Relations /\ rel[r] # NoRelation /\ rel[r] = tx[t].row
      /\ RelationLock(r) \in held[t]
  BY <1>1, CommandFacts DEF IInv, ThreadInv, RowRead, Phase
<1>3. rel[r] \in Relation /\ n \in Nat \ {0}
  BY <1>2, RowFacts DEF IInv, Relation
<1>4. status \in RelationStatus /\ status # "ACTIVE"
  BY <1>1 DEF Final, RelationKinds, RelationStatus
<1>5. rel \in [Relations -> Relation \cup {NoRelation}]
  BY DEF IInv, TypeOK
<1>6. rel' = [rel EXCEPT ![r].status = status, ![r].version = n]
  BY DEF CommitRelation
<1> HIDE DEF n, r, status, NoRelation
<1>7. rel' = [rel EXCEPT ![r] = row]
  BY <1>2, <1>5, <1>6
<1>8. row \in Relation /\ row.status = status
  BY <1>3, <1>4 DEF Relation
<1> HIDE DEF row
<1>9. /\ rel'[r] = row /\ \A q \in Relations \ {r} : rel'[q] = rel[q]
      /\ rel' \in [Relations -> Relation \cup {NoRelation}]
  BY <1>2, <1>5, <1>7, <1>8
<1>10. Ends(t, {r})
  BY <1>2, <1>4, <1>8, <1>9 DEF Ends
<1> QED
  BY <1>10 DEF r

LEMMA CommitRelationKeeps ==
  ASSUME IInv, NEW t \in Threads, CommitRelation(t)
  PROVE  IInv'
<1> DEFINE S == {tx[t].cmd.rel}
<1>1. Ends(t, S) /\ obj' = obj
  BY CommitRelationEnds DEF CommitRelation
<1> HIDE DEF S
<1>2. /\ \A q \in Relations : rel'[q].status = "ACTIVE" <=> Active(q) /\ q \notin S
      /\ \A q \in Relations : rel'[q].status = "ACTIVE" => rel'[q] = rel[q]
  BY <1>1, EndsFacts
<1>3. Effect(t)
  BY <1>1, <1>2 DEF Ends, Effect
<1>4. ValidatedHolds'
  BY <1>1, <1>2 DEF IInv, ValidatedHolds, OneParent, DeletedIsUnrelated, Active
<1>5. obj' \in [Objects -> [status : ObjectStatus, version : Nat \ {0}]]
  BY <1>1 DEF IInv, TypeOK
<1> QED
  BY <1>1, <1>3, <1>4, <1>5, CommitStep DEF Ends, CommitRelation

(* An object command commits: the object, and what the cascade has locked. *)
LEMMA CommitObjectEnds ==
  ASSUME IInv, NEW t \in Threads, CommitObject(t)
  PROVE  LET c == tx[t].cmd
             status == IF c.kind = "ChangeState" THEN c.to ELSE Final(c.kind)
         IN  /\ Ends(t, tx[t].got)
             /\ c.obj \in Objects /\ ObjectLock(c.obj) \in held[t]
             /\ obj' \in [Objects -> [status : ObjectStatus, version : Nat \ {0}]]
             /\ obj'[c.obj].status = status
             /\ \A o \in Objects \ {c.obj} : obj'[o] = obj[o]
             /\ c.kind = "ChangeState" =>
                  /\ MayChange(obj[c.obj].status, c.to)
                  /\ status \in {"LIVE", "FILED", "VOID"}
                  /\ tx[t].got = {}
             /\ c.kind # "ChangeState" =>
                  /\ status \in {"VOID", "DELETED"}
                  /\ \A q \in Relations : Active(q) => (q \in tx[t].got <=> Touches(q, c.obj))
<1> DEFINE c == tx[t].cmd
           status == IF c.kind = "ChangeState" THEN c.to ELSE Final(c.kind)
           got == tx[t].got
<1>1. /\ tx[t].pc = "commit" /\ c.kind \in ObjectKinds
  BY DEF CommitObject
<1>2. /\ c.kind # "ChangeState" <=> c.kind \in Removals
      /\ c.kind \notin RelationKinds
  BY <1>1 DEF Removals, ObjectKinds, RelationKinds
<1>3. /\ Phase(t) /\ ObjectHeld(t) /\ Cascading(t)
  BY DEF IInv, ThreadInv
<1>4. /\ c \in Commands /\ c.obj \in Objects
      /\ c.kind = "ChangeState" => c.to \in ObjectStatus /\ c.to # "DELETED"
  BY <1>1, <1>3, CommandFacts DEF Phase
<1>5. /\ ObjectLock(c.obj) \in held[t]
      /\ c.kind = "ChangeState" => MayChange(obj[c.obj].status, c.to) /\ got = {}
  BY <1>1, <1>2, <1>3 DEF ObjectHeld, Phase
<1>6. /\ c.kind = "ChangeState" => status \in {"LIVE", "FILED", "VOID"}
      /\ c.kind # "ChangeState" => status \in {"VOID", "DELETED"}
  BY <1>1, <1>4 DEF Final, ObjectKinds, ObjectStatus
<1>7. c.kind # "ChangeState" =>
        \A q \in Relations : Active(q) => (q \in got <=> Touches(q, c.obj))
  BY <1>1, <1>2, <1>3 DEF Cascading
<1>8. Ends(t, got)
  <2>1. /\ got \subseteq Relations
        /\ \A q \in got : RelationLock(q) \in held[t] /\ Active(q)
    BY <1>3, TxFacts DEF Cascading, IInv
  <2>2. \A q \in Relations : rel[q] \in Relation \cup {NoRelation}
    BY DEF IInv, TypeOK
  <2>3. rel' = [r \in Relations |-> IF r \in got
                  THEN [rel[r] EXCEPT !.status = "UNLINKED", !.version = @ + 1]
                  ELSE rel[r]]
    BY DEF CommitObject
  <2> HIDE DEF got
  <2>4. ASSUME NEW q \in got
        PROVE  /\ rel[q] # NoRelation /\ RelationLock(q) \in held[t]
               /\ rel'[q] \in Relation /\ rel'[q].status = "UNLINKED"
    <3> DEFINE row == rel[q]
               n == row.version + 1
    <3>1. row \in Relation /\ row # NoRelation /\ n \in Nat \ {0}
      BY <2>1, RowFacts DEF IInv, Relation
    <3>2. rel'[q] = [row EXCEPT !.status = "UNLINKED", !.version = n]
      BY <2>1, <2>3
    <3> HIDE DEF n, row
    <3>3. rel'[q] \in Relation /\ rel'[q].status = "UNLINKED"
      BY <3>1, <3>2 DEF Relation, RelationStatus
    <3> QED
      BY <2>1, <3>1, <3>3 DEF row
  <2>5. \A q \in Relations \ got : rel'[q] = rel[q]
    BY <2>3
  <2>6. rel' \in [Relations -> Relation \cup {NoRelation}]
    <3>1. \A q \in Relations : rel'[q] \in Relation \cup {NoRelation}
      BY <2>2, <2>4, <2>5
    <3>2. rel' = [q \in Relations |-> rel'[q]]
      BY <2>3
    <3> HIDE DEF NoRelation
    <3> QED
      BY <3>1, <3>2
  <2> QED
    BY <2>1, <2>4, <2>5, <2>6 DEF Ends
<1>9. /\ obj' \in [Objects -> [status : ObjectStatus, version : Nat \ {0}]]
      /\ obj'[c.obj].status = status
      /\ \A o \in Objects \ {c.obj} : obj'[o] = obj[o]
  <2> DEFINE n == obj[c.obj].version + 1
             row == [status |-> status, version |-> n]
  <2>1. obj \in [Objects -> [status : ObjectStatus, version : Nat \ {0}]]
    BY DEF IInv, TypeOK
  <2>2. obj' = [obj EXCEPT ![c.obj] = row]
    BY DEF CommitObject
  <2>3. n \in Nat \ {0}
    BY <1>4, <2>1
  <2>4. status \in ObjectStatus
    BY <1>4, <1>6 DEF ObjectStatus
  <2> HIDE DEF n, status
  <2>5. row \in [status : ObjectStatus, version : Nat \ {0}] /\ row.status = status
    BY <2>3, <2>4
  <2> HIDE DEF row
  <2> QED
    BY <1>4, <2>1, <2>2, <2>5
<1> QED
  BY <1>4, <1>5, <1>6, <1>7, <1>8, <1>9

LEMMA CommitObjectKeeps ==
  ASSUME IInv, NEW t \in Threads, CommitObject(t)
  PROVE  IInv'
<1> DEFINE c == tx[t].cmd
           S == tx[t].got
<1>1. /\ Ends(t, S)
      /\ c.obj \in Objects /\ ObjectLock(c.obj) \in held[t]
      /\ obj' \in [Objects -> [status : ObjectStatus, version : Nat \ {0}]]
      /\ \A o \in Objects \ {c.obj} : obj'[o] = obj[o]
      /\ c.kind = "ChangeState" => obj'[c.obj].status # "DELETED"
      /\ c.kind # "ChangeState" =>
           \A q \in Relations : Active(q) => (q \in S <=> Touches(q, c.obj))
  BY CommitObjectEnds
<1> HIDE DEF S, c
<1>2. /\ \A q \in Relations : rel'[q].status = "ACTIVE" <=> Active(q) /\ q \notin S
      /\ \A q \in Relations : rel'[q].status = "ACTIVE" => rel'[q] = rel[q]
  BY <1>1, EndsFacts
<1>3. Effect(t)
  BY <1>1, <1>2 DEF Ends, Effect
<1>4. OneParent'
  BY <1>1, <1>2 DEF IInv, ValidatedHolds, OneParent, Active
<1>5. DeletedIsUnrelated'
  <2> SUFFICES ASSUME NEW q \in Relations, rel'[q].status = "ACTIVE",
                      NEW o \in {rel'[q].src, rel'[q].tgt}
               PROVE  obj'[o].status # "DELETED"
    BY DEF DeletedIsUnrelated, Active
  <2>1. /\ Active(q) /\ q \notin S /\ o \in {rel[q].src, rel[q].tgt}
        /\ o \in Objects /\ obj[o].status # "DELETED"
    BY <1>2, RowFacts DEF IInv, ValidatedHolds, DeletedIsUnrelated
  <2>2. CASE o # c.obj
    BY <1>1, <2>1, <2>2
  <2>3. CASE o = c.obj
    BY <1>1, <2>1, <2>3 DEF Touches
  <2> QED
    BY <2>2, <2>3
<1> QED
  BY <1>1, <1>3, <1>4, <1>5, CommitStep DEF Ends, CommitObject, ValidatedHolds

-----------------------------------------------------------------------------
(* The invariant, and what follows from it.                                *)
LEMMA InitHolds == Init => IInv
<1> SUFFICES ASSUME Init PROVE IInv
  OBVIOUS
<1> DEFINE b == Begin(Absent, "idle", {})
<1>1. b \in Transaction /\ b.pc = "idle" /\ b.row = NoRelation /\ b.got = {}
  BY BeginFacts DEF PCs
<1>2. /\ tx = [t \in Threads |-> b] /\ held = [t \in Threads |-> {}]
      /\ obj = [o \in Objects |-> [status |-> "LIVE", version |-> 1]]
      /\ rel = [r \in Relations |-> NoRelation] /\ closure = {}
  BY DEF Init
<1> HIDE DEF b
<1>3. TypeOK
  BY <1>1, <1>2 DEF TypeOK, ObjectStatus
<1>4. Exclusive
  BY <1>2 DEF Exclusive
<1>5. ValidatedHolds
  <2>1. \A r \in Relations : ~Active(r)
    BY <1>2, <1>3, RowFacts
  <2> QED
    BY <2>1 DEF ValidatedHolds, OneParent, DeletedIsUnrelated
<1>6. ASSUME NEW t \in Threads PROVE ThreadInv(t)
  <2>1. tx[t] = b /\ held[t] = {}
    BY <1>2
  <2>2. Phase(t) /\ RowRead(t)
    BY <1>1, <2>1 DEF Phase, RowRead
  <2>3. EndpointsHeld(t) /\ Fitting(t) /\ ObjectHeld(t)
    BY <1>1, <2>1 DEF EndpointsHeld, Fitting, ObjectHeld
  <2>4. Cascading(t) /\ Ordered(t)
    BY <1>1, <2>1 DEF Cascading, Ordered
  <2> QED
    BY <2>2, <2>3, <2>4 DEF ThreadInv
<1> QED
  BY <1>3, <1>4, <1>5, <1>6 DEF IInv

LEMMA NextKeeps == IInv /\ [Next]_vars => IInv'
<1> SUFFICES ASSUME IInv, [Next]_vars PROVE IInv'
  OBVIOUS
<1>1. CASE UNCHANGED vars
  <2>1. TypeOK' /\ Exclusive' /\ ValidatedHolds'
    BY <1>1 DEF IInv, TypeOK, Exclusive, ValidatedHolds, OneParent, DeletedIsUnrelated, Active,
                vars, tables
  <2>2. ASSUME NEW t \in Threads PROVE ThreadInv(t)'
    <3>1. UNCHANGED tables /\ tx'[t] = tx[t] /\ held'[t] = held[t] /\ rel' = rel /\ obj' = obj
      BY <1>1 DEF vars, tables
    <3>2. /\ Phase(t) /\ RowRead(t) /\ EndpointsHeld(t) /\ Fitting(t)
          /\ ObjectHeld(t) /\ Cascading(t) /\ Ordered(t)
      BY DEF IInv, ThreadInv
    <3>3. Phase(t)' /\ RowRead(t)' /\ Ordered(t)' /\ ObjectHeld(t)'
      BY <3>1, <3>2 DEF Phase, RowRead, Ordered, ObjectHeld
    <3>4. EndpointsHeld(t)' /\ Cascading(t)'
      BY <3>1, <3>2 DEF EndpointsHeld, Source, Target, Cascading, Active, Touches
    <3>5. Fitting(t)'
      BY <3>1, <3>2 DEF Fitting, Source, Target, InvalidEndpoint, Duplicate, TooMany, Others, Active
    <3> QED
      BY <3>3, <3>4, <3>5 DEF ThreadInv
  <2> QED
    BY <2>1, <2>2 DEF IInv
<1>2. ASSUME NEW t \in Threads, Quit(t) PROVE IInv'
  BY <1>2, QuitKeeps
<1>3. ASSUME NEW t \in Threads, Run(t) PROVE IInv'
  <2>1. CASE LockRelationAndQuit(t) \/ Invalidate(t) \/ LockObjectAndQuit(t) \/ RejectActive(t)
             \/ DeadlockVictim(t)
    BY <1>2, <2>1 DEF LockRelationAndQuit, Invalidate, LockObjectAndQuit, RejectActive,
                      DeadlockVictim
  <2>2. CASE LockRelation(t)
    BY <2>2, LockRelationKeeps
  <2>3. CASE LockForUpdate(t)
    BY <2>3, LockForUpdateKeeps
  <2>4. CASE \E o \in Objects : LockEndpoint(t, o)
    BY <2>4, LockEndpointKeeps
  <2>5. CASE Validate(t)
    BY <2>5, ValidateKeeps
  <2>6. CASE InsertClosure(t)
    BY <2>6, InsertClosureKeeps
  <2>7. CASE LockObject(t)
    BY <2>7, LockObjectKeeps
  <2>8. CASE \E r \in Relations : LockActive(t, r)
    BY <2>8, LockActiveKeeps
  <2>9. CASE AcceptActive(t)
    BY <2>9, AcceptActiveKeeps
  <2>10. CASE \E r \in Relations : ClearCascade(t, r)
    BY <2>10, ClearCascadeKeeps
  <2>11. CASE CommitCreate(t)
    BY <2>11, CommitCreateKeeps
  <2>12. CASE CommitUpdate(t)
    BY <2>12, CommitUpdateKeeps
  <2>13. CASE CommitRelation(t)
    BY <2>13, CommitRelationKeeps
  <2>14. CASE CommitObject(t)
    BY <2>14, CommitObjectKeeps
  <2> QED
    BY <1>3, <2>1, <2>2, <2>3, <2>4, <2>5, <2>6, <2>7, <2>8, <2>9, <2>10, <2>11, <2>12, <2>13,
       <2>14 DEF Run
<1>4. ASSUME NEW t \in Threads, NEW c \in Commands, Start(t, c) PROVE IInv'
  BY <1>4, StartKeeps
<1>5. ASSUME NEW t \in Threads, Abort(t) PROVE IInv'
  BY <1>2, <1>5 DEF Abort
<1> QED
  BY <1>1, <1>3, <1>4, <1>5 DEF Next

(***************************************************************************)
(* IInv holds of every instance.                                           *)
(***************************************************************************)
THEOREM RelationInvariance == Spec => []IInv
BY InitHolds, NextKeeps, PTL DEF Spec

(* TypeOK: the tables and the transactions are of their type.              *)
THEOREM RelationTypeOK == Spec => []TypeOK
<1>1. IInv => TypeOK
  BY DEF IInv
<1> QED
  BY <1>1, RelationInvariance, PTL

(***************************************************************************)
(* ValidatedHolds: no second parent, no second relation between the same   *)
(* objects, none to a deleted object, however validateCandidate, the       *)
(* cascades and the commits of other commands interleave.                  *)
(***************************************************************************)
THEOREM RelationsValidated == Spec => []ValidatedHolds
<1>1. IInv => ValidatedHolds
  BY DEF IInv
<1> QED
  BY <1>1, RelationInvariance, PTL

(***************************************************************************)
(* DecidedStaysValid: the relation that lockRelation read, the candidate   *)
(* that validateCandidate admitted, and the relations that                 *)
(* lockActiveForObject found are at the commit what they were.             *)
(***************************************************************************)
THEOREM RelationsDecided == Spec => []DecidedStaysValid
<1>1. IInv => DecidedStaysValid
  <2> SUFFICES ASSUME IInv, NEW t \in Threads
               PROVE  /\ tx[t].row # NoRelation => rel[tx[t].cmd.rel] = tx[t].row
                      /\ tx[t].pc \in {"write", "commit"} /\ tx[t].cmd.kind \in Candidates
                           => /\ ~InvalidEndpoint(Source(t)) /\ ~InvalidEndpoint(Target(t))
                              /\ ~Duplicate(t) /\ ~TooMany(t)
                      /\ \A r \in tx[t].got : Active(r) /\ Touches(r, tx[t].cmd.obj)
    BY DEF DecidedStaysValid, Candidates
  <2>1. RowRead(t) /\ Fitting(t) /\ Cascading(t)
    BY DEF IInv, ThreadInv
  <2> QED
    BY <2>1 DEF RowRead, Fitting, Cascading
<1> QED
  BY <1>1, RelationInvariance, PTL

-----------------------------------------------------------------------------
(* Deadlocks.                                                              *)

(* Below orders the locks.                                                 *)
LEMMA BelowOrders ==
  ASSUME NEW k \in Lock, NEW l \in Lock, NEW m \in Lock
  PROVE  /\ ~Below(k, k)
         /\ Below(k, l) /\ Below(l, m) => Below(k, m)
<1>1. \A x \in Lock : x[1] \in {"object", "relation"} /\ x[2] \in Nat
  BY RelationTypeValid DEF Lock, ObjectLock, RelationLock
<1> QED
  BY <1>1 DEF Below

(* Whoever is not in an UpdateRelation waits for a lock above its own.     *)
LEMMA WaitsAbove ==
  ASSUME IInv, NEW t \in Threads, tx[t].cmd.kind # "UpdateRelation", NEW l \in WaitsFor(t)
  PROVE  \A k \in held[t] : Below(k, l)
<1>1. Phase(t) /\ Ordered(t)
  BY DEF IInv, ThreadInv
<1>2. CASE tx[t].pc \in {"object", "relation"}
  BY <1>1, <1>2 DEF Ordered
<1>3. CASE tx[t].pc = "endpoints"
  <2>1. tx[t].cmd.kind = "CreateRelation"
    BY <1>1, <1>3 DEF Phase, Candidates
  <2>2. \E o \in tx[t].todo : l = ObjectLock(o)
    BY <1>3 DEF WaitsFor
  <2> QED
    BY <1>1, <1>3, <2>1, <2>2 DEF Ordered
<1>4. CASE tx[t].pc = "cascade"
  <2>1. \E r \in tx[t].todo : l = RelationLock(r)
    BY <1>4 DEF WaitsFor
  <2> QED
    BY <1>1, <1>4, <2>1 DEF Ordered
<1>5. CASE tx[t].pc \notin {"object", "relation", "endpoints", "cascade"}
  BY <1>5 DEF WaitsFor
<1> QED
  BY <1>2, <1>3, <1>4, <1>5

(***************************************************************************)
(* Of transactions that wait for each other in a circle, each for a lock   *)
(* above all it holds, one waits for a lock above which no other waits:    *)
(* but whoever holds that lock waits above it.                             *)
(***************************************************************************)
LEMMA NoUpwardCircle ==
  ASSUME IInv, NEW D \in SUBSET Threads, Deadlocked(D)
  PROVE  \E t \in D : tx[t].cmd.kind = "UpdateRelation"
<1> SUFFICES ASSUME \A t \in D : tx[t].cmd.kind # "UpdateRelation" PROVE FALSE
  OBVIOUS
<1> DEFINE w == [t \in D |-> CHOOSE l \in WaitsFor(t) : \E u \in D \ {t} : l \in held[u]]
           Higher(t) == {u \in D : Below(w[t], w[u])}
           sizes == {Cardinality(Higher(t)) : t \in D}
<1>1. \A t \in D : w[t] \in WaitsFor(t) /\ \E u \in D \ {t} : w[t] \in held[u]
  BY DEF Deadlocked
<1> HIDE DEF w
<1>2. \A t \in D : w[t] \in Lock
  BY <1>1 DEF IInv, TypeOK
<1>3. \A t \in D : \E u \in D : Below(w[t], w[u])
  BY <1>1, WaitsAbove
<1>4. \A t \in D : IsFiniteSet(Higher(t))
  BY ThreadsFinite, FS_Subset
<1>5. sizes \in SUBSET Nat /\ sizes # {}
  <2>1. \A t \in D : Cardinality(Higher(t)) \in Nat
    BY <1>4, FS_CardinalityType
  <2>2. D # {}
    BY DEF Deadlocked
  <2> HIDE DEF Higher
  <2> QED
    BY <2>1, <2>2
<1>6. PICK n \in sizes : \A m \in sizes : ~ (<< m, n >> \in OpToRel(<, Nat))
  BY <1>5, NatLessThanWellFounded, WFMin
<1>7. \A m \in sizes : ~ (m < n)
  BY <1>5, <1>6, Zenon DEF OpToRel
<1>8. PICK t \in D : n = Cardinality(Higher(t))
  BY <1>6
<1>9. PICK u \in D : Below(w[t], w[u])
  BY <1>3, <1>8
<1>10. Higher(u) \subseteq Higher(t) /\ u \in Higher(t) /\ u \notin Higher(u)
  BY <1>2, <1>8, <1>9, BelowOrders
<1>11. Cardinality(Higher(u)) < Cardinality(Higher(t))
  <2>1. IsFiniteSet(Higher(t)) /\ IsFiniteSet(Higher(u))
    BY <1>4
  <2> HIDE DEF Higher
  <2>2. Cardinality(Higher(t)) \in Nat /\ Cardinality(Higher(u)) \in Nat
    BY <2>1, FS_CardinalityType
  <2>3. /\ Cardinality(Higher(u)) <= Cardinality(Higher(t))
        /\ Cardinality(Higher(u)) # Cardinality(Higher(t))
    BY <1>10, <2>1, FS_Subset
  <2> QED
    BY <2>2, <2>3
<1>12. Cardinality(Higher(u)) \in sizes
  BY <1>9
<1> QED
  BY <1>7, <1>8, <1>11, <1>12

(***************************************************************************)
(* OnlyUpdatesDeadlock: lockEndpoints and lockActiveForObject lock rows by *)
(* id, after the object's own row; a circle needs an UpdateRelation, which *)
(* locks its relation first.                                               *)
(***************************************************************************)
THEOREM OnlyUpdates == Spec => []OnlyUpdatesDeadlock
<1>1. IInv => OnlyUpdatesDeadlock
  BY NoUpwardCircle DEF OnlyUpdatesDeadlock
<1> QED
  BY <1>1, RelationInvariance, PTL

-----------------------------------------------------------------------------
(***************************************************************************)
(* The refinement: the graph of the active relations.                      *)
(***************************************************************************)
Status  == [o \in Objects |-> obj[o].status]
Edge(r) == [rel |-> r, src |-> rel[r].src, tgt |-> rel[r].tgt]
Actives == {[rel |-> r, src |-> rel[r].src, tgt |-> rel[r].tgt] : r \in {q \in Relations : Active(q)}}
Used    == {r \in Relations : rel[r] # NoRelation}

LEMMA ActivesFacts ==
  /\ \A e : e \in Actives <=> \E q \in Relations : Active(q) /\ e = Edge(q)
  /\ \A q : Edge(q).rel = q /\ Edge(q).src = rel[q].src /\ Edge(q).tgt = rel[q].tgt
BY DEF Actives, Edge

LEMMA ActivesNext ==
  \A e : e \in Actives' <=> \E q \in Relations :
    rel'[q].status = "ACTIVE" /\ e = [rel |-> q, src |-> rel'[q].src, tgt |-> rel'[q].tgt]
BY DEF Actives, Active

(* A created relation is a new edge.                                       *)
LEMMA CreateLinks ==
  ASSUME IInv, NEW t \in Threads, CommitCreate(t)
  PROVE  \E e \in Graph!Edge : Graph!Link(e)
<1>1. /\ tx[t].cmd.kind = "CreateRelation" /\ tx[t].cmd.kind \in Candidates /\ tx[t].pc = "commit"
  BY CommitCreatePlaces DEF CommitCreate
<1>2. PICK r \in Relations : rel[r] = NoRelation /\ Places(t, r)
  BY CommitCreatePlaces
<1> DEFINE s == Source(t)
           d == Target(t)
<1>3. /\ s \in Objects /\ d \in Objects /\ s # d
      /\ obj[s].status = "LIVE" /\ obj[d].status = "LIVE"
      /\ \A q \in Relations : Active(q) =>
           /\ << rel[q].src, rel[q].tgt >> # << s, d >>
           /\ OneToMany => rel[q].tgt # d
  <2>1. \A q \in Relations : q # tx[t].cmd.rel
    BY <1>1, CandidateFacts, CommandFacts, AbsentApart
  <2> QED
    BY <1>1, <2>1, CandidateFacts
<1>4. /\ rel'[r].status = "ACTIVE" /\ rel'[r].src = s /\ rel'[r].tgt = d
      /\ \A q \in Relations \ {r} : rel'[q] = rel[q]
      /\ obj' = obj
  BY <1>2 DEF Places
<1>5. ~Active(r) /\ rel'[r] # NoRelation
  <2>1. NoRelation.status = Absent /\ "ACTIVE" \in RelationStatus
    BY DEF NoRelation, RelationStatus
  <2> HIDE DEF NoRelation
  <2> QED
    BY <1>2, <1>4, <2>1, AbsentApart DEF Active
<1> HIDE DEF s, d, NoRelation
<1>6. PICK e : e = [rel |-> r, src |-> s, tgt |-> d]
  OBVIOUS
<1>7. e \in Graph!Edge /\ e.rel = r /\ e.src = s /\ e.tgt = d
  BY <1>3, <1>6 DEF Graph!Edge
<1>8. Actives' = Actives \cup {e}
  <2>1. \A x : x \in Actives' <=> x \in Actives \/ x = e
    BY <1>4, <1>5, <1>6, ActivesFacts, ActivesNext DEF Edge, Active
  <2> QED
    BY <2>1
<1>9. Used' = Used \cup {r} /\ r \notin Used
  BY <1>2, <1>4, <1>5 DEF Used
<1>10. Status' = Status /\ Status[s] = "LIVE" /\ Status[d] = "LIVE"
  BY <1>3, <1>4 DEF Status
<1>11. Graph!Fits(e, Actives)
  <2>1. \A q \in Actives : << q.src, q.tgt >> # << s, d >> /\ (OneToMany => q.tgt # d)
    BY <1>3, ActivesFacts
  <2> QED
    BY <1>3, <1>7, <1>10, <2>1 DEF Graph!Fits, Status
<1>12. Graph!Link(e)
  BY <1>7, <1>8, <1>9, <1>10, <1>11 DEF Graph!Link, Actives, Used, Status
<1> QED
  BY <1>7, <1>12

(* An updated relation is an edge that moves.                              *)
LEMMA UpdateRedirects ==
  ASSUME IInv, NEW t \in Threads, CommitUpdate(t)
  PROVE  \E e \in Actives, f \in Graph!Edge : Graph!Redirect(e, f)
<1>1. PICK r \in Relations : r = tx[t].cmd.rel /\ Active(r) /\ Places(t, r)
  BY CommitUpdatePlaces
<1>2. PICK s \in Objects, d \in Objects : s = Source(t) /\ d = Target(t)
  BY CommitUpdatePlaces, CandidateFacts
<1>3. /\ s # d
      /\ obj[s].status = "LIVE" /\ obj[d].status = "LIVE"
      /\ \A q \in Relations : Active(q) /\ q # r =>
           /\ << rel[q].src, rel[q].tgt >> # << s, d >>
           /\ OneToMany => rel[q].tgt # d
  BY <1>1, <1>2, CommitUpdatePlaces, CandidateFacts
<1>4. /\ rel'[r].status = "ACTIVE" /\ rel'[r].src = s /\ rel'[r].tgt = d
      /\ \A q \in Relations \ {r} : rel'[q] = rel[q]
      /\ obj' = obj
  BY <1>1, <1>2 DEF Places
<1>5. PICK e : e = Edge(r)
  OBVIOUS
<1>6. PICK f : f = [rel |-> r, src |-> s, tgt |-> d]
  OBVIOUS
<1>7. /\ e \in Actives /\ e.rel = r
      /\ f \in Graph!Edge /\ f.rel = r /\ f.src = s /\ f.tgt = d
  BY <1>1, <1>5, <1>6, ActivesFacts DEF Graph!Edge
<1>8. \A x : x \in Actives \ {e} <=> \E q \in Relations \ {r} : Active(q) /\ x = Edge(q)
  BY <1>5, ActivesFacts
<1>9. Actives' = (Actives \ {e}) \cup {f}
  <2>1. \A x : x \in Actives' <=> x \in Actives \ {e} \/ x = f
    BY <1>4, <1>6, <1>8, ActivesNext DEF Edge, Active
  <2> QED
    BY <2>1
<1>10. Used' = Used
  <2>1. rel[r] # NoRelation /\ rel'[r] # NoRelation
    <3>1. NoRelation.status = Absent /\ "ACTIVE" \in RelationStatus
      BY DEF NoRelation, RelationStatus
    <3> HIDE DEF NoRelation
    <3> QED
      BY <1>1, <1>4, <3>1, AbsentApart DEF Active
  <2> HIDE DEF NoRelation
  <2> QED
    BY <1>4, <2>1 DEF Used
<1>11. Status' = Status /\ Status[s] = "LIVE" /\ Status[d] = "LIVE"
  BY <1>3, <1>4 DEF Status
<1>12. Graph!Fits(f, Actives \ {e})
  <2>1. \A q \in Actives \ {e} : << q.src, q.tgt >> # << s, d >> /\ (OneToMany => q.tgt # d)
    BY <1>3, <1>8, ActivesFacts
  <2> QED
    BY <1>3, <1>7, <1>11, <2>1 DEF Graph!Fits, Status
<1>13. Graph!Redirect(e, f)
  BY <1>7, <1>9, <1>10, <1>11, <1>12 DEF Graph!Redirect, Actives, Used, Status
<1> QED
  BY <1>7, <1>13

(* A commit that ends relations keeps the others, and every row.           *)
LEMMA EndsGraph ==
  ASSUME IInv, NEW t \in Threads, NEW S, Ends(t, S)
  PROVE  /\ \A x : x \in Actives' <=> \E q \in Relations \ S : Active(q) /\ x = Edge(q)
         /\ Used' = Used
<1>1. /\ \A q \in Relations : rel'[q].status = "ACTIVE" <=> Active(q) /\ q \notin S
      /\ \A q \in Relations : rel'[q].status = "ACTIVE" => rel'[q] = rel[q]
      /\ \A q \in Relations : rel'[q] = NoRelation <=> rel[q] = NoRelation
  BY EndsFacts
<1> HIDE DEF NoRelation
<1>2. Used' = Used
  BY <1>1 DEF Used
<1>3. \A x : x \in Actives' <=> \E q \in Relations \ S : Active(q) /\ x = Edge(q)
  BY <1>1, ActivesNext DEF Edge
<1> QED
  BY <1>2, <1>3

(* An ended relation is an edge that goes, or went before.                 *)
LEMMA RelationDrops ==
  ASSUME IInv, NEW t \in Threads, CommitRelation(t)
  PROVE  (\E e \in Actives : Graph!Drop(e)) \/ UNCHANGED << Status, Actives, Used >>
<1>1. PICK r : r = tx[t].cmd.rel
  OBVIOUS
<1>2. Ends(t, {r}) /\ obj' = obj
  BY <1>1, CommitRelationEnds DEF CommitRelation
<1>3. /\ \A x : x \in Actives' <=> \E q \in Relations \ {r} : Active(q) /\ x = Edge(q)
      /\ Used' = Used /\ Status' = Status /\ r \in Relations
  <2>1. Status' = Status
    BY <1>2 DEF Status
  <2>2. r \in Relations
    BY <1>2 DEF Ends
  <2> QED
    BY <1>2, <2>1, <2>2, EndsGraph
<1>4. CASE Active(r)
  <2>1. PICK e : e = Edge(r)
    OBVIOUS
  <2>2. e \in Actives
    BY <1>3, <1>4, <2>1, ActivesFacts
  <2>3. \A x : x \in Actives \ {e} <=> \E q \in Relations \ {r} : Active(q) /\ x = Edge(q)
    BY <2>1, ActivesFacts
  <2>4. Actives' = Actives \ {e}
    BY <1>3, <2>3
  <2>5. Graph!Drop(e)
    BY <1>3, <2>4 DEF Graph!Drop, Actives, Used, Status
  <2> QED
    BY <2>2, <2>5
<1>5. CASE ~Active(r)
  <2>1. \A x : x \in Actives' <=> x \in Actives
    BY <1>3, <1>5, ActivesFacts
  <2>2. Actives' = Actives
    BY <2>1
  <2> QED
    BY <1>3, <2>2
<1> QED
  BY <1>4, <1>5

(* An object changes its status alone, or goes with all its edges.         *)
LEMMA ObjectTurns ==
  ASSUME IInv, NEW t \in Threads, CommitObject(t)
  PROVE  \/ \E o \in Objects, s \in {"LIVE", "FILED", "VOID"} : Graph!Turn(o, s)
         \/ \E o \in Objects, s \in {"VOID", "DELETED"} : Graph!Remove(o, s)
<1>1. PICK c : c = tx[t].cmd
  OBVIOUS
<1>2. PICK s : s = IF c.kind = "ChangeState" THEN c.to ELSE Final(c.kind)
  OBVIOUS
<1>3. PICK S : S = tx[t].got
  OBVIOUS
<1>4. /\ Ends(t, S) /\ c.obj \in Objects
      /\ obj'[c.obj].status = s
      /\ \A o \in Objects \ {c.obj} : obj'[o] = obj[o]
      /\ c.kind = "ChangeState" =>
           MayChange(obj[c.obj].status, s) /\ s \in {"LIVE", "FILED", "VOID"} /\ S = {}
      /\ c.kind # "ChangeState" =>
           /\ s \in {"VOID", "DELETED"}
           /\ \A q \in Relations : Active(q) => (q \in S <=> Touches(q, c.obj))
  BY <1>1, <1>2, <1>3, CommitObjectEnds
<1>5. /\ \A x : x \in Actives' <=> \E q \in Relations \ S : Active(q) /\ x = Edge(q)
      /\ Used' = Used
  BY <1>4, EndsGraph
<1>6. Status' = [Status EXCEPT ![c.obj] = s]
  BY <1>4 DEF Status
<1>7. CASE c.kind = "ChangeState"
  <2>1. Actives' = Actives
    <3>1. Relations \ S = Relations
      BY <1>4, <1>7
    <3>2. \A x : x \in Actives' <=> x \in Actives
      BY <1>5, <3>1, ActivesFacts
    <3> QED
      BY <3>2
  <2>2. /\ Status[c.obj] \in {"LIVE", "FILED"}
        /\ s = "LIVE" => Status[c.obj] = "LIVE"
    BY <1>4, <1>7 DEF MayChange, Status
  <2>3. PICK o \in Objects : o = c.obj
    BY <1>4
  <2>4. Graph!Turn(o, s)
    BY <1>5, <1>6, <2>1, <2>2, <2>3 DEF Graph!Turn, Actives, Used, Status
  <2> QED
    BY <1>4, <1>7, <2>4
<1>8. CASE c.kind # "ChangeState"
  <2>1. PICK o \in Objects : o = c.obj
    BY <1>4
  <2>2. Actives' = {e \in Actives : o \notin {e.src, e.tgt}}
    <3>1. \A q \in Relations : Active(q) => (q \in S <=> o \in {Edge(q).src, Edge(q).tgt})
      BY <1>4, <1>8, <2>1, ActivesFacts DEF Touches
    <3>2. \A x : x \in Actives' <=> x \in Actives /\ o \notin {x.src, x.tgt}
      BY <1>5, <3>1, ActivesFacts
    <3> QED
      BY <3>2
  <2>3. Graph!Remove(o, s)
    BY <1>5, <1>6, <2>1, <2>2 DEF Graph!Remove, Actives, Used, Status
  <2> QED
    BY <1>4, <1>8, <2>3
<1> QED
  BY <1>7, <1>8

(***************************************************************************)
(* ActsOnGraph: the commits of the relation commands and of Archive,       *)
(* SoftDelete and ChangeState are the steps of the graph, and nothing else *)
(* touches it.                                                             *)
(***************************************************************************)
THEOREM RelationsActOnGraph == Spec => ActsOnGraph
<1>1. Init => Graph!GraphInit
  <2> SUFFICES ASSUME Init PROVE Graph!GraphInit
    OBVIOUS
  <2>1. IInv /\ obj = [o \in Objects |-> [status |-> "LIVE", version |-> 1]]
        /\ \A r \in Relations : rel[r] = NoRelation
    BY InitHolds DEF Init
  <2>2. \A r \in Relations : ~Active(r)
    BY <2>1, RowFacts DEF IInv
  <2>3. Status = [o \in Objects |-> "LIVE"]
    BY <2>1 DEF Status
  <2>4. Actives = {} /\ Used = {}
    BY <2>1, <2>2 DEF Actives, Used
  <2> QED
    BY <2>3, <2>4 DEF Graph!GraphInit, Status, Actives, Used
<1>2. IInv /\ [Next]_vars => [Graph!GraphNext]_(Graph!graph)
  <2> SUFFICES ASSUME IInv, [Next]_vars, ~(UNCHANGED << Status, Actives, Used >>)
               PROVE  Graph!GraphNext
    BY DEF Graph!graph, Status, Actives, Used
  <2>1. UNCHANGED tables => UNCHANGED << Status, Actives, Used >>
    BY DEF tables, Status, Actives, Used, Active
  <2>2. PICK t \in Threads : CommitCreate(t) \/ CommitUpdate(t) \/ CommitRelation(t) \/ CommitObject(t)
    <3>1. ASSUME NEW t \in Threads, Run(t), ~UNCHANGED tables
          PROVE  CommitCreate(t) \/ CommitUpdate(t) \/ CommitRelation(t) \/ CommitObject(t)
      BY <3>1 DEF Run, LockRelationAndQuit, LockRelation, LockForUpdate, LockEndpoint, Validate,
                  Invalidate, InsertClosure, LockObjectAndQuit, LockObject, LockActive, RejectActive,
                  AcceptActive, ClearCascade, DeadlockVictim, Quit
    <3>2. UNCHANGED vars => UNCHANGED tables
      BY DEF vars
    <3>3. \A t \in Threads : Abort(t) \/ (\E c \in Commands : Start(t, c)) => UNCHANGED tables
      BY DEF Abort, Quit, Start
    <3> QED
      BY <2>1, <3>1, <3>2, <3>3 DEF Next
  <2>3. CASE CommitCreate(t)
    BY <2>3, CreateLinks DEF Graph!GraphNext
  <2>4. CASE CommitUpdate(t)
    BY <2>4, UpdateRedirects DEF Graph!GraphNext, Actives
  <2>5. CASE CommitRelation(t)
    BY <2>5, RelationDrops DEF Graph!GraphNext, Actives
  <2>6. CASE CommitObject(t)
    BY <2>6, ObjectTurns DEF Graph!GraphNext
  <2> QED
    BY <2>2, <2>3, <2>4, <2>5, <2>6
<1> QED
  BY <1>1, <1>2, RelationInvariance, PTL DEF Spec, ActsOnGraph, Graph!GraphSpec

-----------------------------------------------------------------------------
(***************************************************************************)
(* The graph the commands act on keeps its shape, whatever its size.  Its  *)
(* state, by itself:                                                       *)
(***************************************************************************)
VARIABLES status, edges, used

Drawn == INSTANCE RelationGraph

(* An edge that Fits beside others that are well keeps them all well.      *)
LEMMA FitsBeside ==
  ASSUME NEW e \in Drawn!Edge, NEW others \in SUBSET Drawn!Edge, Drawn!Fits(e, others),
         \A f \in others : f.src # f.tgt,
         \A f, g \in others : f # g =>
           /\ << f.src, f.tgt >> # << g.src, g.tgt >>
           /\ OneToMany => f.tgt # g.tgt
  PROVE  /\ \A f \in others \cup {e} : f.src # f.tgt
         /\ \A f, g \in others \cup {e} : f # g =>
              /\ << f.src, f.tgt >> # << g.src, g.tgt >>
              /\ OneToMany => f.tgt # g.tgt
<1>1. \A f \in others \cup {e} : f.src # f.tgt
  BY DEF Drawn!Fits
<1>2. ASSUME NEW f \in others \cup {e}, NEW g \in others \cup {e}, f # g
      PROVE  /\ << f.src, f.tgt >> # << g.src, g.tgt >>
             /\ OneToMany => f.tgt # g.tgt
  <2>1. CASE f \in others /\ g \in others
    BY <2>1, <1>2
  <2>2. CASE f = e /\ g \in others
    BY <2>2 DEF Drawn!Fits
  <2>3. CASE g = e /\ f \in others
    BY <2>3 DEF Drawn!Fits
  <2>4. QED
    BY <1>2, <2>1, <2>2, <2>3
<1>3. QED
  BY <1>1, <1>2

(* Making an edge.                                                         *)
LEMMA LinkKeeps ==
  ASSUME Drawn!GraphInv, NEW e \in Drawn!Edge, Drawn!Link(e)
  PROVE  Drawn!GraphInv'
<1>1. Drawn!GraphTypeOK' /\ Drawn!OneRow'
  BY DEF Drawn!GraphInv, Drawn!GraphTypeOK, Drawn!OneRow, Drawn!Link, Drawn!Edge
<1>2. Drawn!OneEdge'
  BY FitsBeside DEF Drawn!GraphInv, Drawn!GraphTypeOK, Drawn!OneEdge, Drawn!Link
<1>3. Drawn!NoEdgeToDeleted'
  BY DEF Drawn!GraphInv, Drawn!NoEdgeToDeleted, Drawn!Link, Drawn!Fits
<1>4. QED
  BY <1>1, <1>2, <1>3 DEF Drawn!GraphInv

(* Moving an edge.                                                         *)
LEMMA RedirectKeeps ==
  ASSUME Drawn!GraphInv, NEW e \in edges, NEW f \in Drawn!Edge, Drawn!Redirect(e, f)
  PROVE  Drawn!GraphInv'
<1>1. Drawn!GraphTypeOK'
  BY DEF Drawn!GraphInv, Drawn!GraphTypeOK, Drawn!Redirect
<1>2. Drawn!OneRow'
  BY DEF Drawn!GraphInv, Drawn!OneRow, Drawn!Redirect
<1>3. Drawn!OneEdge'
  <2>1. edges \ {e} \in SUBSET Drawn!Edge
    BY DEF Drawn!GraphInv, Drawn!GraphTypeOK
  <2>2. QED
    BY <2>1, FitsBeside DEF Drawn!GraphInv, Drawn!OneEdge, Drawn!Redirect
<1>4. Drawn!NoEdgeToDeleted'
  BY DEF Drawn!GraphInv, Drawn!NoEdgeToDeleted, Drawn!Redirect, Drawn!Fits
<1>5. QED
  BY <1>1, <1>2, <1>3, <1>4 DEF Drawn!GraphInv

(* Fewer edges are no worse than more, as far as the edges alone go.       *)
LEMMA FewerEdges ==
  ASSUME Drawn!GraphInv, edges' \subseteq edges, used' = used
  PROVE  edges' \subseteq Drawn!Edge /\ used' \subseteq Relations /\ Drawn!OneRow' /\ Drawn!OneEdge'
BY DEF Drawn!GraphInv, Drawn!GraphTypeOK, Drawn!OneRow, Drawn!OneEdge

(* An object that is removed takes its edges along.                        *)
LEMMA RemoveKeeps ==
  ASSUME Drawn!GraphInv, NEW o \in Objects, NEW s \in {"VOID", "DELETED"}, Drawn!Remove(o, s)
  PROVE  Drawn!GraphInv'
<1>1. edges' \subseteq edges /\ used' = used
  BY DEF Drawn!Remove
<1>2. Drawn!GraphTypeOK' /\ Drawn!OneRow' /\ Drawn!OneEdge'
  BY <1>1, FewerEdges DEF Drawn!GraphInv, Drawn!GraphTypeOK, Drawn!Remove
<1>3. Drawn!NoEdgeToDeleted'
  <2>1. ASSUME NEW e \in edges'
        PROVE  status'[e.src] # "DELETED" /\ status'[e.tgt] # "DELETED"
    <3>1. e \in edges /\ e.src # o /\ e.tgt # o /\ e \in Drawn!Edge
      BY DEF Drawn!Remove, Drawn!GraphInv, Drawn!GraphTypeOK
    <3>2. status'[e.src] = status[e.src] /\ status'[e.tgt] = status[e.tgt]
      BY <3>1 DEF Drawn!Remove, Drawn!GraphInv, Drawn!GraphTypeOK, Drawn!Edge
    <3>3. QED
      BY <3>1, <3>2 DEF Drawn!GraphInv, Drawn!NoEdgeToDeleted
  <2>2. QED
    BY <2>1 DEF Drawn!NoEdgeToDeleted
<1>4. QED
  BY <1>2, <1>3 DEF Drawn!GraphInv

(* A state transition never leads to DELETED.                              *)
LEMMA TurnKeeps ==
  ASSUME Drawn!GraphInv, NEW o \in Objects, NEW s \in {"LIVE", "FILED", "VOID"}, Drawn!Turn(o, s)
  PROVE  Drawn!GraphInv'
<1>1. Drawn!GraphTypeOK' /\ Drawn!OneRow' /\ Drawn!OneEdge'
  BY FewerEdges DEF Drawn!GraphInv, Drawn!GraphTypeOK, Drawn!Turn
<1>2. Drawn!NoEdgeToDeleted'
  <2>1. ASSUME NEW e \in edges'
        PROVE  status'[e.src] # "DELETED" /\ status'[e.tgt] # "DELETED"
    <3>1. e \in edges /\ e \in Drawn!Edge
      BY DEF Drawn!Turn, Drawn!GraphInv, Drawn!GraphTypeOK
    <3>2. \A p \in Objects : status'[p] = status[p] \/ status'[p] = s
      BY DEF Drawn!Turn, Drawn!GraphInv, Drawn!GraphTypeOK
    <3>3. QED
      BY <3>1, <3>2 DEF Drawn!GraphInv, Drawn!NoEdgeToDeleted, Drawn!Edge
  <2>2. QED
    BY <2>1 DEF Drawn!NoEdgeToDeleted
<1>3. QED
  BY <1>1, <1>2 DEF Drawn!GraphInv

(***************************************************************************)
(* In every reachable graph no object is related to itself, no two objects *)
(* are related twice, a one_to_many type gives no object two parents, and  *)
(* no relation touches a deleted object.                                   *)
(***************************************************************************)
THEOREM GraphStaysWell == Drawn!GraphSpec => []Drawn!GraphInv
<1>1. Drawn!GraphInit => Drawn!GraphInv
  BY DEF Drawn!GraphInit, Drawn!GraphInv, Drawn!GraphTypeOK, Drawn!OneRow, Drawn!OneEdge,
         Drawn!NoEdgeToDeleted
<1>2. Drawn!GraphInv /\ [Drawn!GraphNext]_(Drawn!graph) => Drawn!GraphInv'
  <2> SUFFICES ASSUME Drawn!GraphInv, [Drawn!GraphNext]_(Drawn!graph)
               PROVE  Drawn!GraphInv'
    OBVIOUS
  <2>1. CASE \E e \in Drawn!Edge : Drawn!Link(e)
    BY <2>1, LinkKeeps
  <2>2. CASE \E e \in edges, f \in Drawn!Edge : Drawn!Redirect(e, f)
    BY <2>2, RedirectKeeps
  <2>3. CASE \E e \in edges : Drawn!Drop(e)
    <3>1. edges' \subseteq edges /\ used' = used /\ status' = status
      BY <2>3 DEF Drawn!Drop
    <3>2. Drawn!NoEdgeToDeleted'
      BY <3>1 DEF Drawn!GraphInv, Drawn!NoEdgeToDeleted
    <3>3. QED
      BY <3>1, <3>2, FewerEdges DEF Drawn!GraphInv, Drawn!GraphTypeOK
  <2>4. CASE \E o \in Objects, s \in {"LIVE", "FILED", "VOID"} : Drawn!Turn(o, s)
    BY <2>4, TurnKeeps
  <2>5. CASE \E o \in Objects, s \in {"VOID", "DELETED"} : Drawn!Remove(o, s)
    BY <2>5, RemoveKeeps
  <2>6. CASE UNCHANGED Drawn!graph
    BY <2>6 DEF Drawn!graph, Drawn!GraphInv, Drawn!GraphTypeOK, Drawn!OneRow, Drawn!OneEdge,
                Drawn!NoEdgeToDeleted
  <2>7. QED
    BY <2>1, <2>2, <2>3, <2>4, <2>5, <2>6 DEF Drawn!GraphNext
<1>3. QED
  BY <1>1, <1>2, PTL DEF Drawn!GraphSpec

-----------------------------------------------------------------------------
(***************************************************************************)
(* The closure of a hierarchy: the least transitive relation over its      *)
(* edges, and none of its objects above itself.                            *)
(***************************************************************************)
Transitive(C) == \A x, y, z \in Objects : << x, y >> \in C /\ << y, z >> \in C => << x, z >> \in C

Closes(E, C) ==
  /\ E \subseteq C /\ C \subseteq Pairs /\ Transitive(C)
  /\ \A T \in SUBSET Pairs : E \subseteq T /\ Transitive(T) => C \subseteq T
  /\ \A o \in Objects : << o, o >> \notin C

LEMMA PairwiseIn ==
  ASSUME NEW A \in SUBSET Pairs, NEW B,
         \A x, y \in Objects : << x, y >> \in A => << x, y >> \in B
  PROVE  A \subseteq B
BY DEF Pairs

LEMMA SpannedFacts ==
  ASSUME NEW C \in SUBSET Pairs, NEW s \in Objects, NEW d \in Objects
  PROVE  /\ Spanned(C, s, d) \subseteq Pairs
         /\ \A x, y \in Objects : << x, y >> \in Spanned(C, s, d) <=>
              (x = s \/ << x, s >> \in C) /\ (y = d \/ << d, y >> \in C)
<1>1. \A x : x \in Ancestors(C, s) <=> x \in Objects /\ << x, s >> \in C
  BY DEF Ancestors, Pairs
<1>2. \A y : y \in Descendants(C, d) <=> y \in Objects /\ << d, y >> \in C
  BY DEF Descendants, Pairs
<1>3. QED
  BY <1>1, <1>2 DEF Spanned, Pairs

(* The closure is the paths.                                               *)
LEMMA ClosesIsPaths ==
  ASSUME NEW C, Closes(Edges, C)
  PROVE  C = Paths /\ \A o \in Objects : << o, o >> \notin Paths
<1>1. C \in SUBSET Pairs /\ Edges \in SUBSET Pairs
  BY DEF Closes
<1>2. ASSUME NEW a \in Objects, NEW b \in Objects, << a, b >> \in C
      PROVE  << a, b >> \in Paths
  <2>1. ASSUME NEW S \in SUBSET Objects, Leads(a, S)
        PROVE  b \in S
    <3> DEFINE T == {p \in Pairs : p[1] = a \/ p[1] \in S => p[2] \in S}
    <3>1. Edges \subseteq T
      BY <1>1, <2>1 DEF Leads
    <3>2. \A x, y \in Objects : << x, y >> \in T <=> (x = a \/ x \in S => y \in S)
      BY DEF Pairs
    <3>3. Transitive(T)
      BY <3>2 DEF Transitive
    <3>4. T \in SUBSET Pairs
      OBVIOUS
    <3> HIDE DEF T
    <3>5. << a, b >> \in T
      BY <1>2, <3>1, <3>3, <3>4 DEF Closes
    <3>6. QED
      BY <3>2, <3>5
  <2>2. << a, b >> \in Pairs
    BY DEF Pairs
  <2>3. QED
    BY <2>1, <2>2 DEF Paths
<1>3. ASSUME NEW a \in Objects, NEW b \in Objects, << a, b >> \in Paths
      PROVE  << a, b >> \in C
  <2> DEFINE S == {y \in Objects : << a, y >> \in C}
  <2>1. Leads(a, S)
    <3>1. ASSUME NEW e \in Edges, e[1] = a \/ e[1] \in S
          PROVE  e[2] \in S
      <4>1. PICK x \in Objects, y \in Objects : e = << x, y >> /\ << x, y >> \in C
        BY <1>1 DEF Closes, Pairs
      <4>2. << a, y >> \in C
        BY <3>1, <4>1 DEF Closes, Transitive
      <4>3. QED
        BY <4>1, <4>2
    <3>2. QED
      BY <3>1 DEF Leads
  <2>2. S \in SUBSET Objects
    OBVIOUS
  <2>3. b \in S
    BY <1>3, <2>1, <2>2 DEF Paths
  <2>4. QED
    BY <2>3
<1>4. Paths \in SUBSET Pairs
  BY DEF Paths
<1>5. C = Paths
  BY <1>1, <1>2, <1>3, <1>4, PairwiseIn
<1>6. QED
  BY <1>5 DEF Closes

(* Grafting: what is above the new parent gets what is below the child.    *)
LEMMA ClosesGraft ==
  ASSUME NEW E, NEW C, Closes(E, C), NEW s \in Objects, NEW d \in Objects,
         s # d, << d, s >> \notin C
  PROVE  Closes(E \cup {<< s, d >>}, C \cup Spanned(C, s, d))
<1> DEFINE F == C \cup Spanned(C, s, d)
<1>1. C \in SUBSET Pairs /\ Transitive(C) /\ E \subseteq C /\ \A o \in Objects : << o, o >> \notin C
  BY DEF Closes
<1>2. \A x, y \in Objects : << x, y >> \in F <=>
        << x, y >> \in C \/ ((x = s \/ << x, s >> \in C) /\ (y = d \/ << d, y >> \in C))
  BY <1>1, SpannedFacts
<1>3. F \subseteq Pairs /\ E \cup {<< s, d >>} \subseteq F
  <2>1. << s, d >> \in F
    BY <1>2
  <2>2. F \subseteq Pairs
    BY <1>1, SpannedFacts
  <2> HIDE DEF Pairs
  <2>3. QED
    BY <1>1, <2>1, <2>2
<1> HIDE DEF F
<1>4. \A o \in Objects : << o, o >> \notin F
  BY <1>1, <1>2 DEF Transitive
<1>5. Transitive(F)
  BY <1>1, <1>2 DEF Transitive
<1>6. ASSUME NEW T \in SUBSET Pairs, E \cup {<< s, d >>} \subseteq T, Transitive(T)
      PROVE  F \subseteq T
  <2>1. C \subseteq T /\ << s, d >> \in T
    BY <1>6 DEF Closes
  <2>2. ASSUME NEW x \in Objects, NEW y \in Objects, << x, y >> \in F
        PROVE  << x, y >> \in T
    <3>1. CASE << x, y >> \in C
      BY <2>1, <3>1
    <3>2. CASE (x = s \/ << x, s >> \in C) /\ (y = d \/ << d, y >> \in C)
      <4>1. << x, d >> \in T
        BY <1>6, <2>1, <3>2 DEF Transitive
      <4>2. QED
        BY <1>6, <2>1, <3>2, <4>1 DEF Transitive
    <3>3. QED
      BY <1>2, <2>2, <3>1, <3>2
  <2>3. QED
    BY <1>3, <2>2, PairwiseIn
<1>7. QED
  BY <1>3, <1>4, <1>5, <1>6 DEF Closes, F

(* In a hierarchy the objects above another are above one another.         *)
OneAbove(E) == \A x, y, z \in Objects : << x, z >> \in E /\ << y, z >> \in E => x = y

LEMMA LastStep ==
  ASSUME NEW E, NEW C, Closes(E, C), NEW x \in Objects, NEW y \in Objects, << x, y >> \in C
  PROVE  \E p \in Objects : << p, y >> \in E /\ (x = p \/ << x, p >> \in C)
<1> DEFINE T == {q \in C : \E p \in Objects : << p, q[2] >> \in E /\ (q[1] = p \/ << q[1], p >> \in C)}
<1>1. C \in SUBSET Pairs /\ Transitive(C) /\ E \subseteq C
  BY DEF Closes
<1>2. \A a, b \in Objects : << a, b >> \in T <=>
        /\ << a, b >> \in C
        /\ \E p \in Objects : << p, b >> \in E /\ (a = p \/ << a, p >> \in C)
  OBVIOUS
<1>3. T \in SUBSET Pairs
  BY <1>1
<1> HIDE DEF T
<1>4. E \subseteq T
  <2>1. E \in SUBSET Pairs
    BY <1>1
  <2>2. \A a, b \in Objects : << a, b >> \in E => << a, b >> \in T
    BY <1>1, <1>2
  <2>3. QED
    BY <2>1, <2>2, PairwiseIn
<1>5. ASSUME NEW a \in Objects, NEW b \in Objects, NEW c \in Objects, << a, b >> \in T, << b, c >> \in T
      PROVE  << a, c >> \in T
  <2>1. PICK p \in Objects : << p, c >> \in E /\ (b = p \/ << b, p >> \in C)
    BY <1>2, <1>5
  <2>2. << a, b >> \in C /\ << b, c >> \in C
    BY <1>2, <1>5
  <2>3. << a, p >> \in C /\ << a, c >> \in C
    BY <1>1, <2>1, <2>2 DEF Transitive
  <2>4. QED
    BY <1>2, <2>1, <2>3
<1>6. Transitive(T)
  BY <1>5 DEF Transitive
<1>7. QED
  BY <1>2, <1>3, <1>4, <1>6 DEF Closes

LEMMA Chain ==
  ASSUME NEW E, NEW C, Closes(E, C), OneAbove(E),
         NEW x \in Objects, NEW w \in Objects, NEW y \in Objects, << x, y >> \in C, << w, y >> \in C
  PROVE  x = w \/ << x, w >> \in C \/ << w, x >> \in C
<1> DEFINE T == {q \in C : \A v \in Objects : << v, q[2] >> \in C =>
                            q[1] = v \/ << q[1], v >> \in C \/ << v, q[1] >> \in C}
<1>1. C \in SUBSET Pairs /\ Transitive(C) /\ E \subseteq C
  BY DEF Closes
<1>2. \A a, b \in Objects : << a, b >> \in T <=>
        /\ << a, b >> \in C
        /\ \A v \in Objects : << v, b >> \in C => a = v \/ << a, v >> \in C \/ << v, a >> \in C
  OBVIOUS
<1>3. T \in SUBSET Pairs
  BY <1>1
<1> HIDE DEF T
<1>4. E \subseteq T
  <2>1. E \in SUBSET Pairs
    BY <1>1
  <2>2. ASSUME NEW a \in Objects, NEW b \in Objects, << a, b >> \in E
        PROVE  << a, b >> \in T
    <3>1. ASSUME NEW v \in Objects, << v, b >> \in C
          PROVE  a = v \/ << v, a >> \in C
      <4>1. PICK p \in Objects : << p, b >> \in E /\ (v = p \/ << v, p >> \in C)
        BY <3>1, LastStep
      <4>2. p = a
        BY <2>2, <4>1 DEF OneAbove
      <4>3. QED
        BY <4>1, <4>2
    <3>2. QED
      BY <1>1, <1>2, <2>2, <3>1
  <2>3. QED
    BY <2>1, <2>2, PairwiseIn
<1>5. ASSUME NEW a \in Objects, NEW b \in Objects, NEW c \in Objects, << a, b >> \in T, << b, c >> \in T
      PROVE  << a, c >> \in T
  <2>1. << a, b >> \in C /\ << b, c >> \in C /\ << a, c >> \in C
    BY <1>1, <1>2, <1>5 DEF Transitive
  <2>2. ASSUME NEW v \in Objects, << v, c >> \in C
        PROVE  a = v \/ << a, v >> \in C \/ << v, a >> \in C
    <3>1. b = v \/ << b, v >> \in C \/ << v, b >> \in C
      BY <1>2, <1>5, <2>2
    <3>2. CASE << v, b >> \in C
      BY <1>2, <1>5, <3>2
    <3>3. CASE b = v \/ << b, v >> \in C
      BY <1>1, <2>1, <3>3 DEF Transitive
    <3>4. QED
      BY <3>1, <3>2, <3>3
  <2>3. QED
    BY <1>2, <2>1, <2>2
<1>6. Transitive(T)
  BY <1>5 DEF Transitive
<1>7. << x, y >> \in T
  BY <1>3, <1>4, <1>6 DEF Closes
<1>8. QED
  BY <1>2, <1>7

(* Cutting an edge: what was above it loses what was below it.             *)
THEOREM ClosesCut ==
  ASSUME NEW E, NEW C, Closes(E, C), OneAbove(E), NEW s \in Objects, NEW d \in Objects, << s, d >> \in E
  PROVE  Closes(E \ {<< s, d >>}, C \ Spanned(C, s, d))
<1> DEFINE F == C \ Spanned(C, s, d)
           Above(x) == x = s \/ << x, s >> \in C
           Below2(y) == y = d \/ << d, y >> \in C
<1>1. /\ C \in SUBSET Pairs /\ Transitive(C) /\ E \subseteq C /\ << s, d >> \in C
      /\ \A o \in Objects : << o, o >> \notin C
  BY DEF Closes
<1>2. /\ \A x, y \in Objects : << x, y >> \in F <=> << x, y >> \in C /\ ~(Above(x) /\ Below2(y))
      /\ F \in SUBSET Pairs
  BY <1>1, SpannedFacts
<1> HIDE DEF F
<1>3. \A x, y \in Objects : << x, y >> \in C =>
        /\ Above(y) => Above(x)
        /\ Below2(x) => Below2(y)
        /\ ~(Above(x) /\ Below2(x))
  BY <1>1 DEF Transitive
<1>4. E \ {<< s, d >>} \subseteq F
  <2>1. ASSUME NEW x \in Objects, NEW y \in Objects, << x, y >> \in E, << x, y >> # << s, d >>
        PROVE  << x, y >> \in F
    <3>1. ASSUME Above(x), Below2(y)
          PROVE  FALSE
      <4>1. y # d
        BY <2>1 DEF OneAbove
      <4>2. PICK p \in Objects : << p, y >> \in E /\ (d = p \/ << d, p >> \in C)
        BY <3>1, <4>1, LastStep
      <4>3. p = x
        BY <2>1, <4>2 DEF OneAbove
      <4>4. Below2(x)
        BY <4>2, <4>3
      <4>5. QED
        BY <1>1, <1>3, <2>1, <3>1, <4>4
    <3>2. QED
      BY <1>1, <1>2, <2>1, <3>1
  <2>2. E \ {<< s, d >>} \in SUBSET Pairs
    BY <1>1
  <2>3. \A x, y \in Objects : << x, y >> \in E \ {<< s, d >>} => << x, y >> \in F
    BY <2>1
  <2>4. QED
    BY <2>2, <2>3, PairwiseIn
<1>5. Transitive(F)
  <2>1. ASSUME NEW x \in Objects, NEW y \in Objects, NEW z \in Objects,
               << x, y >> \in F, << y, z >> \in F
        PROVE  << x, z >> \in F
    <3>1. << x, y >> \in C /\ << y, z >> \in C /\ << x, z >> \in C
      BY <1>1, <1>2, <2>1 DEF Transitive
    <3>2. ASSUME Above(x), Below2(z)
          PROVE  FALSE
      <4>1. ~Above(y) /\ ~Below2(y)
        BY <1>2, <2>1, <3>2
      <4>2. << d, z >> \in C \/ z = d
        BY <3>2
      <4>3. CASE z = d
        <5>1. PICK p \in Objects : << p, d >> \in E /\ (y = p \/ << y, p >> \in C)
          BY <3>1, <4>3, LastStep
        <5>2. p = s
          BY <5>1 DEF OneAbove
        <5>3. QED
          BY <4>1, <5>1, <5>2
      <4>4. CASE << d, z >> \in C
        <5>1. << y, d >> \in C
          BY <3>1, <4>1, <4>4, Chain
        <5>2. PICK p \in Objects : << p, d >> \in E /\ (y = p \/ << y, p >> \in C)
          BY <5>1, LastStep
        <5>3. p = s
          BY <5>2 DEF OneAbove
        <5>4. QED
          BY <4>1, <5>2, <5>3
      <4>5. QED
        BY <4>2, <4>3, <4>4
    <3>3. QED
      BY <1>2, <3>1, <3>2
  <2>2. QED
    BY <2>1 DEF Transitive
<1>6. ASSUME NEW T \in SUBSET Pairs, E \ {<< s, d >>} \subseteq T, Transitive(T)
      PROVE  F \subseteq T
  <2> DEFINE U == (T \cap C) \cup Spanned(C, s, d)
  <2>1. /\ \A x, y \in Objects : << x, y >> \in U <=>
             (<< x, y >> \in T /\ << x, y >> \in C) \/ (Above(x) /\ Below2(y))
        /\ U \in SUBSET Pairs
    BY <1>1, SpannedFacts
  <2> HIDE DEF U
  <2>2. E \subseteq U
    <3>1. \A x, y \in Objects : << x, y >> \in E => << x, y >> \in U
      BY <1>1, <1>6, <2>1
    <3>2. E \in SUBSET Pairs
      BY <1>1
    <3>3. QED
      BY <3>1, <3>2, PairwiseIn
  <2>3. Transitive(U)
    BY <1>1, <1>3, <1>6, <2>1 DEF Transitive
  <2>4. C \subseteq U
    BY <2>1, <2>2, <2>3 DEF Closes
  <2>5. \A x, y \in Objects : << x, y >> \in F => << x, y >> \in T
    BY <1>2, <2>1, <2>4
  <2>6. QED
    BY <1>2, <2>5, PairwiseIn
<1>7. \A o \in Objects : << o, o >> \notin F
  BY <1>1, <1>2
<1>8. QED
  BY <1>2, <1>4, <1>5, <1>6, <1>7 DEF Closes, F

-----------------------------------------------------------------------------
(***************************************************************************)
(* The hierarchy, while no two transactions that have read the closure     *)
(* table overlap and no relation is ended twice: a command that deletes    *)
(* closure rows cuts one edge after the other, and a candidate that        *)
(* commits grafts one.                                                     *)
(***************************************************************************)
(* The edges, but for the relations of G.                                  *)
Without(G) == {<< rel[r].src, rel[r].tgt >> : r \in {q \in Relations : Active(q) /\ q \notin G}}

(* The relations whose closure rows a transaction has deleted.             *)
Gone(t) ==
  IF /\ tx[t].pc \in {"endpoints", "validate", "write", "commit"}
     /\ tx[t].cmd.kind \in RelationKinds
  THEN IF tx[t].cmd.kind = "UpdateRelation" /\ ~EndpointsChanged(t) THEN {} ELSE {tx[t].cmd.rel}
  ELSE IF tx[t].pc = "commit" THEN tx[t].got
  ELSE IF tx[t].pc = "clear" THEN tx[t].got \ tx[t].todo
  ELSE {}

(* deleteClosure has run, or validateCycle has looked for a path.          *)
HasRead(t) ==
  Gone(t) # {} \/ (tx[t].pc \in {"write", "commit"} /\ tx[t].cmd.kind \in Candidates)

OneReader == \A t, u \in Threads : HasRead(t) /\ HasRead(u) => t = u

EndsActive ==
  \A t \in Threads :
    tx[t].pc = "commit" /\ tx[t].cmd.kind \in RelationKinds => tx[t].row.status = "ACTIVE"

Moves(t) ==
  tx[t].pc = "commit" /\ tx[t].cmd.kind \in Candidates /\ EndpointsChanged(t)

(* A transaction sees the closure of the edges it leaves.                  *)
Tree(t) ==
  tx[t].pc # "idle" =>
    /\ Closes(Without(Gone(t)), View(t))
    /\ tx[t].pc \in {"write", "commit"} /\ tx[t].cmd.kind \in Candidates =>
         << Target(t), Source(t) >> \notin View(t)
    /\ tx[t].ins = IF Moves(t) THEN Spanned(View(t), Source(t), Target(t)) ELSE {}
    /\ tx[t].pc = "clear" => tx[t].todo \subseteq tx[t].got
    /\ Gone(t) = {} => tx[t].del = {}

HierInv == Closes(Edges, closure) /\ \A t \in Threads : Tree(t)

LEMMA EdgesAbove ==
  ASSUME IInv, Hierarchical, NEW G
  PROVE  OneAbove(Without(G)) /\ Without(G) \subseteq Pairs
<1>1. \A e \in Without(G) :
        \E q \in Relations : Active(q) /\ e = << rel[q].src, rel[q].tgt >>
  BY DEF Without
<1>2. \A r, q \in Relations : r # q /\ Active(r) /\ Active(q) => rel[r].tgt # rel[q].tgt
  BY RelationTypeValid DEF IInv, ValidatedHolds, OneParent
<1>3. \A q \in Relations : Active(q) => rel[q].src \in Objects /\ rel[q].tgt \in Objects
  BY RowFacts DEF IInv
<1>4. ASSUME NEW x \in Objects, NEW y \in Objects, NEW z \in Objects,
             << x, z >> \in Without(G), << y, z >> \in Without(G)
      PROVE  x = y
  <2>1. PICK q \in Relations : Active(q) /\ << x, z >> = << rel[q].src, rel[q].tgt >>
    BY <1>1, <1>4
  <2>2. PICK r \in Relations : Active(r) /\ << y, z >> = << rel[r].src, rel[r].tgt >>
    BY <1>1, <1>4
  <2>3. QED
    BY <1>2, <2>1, <2>2
<1>5. QED
  BY <1>1, <1>3, <1>4 DEF OneAbove, Pairs

(* One relation more is gone: its edge, and no other.                      *)
LEMMA CutOne ==
  ASSUME IInv, Hierarchical, NEW G, NEW r \in Relations, Active(r), r \notin G
  PROVE  /\ << rel[r].src, rel[r].tgt >> \in Without(G)
         /\ Without(G \cup {r}) = Without(G) \ {<< rel[r].src, rel[r].tgt >>}
<1>1. \A F : \A e : e \in Without(F) <=>
        \E q \in Relations : Active(q) /\ q \notin F /\ e = << rel[q].src, rel[q].tgt >>
  BY DEF Without
<1>2. \A q \in Relations : q # r /\ Active(q) => rel[r].tgt # rel[q].tgt
  BY RelationTypeValid DEF IInv, ValidatedHolds, OneParent
<1>3. \A e : e \in Without(G \cup {r}) <=>
               e \in Without(G) /\ e # << rel[r].src, rel[r].tgt >>
  BY <1>1, <1>2
<1>4. << rel[r].src, rel[r].tgt >> \in Without(G)
  BY <1>1
<1>5. QED
  BY <1>3, <1>4

LEMMA CutKeeps ==
  ASSUME IInv, Hierarchical, NEW G, NEW C, Closes(Without(G), C),
         NEW r \in Relations, Active(r), r \notin G
  PROVE  Closes(Without(G \cup {r}), C \ Cleared(C, rel[r]))
<1>1. rel[r].src \in Objects /\ rel[r].tgt \in Objects
  BY RowFacts DEF IInv
<1>2. Closes(Without(G) \ {<< rel[r].src, rel[r].tgt >>}, C \ Spanned(C, rel[r].src, rel[r].tgt))
  BY <1>1, CutOne, EdgesAbove, ClosesCut
<1>3. C \ Cleared(C, rel[r]) = C \ Spanned(C, rel[r].src, rel[r].tgt)
  BY DEF Cleared
<1>4. QED
  BY <1>2, <1>3, CutOne

LEMMA EdgesWithout == Edges = Without({})
BY DEF Edges, Without

(* What a step leaves of a transaction's view, the next state has.         *)
LEMMA TreeNext ==
  ASSUME NEW t, NEW E, NEW C, Closes(E, C), Without(Gone(t))' = E, View(t)' = C
  PROVE  Closes(Without(Gone(t)), View(t))'
BY DEF Closes, Transitive

LEMMA TreeSame ==
  ASSUME NEW u, closure' = closure, \A q \in Relations : rel'[q] = rel[q],
         tx'[u] = tx[u], Tree(u)
  PROVE  Tree(u)'
<1>1. closure' = closure /\ \A q \in Relations : rel'[q] = rel[q]
  OBVIOUS
<1>2. View(u)' = View(u) /\ Source(u)' = Source(u) /\ Target(u)' = Target(u)
  BY <1>1 DEF View, Source, Target
<1>3. EndpointsChanged(u)' = EndpointsChanged(u)
  BY <1>2 DEF EndpointsChanged
<1>4. Gone(u)' = Gone(u) /\ Moves(u)' = Moves(u)
  BY <1>3 DEF Gone, Moves
<1>5. Without(Gone(u))' = Without(Gone(u))
  BY <1>1, <1>4 DEF Without, Active
<1>6. Spanned(View(u), Source(u), Target(u))' = Spanned(View(u), Source(u), Target(u))
  BY <1>2 DEF Spanned, Ancestors, Descendants
<1>7. tx[u].pc # "idle" => Closes(Without(Gone(u)), View(u))'
  BY <1>2, <1>5, TreeNext DEF Tree
<1>8. QED
  BY <1>2, <1>4, <1>6, <1>7 DEF Tree

LEMMA TreeStep ==
  ASSUME IInv, HierInv, NEW t \in Threads, NEW b, tx' = [tx EXCEPT ![t] = b],
         UNCHANGED tables, Tree(t)'
  PROVE  HierInv'
<1>1. \A u \in Threads \ {t} : tx'[u] = tx[u]
  BY DEF IInv, TypeOK
<1>2. \A u \in Threads : Tree(u)'
  BY <1>1, TreeSame DEF HierInv, tables
<1>3. Edges' = Edges /\ closure' = closure
  BY DEF tables, Edges, Active
<1>4. Closes(Edges, closure)'
  BY <1>3 DEF HierInv, Closes, Transitive
<1>5. QED
  BY <1>2, <1>4 DEF HierInv

(* A step that deletes no closure row.                                     *)
LEMMA TreeKept ==
  ASSUME IInv, HierInv, NEW t \in Threads, NEW b, tx' = [tx EXCEPT ![t] = b],
         UNCHANGED tables, tx[t].pc # "idle",
         b.cmd = tx[t].cmd, b.row = tx[t].row, b.del = tx[t].del, Gone(t)' = Gone(t),
         b.pc \in {"write", "commit"} /\ b.cmd.kind \in Candidates =>
           << Target(t), Source(t) >> \notin View(t),
         b.ins = IF Moves(t)' THEN Spanned(View(t), Source(t), Target(t)) ELSE {},
         b.pc = "clear" => b.todo \subseteq b.got
  PROVE  HierInv'
<1>1. tx'[t] = b
  BY DEF IInv, TypeOK
<1>2. rel' = rel /\ closure' = closure
  BY DEF tables
<1>3. View(t)' = View(t) /\ Source(t)' = Source(t) /\ Target(t)' = Target(t)
  BY <1>1, <1>2 DEF View, Source, Target
<1>4. Without(Gone(t))' = Without(Gone(t))
  BY <1>2 DEF Without, Active
<1>5. Spanned(View(t), Source(t), Target(t))' = Spanned(View(t), Source(t), Target(t))
  BY <1>3 DEF Spanned, Ancestors, Descendants
<1>6. Closes(Without(Gone(t)), View(t))'
  BY <1>3, <1>4, TreeNext DEF HierInv, Tree
<1>7. Gone(t) = {} => tx[t].del = {}
  BY DEF HierInv, Tree
<1>8. Tree(t)'
  BY <1>1, <1>3, <1>5, <1>6, <1>7 DEF Tree
<1>9. QED
  BY <1>8, TreeStep

LEMMA QuitTree ==
  ASSUME IInv, HierInv, NEW t \in Threads, Quit(t)
  PROVE  HierInv'
<1> DEFINE b == Begin(Absent, "idle", {})
<1>1. tx' = [tx EXCEPT ![t] = b] /\ b.pc = "idle" /\ UNCHANGED tables
  BY DEF Quit, Finish, Begin
<1> HIDE DEF b
<1>2. tx'[t].pc = "idle"
  BY <1>1 DEF IInv, TypeOK
<1>3. QED
  BY <1>1, <1>2, TreeStep DEF Tree

LEMMA StartTree ==
  ASSUME IInv, HierInv, NEW t \in Threads, NEW c \in Commands, Start(t, c)
  PROVE  HierInv'
<1> DEFINE b == CASE c.kind = "CreateRelation" -> Begin(c, "endpoints", {c.src, c.tgt})
                  [] c.kind \in RelationKinds  -> Begin(c, "relation", {})
                  [] c.kind \in ObjectKinds    -> Begin(c, "object", {})
<1>1. tx' = [tx EXCEPT ![t] = b] /\ UNCHANGED tables
  BY DEF Start
<1>2. \A pc, rows : /\ Begin(c, pc, rows).pc = pc /\ Begin(c, pc, rows).cmd = c
                    /\ Begin(c, pc, rows).del = {} /\ Begin(c, pc, rows).ins = {}
  BY DEF Begin
<1>3. /\ b.cmd = c /\ b.del = {} /\ b.ins = {}
      /\ (b.pc = "endpoints" /\ c.kind = "CreateRelation") \/ b.pc \in {"relation", "object"}
  <2>1. /\ c.kind \in RelationKinds => c.kind # "CreateRelation"
        /\ c.kind \in ObjectKinds => c.kind # "CreateRelation" /\ c.kind \notin RelationKinds
        /\ c.kind = "CreateRelation" \/ c.kind \in RelationKinds \/ c.kind \in ObjectKinds
    BY CommandFacts DEF RelationKinds, ObjectKinds
  <2>2. CASE c.kind = "CreateRelation"
    BY <1>2, <2>1, <2>2
  <2>3. CASE c.kind \in RelationKinds
    BY <1>2, <2>1, <2>3
  <2>4. CASE c.kind \in ObjectKinds
    BY <1>2, <2>1, <2>4
  <2>5. QED
    BY <2>1, <2>2, <2>3, <2>4
<1> HIDE DEF b
<1>4. tx'[t] = b
  BY <1>1 DEF IInv, TypeOK
<1>5. rel' = rel /\ closure' = closure
  BY <1>1 DEF tables
<1>6. View(t)' = closure
  BY <1>3, <1>4, <1>5 DEF View
<1>7. Gone(t)' = {}
  BY <1>3, <1>4 DEF Gone, RelationKinds
<1>8. Without(Gone(t))' = Edges
  BY <1>5, <1>7 DEF Without, Active, Edges
<1>9. Closes(Without(Gone(t)), View(t))'
  BY <1>6, <1>8, TreeNext DEF HierInv
<1>10. ~Moves(t)'
  BY <1>3, <1>4 DEF Moves
<1>11. Tree(t)'
  BY <1>3, <1>4, <1>9, <1>10 DEF Tree
<1>12. QED
  BY <1>1, <1>11, TreeStep

(* A relation's removal cuts its edge: the relation was still active.      *)
LEMMA LockRelationTree ==
  ASSUME IInv, HierInv, Hierarchical, NEW t \in Threads, LockRelation(t), EndsActive'
  PROVE  HierInv'
<1> DEFINE c == tx[t].cmd
           row == rel[c.rel]
           b == [tx[t] EXCEPT !.pc = "commit", !.row = row, !.del = Cleared(closure, row)]
<1>1. /\ tx[t].pc = "relation" /\ c.kind \in RelationKinds /\ c.kind # "UpdateRelation"
      /\ c.rel \in Relations /\ tx[t] \in Transaction
  BY TxFacts, CommandFacts DEF LockRelation, IInv, ThreadInv, Phase
<1>2. tx' = [tx EXCEPT ![t] = b] /\ UNCHANGED tables
  BY DEF LockRelation
<1>3. b.pc = "commit" /\ b.cmd = c /\ b.row = row /\ b.del = Cleared(closure, row) /\ b.ins = tx[t].ins
  BY <1>1 DEF Transaction
<1> HIDE DEF b
<1>4. tx'[t] = b
  BY <1>2 DEF IInv, TypeOK
<1>5. Active(c.rel)
  BY <1>1, <1>3, <1>4 DEF EndsActive, Active
<1>6. rel' = rel /\ closure' = closure
  BY <1>2 DEF tables
<1>7. Closes(Without({}), closure)
  BY EdgesWithout DEF HierInv
<1>8. Closes(Without({} \cup {c.rel}), closure \ Cleared(closure, row))
  BY <1>1, <1>5, <1>7, CutKeeps
<1>9. View(t)' = closure \ Cleared(closure, row)
  BY <1>3, <1>4, <1>6 DEF View
<1>10. Gone(t)' = {} \cup {c.rel}
  BY <1>1, <1>3, <1>4 DEF Gone
<1>11. Without(Gone(t))' = Without({} \cup {c.rel})
  BY <1>6, <1>10 DEF Without, Active
<1>12. Closes(Without(Gone(t)), View(t))'
  BY <1>8, <1>9, <1>11, TreeNext
<1>13. c.kind \notin Candidates
  BY <1>1 DEF Candidates, RelationKinds
<1>14. tx[t].ins = {} /\ ~Moves(t)'
  BY <1>1, <1>3, <1>4, <1>13 DEF HierInv, Tree, Moves
<1>15. Tree(t)'
  BY <1>3, <1>4, <1>10, <1>12, <1>13, <1>14 DEF Tree
<1>16. QED
  BY <1>2, <1>15, TreeStep

(* An update that moves its relation cuts the edge it had.                 *)
LEMMA LockForUpdateTree ==
  ASSUME IInv, HierInv, Hierarchical, NEW t \in Threads, LockForUpdate(t)
  PROVE  HierInv'
<1> DEFINE c == tx[t].cmd
           row == rel[c.rel]
           s == IF c.src = Absent THEN row.src ELSE c.src
           d == IF c.tgt = Absent THEN row.tgt ELSE c.tgt
           gone == IF << s, d >> = << row.src, row.tgt >> THEN {} ELSE Cleared(closure, row)
           b == [tx[t] EXCEPT !.pc = "endpoints", !.row = row, !.todo = {s, d}, !.del = gone]
<1>1. /\ tx[t].pc = "relation" /\ c.kind \in RelationKinds /\ c.kind = "UpdateRelation"
      /\ c.rel \in Relations /\ tx[t] \in Transaction
  BY TxFacts, CommandFacts DEF LockForUpdate, IInv, ThreadInv, Phase
<1>2. tx' = [tx EXCEPT ![t] = b] /\ UNCHANGED tables
  BY DEF LockForUpdate
<1>3. b.pc = "endpoints" /\ b.cmd = c /\ b.row = row /\ b.del = gone /\ b.ins = tx[t].ins
  BY <1>1 DEF Transaction
<1>4. Active(c.rel)
  BY <1>1 DEF LockForUpdate, Refused, Active
<1> HIDE DEF b
<1>5. tx'[t] = b
  BY <1>2 DEF IInv, TypeOK
<1>6. rel' = rel /\ closure' = closure
  BY <1>2 DEF tables
<1>7. Closes(Without({}), closure)
  BY EdgesWithout DEF HierInv
<1>8. Source(t)' = s /\ Target(t)' = d
  BY <1>3, <1>5 DEF Source, Target
<1>9. EndpointsChanged(t)' <=> << s, d >> # << row.src, row.tgt >>
  BY <1>3, <1>5, <1>8 DEF EndpointsChanged
<1>10. View(t)' = closure \ gone
  BY <1>3, <1>5, <1>6 DEF View
<1>11. \A G : Gone(t)' = G => Without(Gone(t))' = Without(G)
  BY <1>6 DEF Without, Active
<1>12. Closes(Without(Gone(t)), View(t))' /\ (Gone(t)' = {} => gone = {})
  <2>1. CASE << s, d >> = << row.src, row.tgt >>
    <3>1. Gone(t)' = {}
      BY <1>1, <1>3, <1>5, <1>9, <2>1 DEF Gone
    <3>2. View(t)' = closure
      BY <1>10, <2>1
    <3>3. QED
      BY <1>7, <1>11, <2>1, <3>1, <3>2, TreeNext
  <2>2. CASE << s, d >> # << row.src, row.tgt >>
    <3>1. Gone(t)' = {} \cup {c.rel}
      BY <1>1, <1>3, <1>5, <1>9, <2>2 DEF Gone
    <3>2. View(t)' = closure \ Cleared(closure, row)
      BY <1>10, <2>2
    <3>3. Closes(Without({} \cup {c.rel}), closure \ Cleared(closure, row))
      BY <1>1, <1>4, <1>7, CutKeeps
    <3>4. QED
      BY <1>11, <3>1, <3>2, <3>3, TreeNext
  <2>3. QED
    BY <2>1, <2>2
<1>13. tx[t].ins = {} /\ ~Moves(t)'
  BY <1>1, <1>3, <1>5 DEF HierInv, Tree, Moves
<1>14. Tree(t)'
  BY <1>3, <1>5, <1>12, <1>13 DEF Tree
<1>15. QED
  BY <1>2, <1>14, TreeStep

LEMMA LockEndpointTree ==
  ASSUME IInv, HierInv, NEW t \in Threads, NEW o \in Objects, LockEndpoint(t, o)
  PROVE  HierInv'
<1> DEFINE rest == tx[t].todo \ {o}
           next == IF rest = {} THEN "validate" ELSE "endpoints"
           b == [tx[t] EXCEPT !.todo = rest, !.pc = next]
<1>1. tx[t].pc = "endpoints" /\ tx[t] \in Transaction
  BY TxFacts DEF LockEndpoint, IInv
<1>2. tx' = [tx EXCEPT ![t] = b] /\ UNCHANGED tables
  BY DEF LockEndpoint
<1>3. next \in {"validate", "endpoints"}
  OBVIOUS
<1> HIDE DEF next, rest
<1>4. /\ b.pc = next /\ b.cmd = tx[t].cmd /\ b.row = tx[t].row /\ b.del = tx[t].del
      /\ b.ins = tx[t].ins
  BY <1>1 DEF Transaction
<1> HIDE DEF b
<1>5. tx'[t] = b
  BY <1>2 DEF IInv, TypeOK
<1>6. EndpointsChanged(t)' = EndpointsChanged(t)
  BY <1>4, <1>5 DEF EndpointsChanged, Source, Target
<1>7. Gone(t)' = Gone(t)
  BY <1>1, <1>3, <1>4, <1>5, <1>6 DEF Gone
<1>8. tx[t].ins = {} /\ ~Moves(t)'
  BY <1>1, <1>3, <1>4, <1>5 DEF HierInv, Tree, Moves
<1>9. QED
  BY <1>1, <1>2, <1>3, <1>4, <1>7, <1>8, TreeKept

(* A candidate that closes a cycle is refused.                             *)
LEMMA ValidateTree ==
  ASSUME IInv, HierInv, Hierarchical, NEW t \in Threads, Validate(t)
  PROVE  HierInv'
<1> DEFINE b == [tx[t] EXCEPT !.pc = "write"]
<1>1. tx[t].pc = "validate" /\ tx[t] \in Transaction
  BY TxFacts DEF Validate, IInv
<1>2. tx' = [tx EXCEPT ![t] = b] /\ UNCHANGED tables
  BY DEF Validate
<1>3. /\ b.pc = "write" /\ b.cmd = tx[t].cmd /\ b.row = tx[t].row /\ b.del = tx[t].del
      /\ b.ins = tx[t].ins
  BY <1>1 DEF Transaction
<1> HIDE DEF b
<1>4. tx'[t] = b
  BY <1>2 DEF IInv, TypeOK
<1>5. EndpointsChanged(t)' = EndpointsChanged(t)
  BY <1>3, <1>4 DEF EndpointsChanged, Source, Target
<1>6. Gone(t)' = Gone(t)
  BY <1>1, <1>3, <1>4, <1>5 DEF Gone
<1>7. tx[t].ins = {} /\ ~Moves(t)'
  BY <1>1, <1>3, <1>4 DEF HierInv, Tree, Moves
<1>8. << Target(t), Source(t) >> \notin View(t)
  BY DEF Validate, Admissible, Cycle
<1>9. QED
  BY <1>1, <1>2, <1>3, <1>6, <1>7, <1>8, TreeKept

LEMMA InsertClosureTree ==
  ASSUME IInv, HierInv, Hierarchical, NEW t \in Threads, InsertClosure(t)
  PROVE  HierInv'
<1> DEFINE new == IF Hierarchical /\ EndpointsChanged(t)
                  THEN Spanned(View(t), Source(t), Target(t)) ELSE {}
           b == [tx[t] EXCEPT !.pc = "commit", !.ins = new]
<1>1. /\ tx[t].pc = "write" /\ tx[t] \in Transaction /\ tx[t].cmd.kind \in Candidates
      /\ tx[t].got = {}
  BY TxFacts DEF InsertClosure, IInv, ThreadInv, Phase
<1>2. tx' = [tx EXCEPT ![t] = b] /\ UNCHANGED tables
  BY DEF InsertClosure
<1>3. new = IF EndpointsChanged(t) THEN Spanned(View(t), Source(t), Target(t)) ELSE {}
  OBVIOUS
<1> HIDE DEF new
<1>4. /\ b.pc = "commit" /\ b.cmd = tx[t].cmd /\ b.row = tx[t].row /\ b.del = tx[t].del
      /\ b.ins = new /\ b.got = {}
  BY <1>1 DEF Transaction
<1> HIDE DEF b
<1>5. tx'[t] = b
  BY <1>2 DEF IInv, TypeOK
<1>6. EndpointsChanged(t)' = EndpointsChanged(t)
  BY <1>4, <1>5 DEF EndpointsChanged, Source, Target
<1>7. Gone(t)' = Gone(t)
  BY <1>1, <1>4, <1>5, <1>6 DEF Gone
<1>8. Moves(t)' <=> EndpointsChanged(t)
  BY <1>1, <1>4, <1>5, <1>6 DEF Moves
<1>9. << Target(t), Source(t) >> \notin View(t)
  BY <1>1 DEF HierInv, Tree
<1>10. b.ins = IF Moves(t)' THEN Spanned(View(t), Source(t), Target(t)) ELSE {}
  BY <1>3, <1>4, <1>8
<1>11. QED
  BY <1>1, <1>2, <1>4, <1>7, <1>9, <1>10, TreeKept

LEMMA LockObjectTree ==
  ASSUME IInv, HierInv, NEW t \in Threads, LockObject(t)
  PROVE  HierInv'
<1> DEFINE c == tx[t].cmd
           next == IF c.kind = "ChangeState" THEN "commit" ELSE "cascade"
           found == {r \in Relations : Active(r) /\ Touches(r, c.obj)}
           todo == IF c.kind = "ChangeState" THEN {} ELSE found
           b == [tx[t] EXCEPT !.pc = next, !.todo = todo]
<1>1. /\ tx[t].pc = "object" /\ tx[t] \in Transaction /\ c.kind \in ObjectKinds /\ tx[t].got = {}
  BY TxFacts DEF LockObject, IInv, ThreadInv, Phase
<1>2. tx' = [tx EXCEPT ![t] = b] /\ UNCHANGED tables
  BY DEF LockObject
<1>3. next \in {"commit", "cascade"} /\ c.kind \notin RelationKinds /\ c.kind \notin Candidates
  BY <1>1 DEF ObjectKinds, RelationKinds, Candidates
<1> HIDE DEF next, todo
<1>4. /\ b.pc = next /\ b.cmd = c /\ b.row = tx[t].row /\ b.del = tx[t].del
      /\ b.ins = tx[t].ins /\ b.got = {}
  BY <1>1 DEF Transaction
<1> HIDE DEF b
<1>5. tx'[t] = b
  BY <1>2 DEF IInv, TypeOK
<1>6. Gone(t)' = {} /\ Gone(t) = {}
  BY <1>1, <1>3, <1>4, <1>5 DEF Gone
<1>7. tx[t].ins = {} /\ ~Moves(t)'
  BY <1>1, <1>3, <1>4, <1>5 DEF HierInv, Tree, Moves
<1>8. QED
  BY <1>1, <1>2, <1>3, <1>4, <1>6, <1>7, TreeKept

LEMMA LockActiveTree ==
  ASSUME IInv, HierInv, NEW t \in Threads, NEW r \in Relations, LockActive(t, r)
  PROVE  HierInv'
<1> DEFINE rest == tx[t].todo \ {r}
           got == IF Active(r) /\ Touches(r, tx[t].cmd.obj) THEN tx[t].got \cup {r} ELSE tx[t].got
           b == [tx[t] EXCEPT !.todo = rest, !.got = got]
<1>1. tx[t].pc = "cascade" /\ tx[t] \in Transaction
  BY TxFacts DEF LockActive, IInv
<1>2. tx' = [tx EXCEPT ![t] = b] /\ UNCHANGED tables
  BY DEF LockActive
<1> HIDE DEF rest, got
<1>3. /\ b.pc = "cascade" /\ b.cmd = tx[t].cmd /\ b.row = tx[t].row /\ b.del = tx[t].del
      /\ b.ins = tx[t].ins
  BY <1>1 DEF Transaction
<1> HIDE DEF b
<1>4. tx'[t] = b
  BY <1>2 DEF IInv, TypeOK
<1>5. Gone(t)' = {} /\ Gone(t) = {}
  BY <1>1, <1>3, <1>4 DEF Gone
<1>6. tx[t].ins = {} /\ ~Moves(t)'
  BY <1>1, <1>3, <1>4 DEF HierInv, Tree, Moves
<1>7. QED
  BY <1>1, <1>2, <1>3, <1>5, <1>6, TreeKept

LEMMA AcceptActiveTree ==
  ASSUME IInv, HierInv, NEW t \in Threads, AcceptActive(t)
  PROVE  HierInv'
<1> DEFINE next == IF tx[t].got = {} THEN "commit" ELSE "clear"
           b == [tx[t] EXCEPT !.pc = next, !.todo = tx[t].got]
<1>1. tx[t].pc = "cascade" /\ tx[t] \in Transaction /\ tx[t].cmd.kind \in Removals
  BY TxFacts DEF AcceptActive, IInv, ThreadInv, Phase
<1>2. tx' = [tx EXCEPT ![t] = b] /\ UNCHANGED tables
  BY DEF AcceptActive
<1>3. /\ next \in {"commit", "clear"} /\ (next = "commit" => tx[t].got = {})
      /\ tx[t].cmd.kind \notin RelationKinds /\ tx[t].cmd.kind \notin Candidates
  BY <1>1 DEF Removals, RelationKinds, Candidates
<1> HIDE DEF next
<1>4. /\ b.pc = next /\ b.cmd = tx[t].cmd /\ b.row = tx[t].row /\ b.del = tx[t].del
      /\ b.ins = tx[t].ins /\ b.got = tx[t].got /\ b.todo = tx[t].got
  BY <1>1 DEF Transaction
<1> HIDE DEF b
<1>5. tx'[t] = b
  BY <1>2 DEF IInv, TypeOK
<1>6. Gone(t)' = {} /\ Gone(t) = {}
  BY <1>1, <1>3, <1>4, <1>5 DEF Gone
<1>7. tx[t].ins = {} /\ ~Moves(t)'
  BY <1>1, <1>3, <1>4, <1>5 DEF HierInv, Tree, Moves
<1>8. QED
  BY <1>1, <1>2, <1>3, <1>4, <1>6, <1>7, TreeKept

(* A cascade cuts the edges of its relations, one after the other.         *)
LEMMA ClearCascadeTree ==
  ASSUME IInv, HierInv, Hierarchical, NEW t \in Threads, NEW r \in Relations, ClearCascade(t, r)
  PROVE  HierInv'
<1> DEFINE rest == tx[t].todo \ {r}
           next == IF rest = {} THEN "commit" ELSE "clear"
           del == tx[t].del \cup Cleared(View(t), rel[r])
           b == [tx[t] EXCEPT !.todo = rest, !.pc = next, !.del = del]
<1>1. /\ tx[t].pc = "clear" /\ tx[t] \in Transaction /\ tx[t].cmd.kind \in Removals
      /\ \A q \in tx[t].got : Active(q)
  BY TxFacts DEF ClearCascade, IInv, ThreadInv, Phase, Cascading
<1>2. tx' = [tx EXCEPT ![t] = b] /\ UNCHANGED tables
  BY DEF ClearCascade
<1>3. /\ Closes(Without(Gone(t)), View(t)) /\ tx[t].ins = {} /\ tx[t].todo \subseteq tx[t].got
  BY <1>1 DEF HierInv, Tree, Moves
<1>4. r \in tx[t].todo
  BY DEF ClearCascade, First
<1>5. /\ next \in {"commit", "clear"} /\ (next = "commit" => rest = {})
      /\ tx[t].cmd.kind \notin RelationKinds /\ tx[t].cmd.kind \notin Candidates
  BY <1>1 DEF Removals, RelationKinds, Candidates
<1> HIDE DEF next, del
<1>6. /\ b.pc = next /\ b.cmd = tx[t].cmd /\ b.del = del
      /\ b.ins = {} /\ b.got = tx[t].got /\ b.todo = rest
  BY <1>1, <1>3 DEF Transaction
<1> HIDE DEF b
<1>7. tx'[t] = b
  BY <1>2 DEF IInv, TypeOK
<1>8. rel' = rel /\ closure' = closure
  BY <1>2 DEF tables
<1>9. Gone(t) = tx[t].got \ tx[t].todo
  BY <1>1 DEF Gone
<1>10. Gone(t)' = Gone(t) \cup {r}
  BY <1>3, <1>4, <1>5, <1>6, <1>7, <1>9 DEF Gone
<1>11. View(t)' = View(t) \ Cleared(View(t), rel[r])
  BY <1>6, <1>7, <1>8 DEF View, del
<1>12. r \notin Gone(t) /\ Active(r)
  BY <1>1, <1>3, <1>4, <1>9
<1>13. Closes(Without(Gone(t) \cup {r}), View(t) \ Cleared(View(t), rel[r]))
  BY <1>3, <1>12, CutKeeps
<1>14. Without(Gone(t))' = Without(Gone(t) \cup {r})
  BY <1>8, <1>10 DEF Without, Active
<1>15. Closes(Without(Gone(t)), View(t))'
  BY <1>11, <1>13, <1>14, TreeNext
<1>16. Tree(t)'
  BY <1>3, <1>5, <1>6, <1>7, <1>10, <1>15 DEF Tree, Moves
<1>17. QED
  BY <1>2, <1>16, TreeStep

-----------------------------------------------------------------------------
(***************************************************************************)
(* A commit publishes what its transaction saw: if it changes the          *)
(* hierarchy, no other has read the closure table.                         *)
(***************************************************************************)
LEMMA CommitTree ==
  ASSUME IInv, HierInv, OneReader, NEW t \in Threads, tx[t].pc = "commit",
         Finish(t), WriteClosure(t), NEW E, NEW C, Closes(E, C),
         Edges' = E, View(t) \cup tx[t].ins = C,
         HasRead(t) \/ \A q \in Relations : rel'[q] = rel[q]
  PROVE  HierInv'
<1> DEFINE b == Begin(Absent, "idle", {})
<1>1. tx' = [tx EXCEPT ![t] = b] /\ b.pc = "idle"
  BY DEF Finish, Begin
<1> HIDE DEF b
<1>2. tx'[t].pc = "idle" /\ \A u \in Threads \ {t} : tx'[u] = tx[u]
  BY <1>1 DEF IInv, TypeOK
<1>3. closure' = C
  BY DEF WriteClosure, View
<1>4. Closes(Edges, closure)'
  BY <1>3 DEF Closes, Transitive
<1>5. ASSUME NEW u \in Threads, u # t
      PROVE  Tree(u)'
  <2>1. tx'[u] = tx[u] /\ Tree(u)
    BY <1>2, <1>5 DEF HierInv
  <2>2. CASE HasRead(t)
    <3>1. ~HasRead(u)
      BY <1>5, <2>2 DEF OneReader
    <3>2. Gone(u) = {} /\ ~(tx[u].pc \in {"write", "commit"} /\ tx[u].cmd.kind \in Candidates)
      BY <3>1 DEF HasRead
    <3>3. Gone(u)' = {} /\ ~Moves(u) /\ ~Moves(u)'
      BY <2>1, <3>2 DEF Gone, EndpointsChanged, Source, Target, Moves
    <3>4. CASE tx[u].pc = "idle"
      BY <2>1, <3>4 DEF Tree
    <3>5. CASE tx[u].pc # "idle"
      <4>1. tx[u].del = {} /\ tx[u].ins = {}
        BY <2>1, <3>2, <3>3, <3>5 DEF Tree
      <4>2. View(u)' = C
        BY <1>3, <2>1, <4>1 DEF View
      <4>3. Without(Gone(u))' = E
        BY <3>3 DEF Without, Edges, Active
      <4>4. Closes(Without(Gone(u)), View(u))'
        BY <4>2, <4>3, TreeNext
      <4>5. QED
        BY <2>1, <3>2, <3>3, <3>5, <4>1, <4>4 DEF Tree
    <3>6. QED
      BY <3>4, <3>5
  <2>3. CASE ~HasRead(t)
    <3>1. Gone(t) = {} /\ ~Moves(t)
      BY <2>3 DEF HasRead, Moves
    <3>2. tx[t].del = {} /\ tx[t].ins = {}
      BY <3>1 DEF HierInv, Tree
    <3>3. closure' = closure
      BY <1>3, <3>2 DEF View
    <3>4. QED
      BY <2>1, <2>3, <3>3, TreeSame
  <2>4. QED
    BY <2>2, <2>3
<1>6. QED
  BY <1>2, <1>4, <1>5 DEF HierInv, Tree

(* A commit that ends relations leaves the edges of the others.            *)
LEMMA EndsTree ==
  ASSUME IInv, HierInv, OneReader, NEW t \in Threads, tx[t].pc = "commit",
         Finish(t), WriteClosure(t), Ends(t, Gone(t)), tx[t].cmd.kind \notin Candidates
  PROVE  HierInv'
<1>1. /\ \A q \in Relations : rel'[q].status = "ACTIVE" <=> Active(q) /\ q \notin Gone(t)
      /\ \A q \in Relations : rel'[q].status = "ACTIVE" => rel'[q] = rel[q]
  BY EndsFacts
<1>2. Edges' = Without(Gone(t))
  <2>1. \A e : e \in Edges' <=>
          \E q \in Relations : rel'[q].status = "ACTIVE" /\ e = << rel'[q].src, rel'[q].tgt >>
    BY DEF Edges, Active
  <2>2. \A e : e \in Without(Gone(t)) <=>
          \E q \in Relations : Active(q) /\ q \notin Gone(t) /\ e = << rel[q].src, rel[q].tgt >>
    BY DEF Without
  <2>3. \A e : e \in Edges' <=> e \in Without(Gone(t))
    BY <1>1, <2>1, <2>2
  <2>4. QED
    BY <2>3
<1>3. Closes(Without(Gone(t)), View(t)) /\ tx[t].ins = {}
  BY DEF HierInv, Tree, Moves
<1>4. View(t) \cup tx[t].ins = View(t)
  BY <1>3
<1>5. HasRead(t) \/ \A q \in Relations : rel'[q] = rel[q]
  BY DEF HasRead, Ends
<1>6. QED
  BY <1>2, <1>3, <1>4, <1>5, CommitTree

LEMMA CommitRelationTree ==
  ASSUME IInv, HierInv, OneReader, NEW t \in Threads, CommitRelation(t)
  PROVE  HierInv'
<1>1. /\ tx[t].pc = "commit" /\ tx[t].cmd.kind \in RelationKinds \ {"UpdateRelation"}
      /\ WriteClosure(t) /\ Finish(t)
  BY DEF CommitRelation
<1>2. Gone(t) = {tx[t].cmd.rel} /\ tx[t].cmd.kind \notin Candidates
  BY <1>1 DEF Gone, Candidates, RelationKinds
<1>3. Ends(t, Gone(t))
  BY <1>2, CommitRelationEnds
<1>4. QED
  BY <1>1, <1>2, <1>3, EndsTree

LEMMA CommitObjectTree ==
  ASSUME IInv, HierInv, OneReader, NEW t \in Threads, CommitObject(t)
  PROVE  HierInv'
<1>1. /\ tx[t].pc = "commit" /\ tx[t].cmd.kind \in ObjectKinds
      /\ WriteClosure(t) /\ Finish(t)
  BY DEF CommitObject
<1>2. Gone(t) = tx[t].got /\ tx[t].cmd.kind \notin Candidates
  BY <1>1 DEF Gone, Candidates, RelationKinds, ObjectKinds
<1>3. Ends(t, Gone(t))
  BY <1>2, CommitObjectEnds
<1>4. QED
  BY <1>1, <1>2, <1>3, EndsTree

(* A candidate grafts its edge, unless it is where it was.                 *)
LEMMA PlacesTree ==
  ASSUME IInv, HierInv, OneReader, NEW t \in Threads, tx[t].pc = "commit",
         tx[t].cmd.kind \in Candidates, Finish(t), WriteClosure(t),
         NEW r \in Relations, Places(t, r),
         IF EndpointsChanged(t) THEN \A q \in Relations : Active(q) /\ q \notin Gone(t) <=> Active(q) /\ q # r
         ELSE Gone(t) = {} /\ Active(r) /\ rel[r].src = Source(t) /\ rel[r].tgt = Target(t)
  PROVE  HierInv'
<1> DEFINE s == Source(t)
           d == Target(t)
<1>1. s \in Objects /\ d \in Objects /\ s # d
  BY CandidateFacts
<1>2. /\ rel'[r].status = "ACTIVE" /\ rel'[r].src = s /\ rel'[r].tgt = d
      /\ \A q \in Relations \ {r} : rel'[q] = rel[q]
  BY DEF Places
<1>3. /\ Closes(Without(Gone(t)), View(t)) /\ << d, s >> \notin View(t)
      /\ tx[t].ins = IF EndpointsChanged(t) THEN Spanned(View(t), s, d) ELSE {}
  BY DEF HierInv, Tree, Moves
<1>4. \A e : e \in Edges' <=>
        \E q \in Relations : rel'[q].status = "ACTIVE" /\ e = << rel'[q].src, rel'[q].tgt >>
  BY DEF Edges, Active
<1>5. \A e : e \in Without(Gone(t)) <=>
        \E q \in Relations : Active(q) /\ q \notin Gone(t) /\ e = << rel[q].src, rel[q].tgt >>
  BY DEF Without
<1>0. HasRead(t)
  BY DEF HasRead
<1> HIDE DEF s, d
<1>6. CASE EndpointsChanged(t)
  <2>1. \A e : e \in Edges' <=> e = << s, d >> \/ e \in Without(Gone(t))
    <3>1. ASSUME NEW e, e \in Edges', e # << s, d >>
          PROVE  e \in Without(Gone(t))
      <4>1. PICK q \in Relations : rel'[q].status = "ACTIVE" /\ e = << rel'[q].src, rel'[q].tgt >>
        BY <1>4, <3>1
      <4>2. q # r
        BY <1>2, <3>1, <4>1
      <4>3. Active(q) /\ q \notin Gone(t) /\ e = << rel[q].src, rel[q].tgt >>
        BY <1>2, <1>6, <4>1, <4>2 DEF Active
      <4>4. QED
        BY <1>5, <4>3
    <3>2. ASSUME NEW e, e \in Without(Gone(t))
          PROVE  e \in Edges'
      <4>1. PICK q \in Relations : Active(q) /\ q \notin Gone(t) /\ e = << rel[q].src, rel[q].tgt >>
        BY <1>5, <3>2
      <4>2. q # r
        BY <1>6, <4>1
      <4>3. QED
        BY <1>2, <1>4, <4>1, <4>2 DEF Active
    <3>3. << s, d >> \in Edges'
      BY <1>2, <1>4
    <3>4. QED
      BY <3>1, <3>2, <3>3
  <2>2. Edges' = Without(Gone(t)) \cup {<< s, d >>}
    BY <2>1
  <2>3. Closes(Without(Gone(t)) \cup {<< s, d >>}, View(t) \cup Spanned(View(t), s, d))
    BY <1>1, <1>3, ClosesGraft
  <2>4. QED
    BY <1>0, <1>3, <1>6, <2>2, <2>3, CommitTree
<1>7. CASE ~EndpointsChanged(t)
  <2>1. \A q \in Relations : /\ rel'[q].status = "ACTIVE" <=> Active(q)
                             /\ Active(q) => rel'[q].src = rel[q].src /\ rel'[q].tgt = rel[q].tgt
    BY <1>2, <1>7 DEF Active, s, d
  <2>2. \A e : e \in Edges' <=> e \in Without(Gone(t))
    BY <1>4, <1>5, <1>7, <2>1
  <2>3. Edges' = Without(Gone(t))
    BY <2>2
  <2>4. View(t) \cup tx[t].ins = View(t)
    BY <1>3, <1>7
  <2>5. QED
    BY <1>0, <1>3, <2>3, <2>4, CommitTree
<1>8. QED
  BY <1>6, <1>7

LEMMA CommitCreateTree ==
  ASSUME IInv, HierInv, OneReader, NEW t \in Threads, CommitCreate(t)
  PROVE  HierInv'
<1>1. /\ tx[t].pc = "commit" /\ tx[t].cmd.kind = "CreateRelation" /\ tx[t].cmd.kind \in Candidates
      /\ WriteClosure(t) /\ Finish(t)
  BY CommitCreatePlaces DEF CommitCreate
<1>2. PICK r \in Relations : rel[r] = NoRelation /\ Places(t, r)
  BY CommitCreatePlaces
<1>3. ~Active(r)
  BY <1>2, RowFacts DEF IInv
<1>4. Gone(t) = {}
  BY <1>1 DEF IInv, ThreadInv, Phase, Gone, RelationKinds, Removals
<1>5. EndpointsChanged(t)
  <2>1. tx[t].row = NoRelation
    BY <1>1 DEF IInv, ThreadInv, RowRead, RelationKinds
  <2>2. tx[t].row.src = Absent
    BY <2>1 DEF NoRelation
  <2>3. Source(t) \in Objects
    BY <1>1, CandidateFacts
  <2>4. QED
    BY <2>2, <2>3, AbsentApart DEF EndpointsChanged
<1>6. \A q \in Relations : Active(q) /\ q \notin Gone(t) <=> Active(q) /\ q # r
  BY <1>3, <1>4
<1>7. QED
  BY <1>1, <1>2, <1>5, <1>6, PlacesTree

LEMMA CommitUpdateTree ==
  ASSUME IInv, HierInv, OneReader, NEW t \in Threads, CommitUpdate(t)
  PROVE  HierInv'
<1> DEFINE r == tx[t].cmd.rel
<1>1. /\ tx[t].pc = "commit" /\ tx[t].cmd.kind = "UpdateRelation" /\ tx[t].cmd.kind \in Candidates
      /\ tx[t].cmd.kind \in RelationKinds /\ WriteClosure(t) /\ Finish(t)
  BY CommitUpdatePlaces DEF CommitUpdate, RelationKinds
<1>2. r \in Relations /\ Active(r) /\ Places(t, r)
  BY CommitUpdatePlaces
<1>3. rel[r] = tx[t].row
  BY <1>1 DEF IInv, ThreadInv, RowRead
<1>4. Gone(t) = IF EndpointsChanged(t) THEN {r} ELSE {}
  BY <1>1 DEF Gone
<1>5. ~EndpointsChanged(t) => rel[r].src = Source(t) /\ rel[r].tgt = Target(t)
  BY <1>3 DEF EndpointsChanged
<1> HIDE DEF r
<1>6. EndpointsChanged(t) =>
        \A q \in Relations : Active(q) /\ q \notin Gone(t) <=> Active(q) /\ q # r
  BY <1>4
<1>7. QED
  BY <1>1, <1>2, <1>4, <1>5, <1>6, PlacesTree

LEMMA InitTree == Init => HierInv
<1> SUFFICES ASSUME Init PROVE HierInv
  OBVIOUS
<1>1. /\ \A t \in Threads : tx[t].pc = "idle"
      /\ closure = {} /\ \A r \in Relations : rel[r] = NoRelation
  BY DEF Init, Begin
<1>2. \A r \in Relations : ~Active(r)
  BY <1>1, InitHolds, RowFacts DEF IInv
<1>3. Edges = {}
  BY <1>2 DEF Edges
<1>4. Closes({}, {})
  BY DEF Closes, Transitive
<1>5. QED
  BY <1>1, <1>3, <1>4 DEF HierInv, Tree

LEMMA NextTree ==
  Hierarchical /\ IInv /\ OneReader /\ EndsActive' /\ HierInv /\ [Next]_vars => HierInv'
<1> SUFFICES ASSUME Hierarchical, IInv, OneReader, EndsActive', HierInv, [Next]_vars
             PROVE  HierInv'
  OBVIOUS
<1>1. CASE UNCHANGED vars
  <2>1. closure' = closure /\ rel' = rel /\ tx' = tx
    BY <1>1 DEF vars, tables
  <2>2. \A t \in Threads : Tree(t)'
    BY <2>1, TreeSame DEF HierInv
  <2>3. Edges' = Edges
    BY <2>1 DEF Edges, Active
  <2>4. Closes(Edges, closure)'
    BY <2>1, <2>3 DEF HierInv, Closes, Transitive
  <2>5. QED
    BY <2>2, <2>4 DEF HierInv
<1>2. ASSUME NEW t \in Threads, Quit(t) PROVE HierInv'
  BY <1>2, QuitTree
<1>3. ASSUME NEW t \in Threads, Run(t) PROVE HierInv'
  <2>1. CASE LockRelationAndQuit(t) \/ Invalidate(t) \/ LockObjectAndQuit(t) \/ RejectActive(t)
             \/ DeadlockVictim(t)
    BY <1>2, <2>1 DEF LockRelationAndQuit, Invalidate, LockObjectAndQuit, RejectActive,
                      DeadlockVictim
  <2>2. CASE LockRelation(t)
    BY <2>2, LockRelationTree
  <2>3. CASE LockForUpdate(t)
    BY <2>3, LockForUpdateTree
  <2>4. CASE \E o \in Objects : LockEndpoint(t, o)
    BY <2>4, LockEndpointTree
  <2>5. CASE Validate(t)
    BY <2>5, ValidateTree
  <2>6. CASE InsertClosure(t)
    BY <2>6, InsertClosureTree
  <2>7. CASE LockObject(t)
    BY <2>7, LockObjectTree
  <2>8. CASE \E r \in Relations : LockActive(t, r)
    BY <2>8, LockActiveTree
  <2>9. CASE AcceptActive(t)
    BY <2>9, AcceptActiveTree
  <2>10. CASE \E r \in Relations : ClearCascade(t, r)
    BY <2>10, ClearCascadeTree
  <2>11. CASE CommitCreate(t)
    BY <2>11, CommitCreateTree
  <2>12. CASE CommitUpdate(t)
    BY <2>12, CommitUpdateTree
  <2>13. CASE CommitRelation(t)
    BY <2>13, CommitRelationTree
  <2>14. CASE CommitObject(t)
    BY <2>14, CommitObjectTree
  <2> QED
    BY <1>3, <2>1, <2>2, <2>3, <2>4, <2>5, <2>6, <2>7, <2>8, <2>9, <2>10, <2>11, <2>12, <2>13,
       <2>14 DEF Run
<1>4. ASSUME NEW t \in Threads, NEW c \in Commands, Start(t, c) PROVE HierInv'
  BY <1>4, StartTree
<1>5. ASSUME NEW t \in Threads, Abort(t) PROVE HierInv'
  BY <1>2, <1>5 DEF Abort
<1> QED
  BY <1>1, <1>3, <1>4, <1>5 DEF Next

(***************************************************************************)
(* HierarchyKept: insertClosure and deleteClosure keep the closure table   *)
(* the paths through the active relations, and validateCycle keeps them    *)
(* free of cycles, as long as no two transactions that have read the table *)
(* overlap (OneReader) and no relation that has ended is ended once more   *)
(* (EndsActive).  The code forbids neither: RelationCycle shows what       *)
(* becomes of the table without the first.                                 *)
(***************************************************************************)
THEOREM HierarchyHeld == Spec /\ [](OneReader /\ EndsActive) => []HierarchyKept
<1> DEFINE Inv == Hierarchical => HierInv
<1>1. Init => Inv
  BY InitTree
<1>2. IInv /\ OneReader /\ EndsActive' /\ Inv /\ [Next]_vars => Inv'
  BY NextTree
<1>3. Inv => HierarchyKept
  BY ClosesIsPaths DEF HierInv, HierarchyKept, ClosureIsPaths, NoCycle
<1>4. QED
  BY <1>1, <1>2, <1>3, RelationInvariance, PTL DEF Spec

=============================================================================
