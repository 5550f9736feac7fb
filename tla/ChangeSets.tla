----------------------------- MODULE ChangeSets -----------------------------
(***************************************************************************)
(* AI change sets (AiChangeRepository.java, AiCommandController.java): a   *)
(* proposal of changes to objects that a reviewer confirms, whole or item  *)
(* by item, or rejects.  Each command is a READ COMMITTED transaction; the *)
(* kernel command of a confirmed item runs inside it, so its row lock is   *)
(* kept and its write is published with the transaction.  What is written  *)
(* is seen by nobody before the commit: the writes of a transaction are    *)
(* kept in its record and take effect in the step that commits.  Reads     *)
(* that another transaction can get in front of are steps of their own.    *)
(***************************************************************************)
EXTENDS Naturals, Sequences, FiniteSets, FiniteSetsExt

CONSTANTS
  Sets,         \* change sets
  Objects,      \* objects of the workspace
  NewObject,    \* the target of an item that creates an object
  Targets,      \* change set -> what its items change, in the order of seq
  Requests,     \* the commands clients send
  Threads,      \* request threads of all server instances
  MaxOthers,    \* bound: writes of other users
  None

Items(s) == DOMAIN Targets[s]
AllItems == UNION {{s} \X Items(s) : s \in Sets}
Things   == Objects \cup {NewObject}
Keys     == {r.key : r \in Requests}

ReqKinds == {"ProposeAiChange", "RejectAiChange", "ConfirmAiChange"}

(* An id of another set in itemIds is an item the set does not have.       *)
ASSUME ChangeSetsAssumption ==
  /\ NewObject \notin Objects
  /\ None \notin Requests
  /\ MaxOthers \in Nat
  /\ \A s \in Sets : Targets[s] \in Seq(Things)
  /\ \A r \in Requests : /\ DOMAIN r = {"kind", "set", "items", "key"}
                         /\ r.kind \in ReqKinds /\ r.set \in Sets /\ r.items \subseteq Nat
  /\ \A q, r \in Requests : /\ q.kind = "ProposeAiChange" /\ r.kind = "ProposeAiChange"
                              /\ q.set = r.set
                              => q.key = r.key     \* the id of a set is new

VARIABLES
  setStatus,    \* ai_change_set.status, "none" before it is proposed
  itemStatus,   \* ai_change_item.item_status
  rmSet,        \* rm_ai_change_set.status
  rmItem,       \* rm_ai_change_item.item_status
  version,      \* data_object.version
  blocked,      \* things for which a BLOCK rule matches
  log,          \* command_log: key -> [req, result], or None
  latest,       \* the result of the latest ConfirmAiChange row of a set
  written,      \* how often the change of an item has been committed
  others,       \* writes of other users so far
  tx,           \* the transaction of each thread
  held          \* the locks it holds

changes == << setStatus, itemStatus, rmSet, rmItem >>
kernel  == << version, blocked, others >>
vars    == << changes, kernel, log, latest, written, tx, held >>

SetStatus  == {"none", "PROPOSED", "CONFIRMED", "REJECTED"}
ItemStatus == {"none", "PROPOSED", "REJECTED", "APPLIED", "SKIPPED"}

Replies == {"none", "accepted", "refused", "failed"}
Pcs     == {"idle", "status", "provider", "takeSet", "takeItems", "rejectItems",
            "items", "version", "write", "commit"}

(* What a command answers: the items applied and those skipped.            *)
Result  == [applied : SUBSET Nat, skipped : SUBSET Nat]
Nothing == [applied |-> {}, skipped |-> {}]

(***************************************************************************)
(* A transaction: the items still to do, what it has done to the items,    *)
(* the versions it wrote, and the version it will expect.                  *)
(***************************************************************************)
Begin(r, pc, reply, result) ==
  [req |-> r, pc |-> pc, todo |-> {}, done |-> Nothing, wrote |-> {}, expected |-> 0,
   reply |-> reply, result |-> result]

Idle == Begin(None, "idle", "none", Nothing)

Init ==
  /\ setStatus = [s \in Sets |-> "none"]
  /\ itemStatus = [i \in AllItems |-> "none"]
  /\ rmSet = setStatus
  /\ rmItem = itemStatus
  /\ version = [o \in Objects |-> 1]
  /\ blocked = {}
  /\ log = [k \in Keys |-> None]
  /\ latest = [s \in Sets |-> Nothing]
  /\ written = [i \in AllItems |-> 0]
  /\ others = 0
  /\ tx = [t \in Threads |-> Idle]
  /\ held = [t \in Threads |-> {}]

-----------------------------------------------------------------------------
(* Locks.                                                                  *)

SetLock(s)    == << "set", s >>
ItemsLock(s)  == << "items", s >>      \* the rows of the items, as one
ObjectLock(o) == << "object", o >>

Locks == {SetLock(s) : s \in Sets} \cup {ItemsLock(s) : s \in Sets}
         \cup {ObjectLock(o) : o \in Objects}

Free(t, l) == \A u \in Threads \ {t} : l \notin held[u]

Take(t, l) == Free(t, l) /\ held' = [held EXCEPT ![t] = @ \cup {l}]

(* Mutant of Finish: the locks stay with the connection.                   *)
FinishHolding(t, reply, result) ==
  /\ tx' = [tx EXCEPT ![t] =
              Begin(IF reply = "accepted" THEN @.req ELSE None, "idle", reply, result)]
  /\ UNCHANGED held

(* The transaction ends; a thread remembers what it has accepted.          *)
Finish(t, reply, result) ==
  /\ tx' = [tx EXCEPT ![t] =
              Begin(IF reply = "accepted" THEN @.req ELSE None, "idle", reply, result)]
  /\ held' = [held EXCEPT ![t] = {}]

Refuse(t) ==
  /\ Finish(t, "refused", Nothing)
  /\ UNCHANGED << changes, kernel, log, latest, written >>

Stay == UNCHANGED << changes, kernel, log, latest, written >>

Goto(t, pc) == tx' = [tx EXCEPT ![t].pc = pc]

-----------------------------------------------------------------------------
(* The controller looks the key up before the transaction begins.          *)

Start(t, r) ==
  /\ tx[t].pc = "idle"
  /\ log[r.key] = None
  /\ tx' = [tx EXCEPT ![t] =
              Begin(r, IF r.kind = "ProposeAiChange" THEN "provider" ELSE "status", "none", Nothing)]
  /\ UNCHANGED held /\ Stay

Replay(t, r) ==
  /\ tx[t].pc = "idle"
  /\ log[r.key] # None
  /\ tx' = [tx EXCEPT ![t] =
              IF log[r.key].req = r THEN Begin(r, "idle", "accepted", log[r.key].result)
              ELSE Begin(None, "idle", "refused", Nothing)]
  /\ UNCHANGED held /\ Stay

(* remember: the primary key of command_log takes a key once.              *)
Remember(t, result) ==
  /\ log[tx[t].req.key] = None
  /\ log' = [log EXCEPT ![tx[t].req.key] = [req |-> tx[t].req, result |-> result]]

(***************************************************************************)
(* The provider has answered: the set and its items are inserted under a   *)
(* new id, and projected.                                                  *)
(***************************************************************************)
Propose(t, s) ==
  LET initial == [i \in AllItems |-> IF i[1] = s THEN "PROPOSED" ELSE itemStatus[i]] IN
  /\ tx[t].pc = "provider" /\ tx[t].req.set = s
  /\ setStatus[s] = "none"
  /\ Remember(t, Nothing)
  /\ setStatus' = [setStatus EXCEPT ![s] = "PROPOSED"]
  /\ itemStatus' = initial
  /\ rmSet' = [rmSet EXCEPT ![s] = "PROPOSED"]
  /\ rmItem' = [i \in AllItems |-> IF i[1] = s THEN "PROPOSED" ELSE rmItem[i]]
  /\ Finish(t, "accepted", Nothing)
  /\ UNCHANGED << kernel, latest, written >>

-----------------------------------------------------------------------------
(* status reads the row without a lock.                                    *)

ReadStatus(t) ==
  LET r == tx[t].req IN
  /\ tx[t].pc = "status"
  /\ \/ /\ setStatus[r.set] = "PROPOSED"
        /\ r.kind = "ConfirmAiChange" => r.items # {}
        /\ Goto(t, IF r.kind = "RejectAiChange" THEN "takeSet" ELSE "takeItems")
        /\ UNCHANGED held /\ Stay
     \/ /\ setStatus[r.set] = "CONFIRMED" /\ r.kind = "ConfirmAiChange"
        /\ Finish(t, "accepted", latest[r.set])
        /\ Stay
     \/ /\ \/ setStatus[r.set] = "PROPOSED" /\ r.kind = "ConfirmAiChange" /\ r.items = {}
           \/ setStatus[r.set] = "CONFIRMED" /\ r.kind = "RejectAiChange"
           \/ setStatus[r.set] \in {"none", "REJECTED"}
        /\ Refuse(t)

(* reject: the set's row, then the rows of its items.                      *)
RejectSet(t) ==
  /\ tx[t].pc = "takeSet"
  /\ Take(t, SetLock(tx[t].req.set))
  /\ Goto(t, "rejectItems") /\ Stay

RejectItems(t) ==
  /\ tx[t].pc = "rejectItems"
  /\ Take(t, ItemsLock(tx[t].req.set))
  /\ Goto(t, "commit") /\ Stay

CommitReject(t) ==
  LET s == tx[t].req.set IN
  /\ tx[t].pc = "commit" /\ tx[t].req.kind = "RejectAiChange"
  /\ Remember(t, Nothing)
  /\ setStatus' = [setStatus EXCEPT ![s] = "REJECTED"]
  /\ itemStatus' = [i \in AllItems |-> IF i[1] = s THEN "REJECTED" ELSE itemStatus[i]]
  /\ rmSet' = [rmSet EXCEPT ![s] = setStatus'[s]]
  /\ rmItem' = [i \in AllItems |-> IF i[1] = s THEN itemStatus'[i] ELSE rmItem[i]]
  /\ Finish(t, "accepted", Nothing)
  /\ UNCHANGED << kernel, latest, written >>

-----------------------------------------------------------------------------
(* confirm.                                                                *)

(* Mutant of TakeItems: the items are read without FOR UPDATE.             *)
ReadItems(t) ==
  LET r == tx[t].req IN
  /\ tx[t].pc = "takeItems"
  /\ r.items \subseteq Items(r.set)
  /\ tx' = [tx EXCEPT ![t].pc = "items",
                      ![t].todo = {q \in r.items : itemStatus[<< r.set, q >>] = "PROPOSED"}]
  /\ UNCHANGED held /\ Stay

(* changeItems locks all items of the set and reads them again.            *)
TakeItems(t) ==
  LET r == tx[t].req IN
  /\ tx[t].pc = "takeItems"
  /\ r.items \subseteq Items(r.set)
  /\ Take(t, ItemsLock(r.set))
  /\ tx' = [tx EXCEPT ![t].pc = "items",
                      ![t].todo = {q \in r.items : itemStatus[<< r.set, q >>] = "PROPOSED"}]
  /\ Stay

ForeignItem(t) ==
  /\ tx[t].pc = "takeItems"
  /\ ~(tx[t].req.items \subseteq Items(tx[t].req.set))
  /\ Free(t, ItemsLock(tx[t].req.set))
  /\ Refuse(t)

Current(t) == Min(tx[t].todo)
Target(t)  == Targets[tx[t].req.set][Current(t)]

(* The version of an object as the transaction sees it.                    *)
Seen(t, o) == version[o] + Cardinality({q \in tx[t].wrote : Targets[tx[t].req.set][q] = o})

(* precheck: a BLOCK rule matches, the item is skipped.                    *)
Precheck(t) ==
  /\ tx[t].pc = "items" /\ tx[t].todo # {}
  /\ tx' = IF Target(t) \in blocked
           THEN [tx EXCEPT ![t].done.skipped = @ \cup {Current(t)},
                           ![t].todo = @ \ {Current(t)}]
           ELSE [tx EXCEPT ![t].pc = IF Target(t) = NewObject THEN "write" ELSE "version"]
  /\ UNCHANGED held /\ Stay

(* updateCommand: the version to expect is read without a lock.            *)
ReadVersion(t) ==
  /\ tx[t].pc = "version"
  /\ tx' = [tx EXCEPT ![t].pc = "write", ![t].expected = Seen(t, Target(t))]
  /\ UNCHANGED held /\ Stay

(* The kernel locks the object, checks version and rules, and writes.      *)
KernelAccepts(t) ==
  /\ Target(t) \notin blocked
  /\ Target(t) \in Objects => tx[t].expected = Seen(t, Target(t))

KernelWaits(t) == Target(t) \in Objects /\ ~Free(t, ObjectLock(Target(t)))

Apply(t) ==
  /\ tx[t].pc = "write"
  /\ ~KernelWaits(t) /\ KernelAccepts(t)
  /\ held' = [held EXCEPT ![t] = @ \cup ({ObjectLock(Target(t))} \cap Locks)]
  /\ tx' = [tx EXCEPT ![t].pc = "items", ![t].todo = @ \ {Current(t)},
                      ![t].done.applied = @ \cup {Current(t)},
                      ![t].wrote = @ \cup {Current(t)}]
  /\ Stay

(* Mutant of KernelRefuses: the item counts as applied all the same.       *)
RefusalIgnored(t) ==
  /\ tx[t].pc = "write"
  /\ ~KernelWaits(t) /\ ~KernelAccepts(t)
  /\ tx' = [tx EXCEPT ![t].pc = "items", ![t].todo = @ \ {Current(t)},
                      ![t].done.applied = @ \cup {Current(t)}]
  /\ UNCHANGED held /\ Stay

(* CommandRejectedException rolls the whole confirmation back.             *)
KernelRefuses(t) ==
  /\ tx[t].pc = "write"
  /\ ~KernelWaits(t) /\ ~KernelAccepts(t)
  /\ Refuse(t)

TakeSet(t) ==
  /\ tx[t].pc = "items" /\ tx[t].todo = {}
  /\ Take(t, SetLock(tx[t].req.set))
  /\ Goto(t, "commit") /\ Stay

(* Mutant of Marked: the verdict of the precheck is stored.                *)
MarkedVerdict(t) ==
  LET s == tx[t].req.set IN
  [i \in AllItems |->
     IF i[1] = s /\ i[2] \in tx[t].done.applied THEN "APPLIED"
     ELSE IF i[1] = s /\ i[2] \in tx[t].done.skipped THEN "BLOCKED"
     ELSE itemStatus[i]]

(* markItem, as the transaction sees it.                                   *)
Marked(t) ==
  LET s == tx[t].req.set IN
  [i \in AllItems |->
     IF i[1] = s /\ i[2] \in tx[t].done.applied THEN "APPLIED"
     ELSE IF i[1] = s /\ i[2] \in tx[t].done.skipped THEN "SKIPPED"
     ELSE itemStatus[i]]

(* The set is confirmed when no item is left to decide.                    *)
Settled(t) == \A q \in Items(tx[t].req.set) : Marked(t)[<< tx[t].req.set, q >>] # "PROPOSED"

(* Mutant of CommitConfirm: one confirmed item confirms the set.           *)
CommitConfirmAny(t) ==
  LET s == tx[t].req.set IN
  /\ tx[t].pc = "commit" /\ tx[t].req.kind = "ConfirmAiChange"
  /\ Remember(t, tx[t].done)
  /\ setStatus' = [setStatus EXCEPT ![s] = "CONFIRMED"]
  /\ itemStatus' = Marked(t)
  /\ rmSet' = [rmSet EXCEPT ![s] = setStatus'[s]]
  /\ rmItem' = [i \in AllItems |-> IF i[1] = s THEN itemStatus'[i] ELSE rmItem[i]]
  /\ version' = [o \in Objects |-> Seen(t, o)]
  /\ latest' = [latest EXCEPT ![s] = tx[t].done]
  /\ written' = [i \in AllItems |->
                   IF i[1] = s /\ i[2] \in tx[t].wrote THEN written[i] + 1 ELSE written[i]]
  /\ Finish(t, "accepted", tx[t].done)
  /\ UNCHANGED << blocked, others >>

CommitConfirm(t) ==
  LET s == tx[t].req.set IN
  /\ tx[t].pc = "commit" /\ tx[t].req.kind = "ConfirmAiChange"
  /\ Remember(t, tx[t].done)
  /\ setStatus' = IF Settled(t) THEN [setStatus EXCEPT ![s] = "CONFIRMED"] ELSE setStatus
  /\ itemStatus' = Marked(t)
  /\ rmSet' = [rmSet EXCEPT ![s] = setStatus'[s]]
  /\ rmItem' = [i \in AllItems |-> IF i[1] = s THEN itemStatus'[i] ELSE rmItem[i]]
  /\ version' = [o \in Objects |-> Seen(t, o)]
  /\ latest' = [latest EXCEPT ![s] = tx[t].done]
  /\ written' = [i \in AllItems |->
                   IF i[1] = s /\ i[2] \in tx[t].wrote THEN written[i] + 1 ELSE written[i]]
  /\ Finish(t, "accepted", tx[t].done)
  /\ UNCHANGED << blocked, others >>

-----------------------------------------------------------------------------
(* What rolls a transaction back.                                          *)

Fail(t) == Finish(t, "failed", Nothing) /\ Stay

(* The key was taken by another delivery meanwhile.                        *)
DuplicateKey(t) ==
  /\ tx[t].pc \in {"commit", "provider"}
  /\ log[tx[t].req.key] # None
  /\ Fail(t)

(* The lock a transaction waits for.                                       *)
Wants(t) ==
  LET s == tx[t].req.set IN
  CASE tx[t].pc = "takeSet"                       -> {SetLock(s)}
    [] tx[t].pc = "rejectItems"                   -> {ItemsLock(s)}
    [] tx[t].pc = "takeItems"                     -> {ItemsLock(s)}
    [] tx[t].pc = "items" /\ tx[t].todo = {}      -> {SetLock(s)}
    [] tx[t].pc = "write" /\ Target(t) \in Objects -> {ObjectLock(Target(t))}
    [] OTHER                                      -> {}

Deadlocked(D) == \A t \in D : \E l \in Wants(t) : \E u \in D \ {t} : l \in held[u]

DeadlockVictim(t) ==
  /\ \E D \in SUBSET Threads : t \in D /\ Deadlocked(D)
  /\ Fail(t)

(* Another refusal of the kernel, no provider, a lost connection, a crash. *)
Abort(t) == tx[t].pc # "idle" /\ Fail(t)

(* Another user changes an object, and with it what the rules find.        *)
OtherWrite(o) ==
  /\ others < MaxOthers
  /\ \A t \in Threads : ObjectLock(o) \notin held[t]
  /\ others' = others + 1
  /\ \E b \in {blocked \cup {o}, blocked \ {o}} : blocked' = b
  /\ version' = IF o \in Objects THEN [version EXCEPT ![o] = @ + 1] ELSE version
  /\ UNCHANGED << changes, log, latest, written, tx, held >>

-----------------------------------------------------------------------------
Run(t) ==
  \/ \E s \in Sets : Propose(t, s)
  \/ ReadStatus(t)
  \/ RejectSet(t) \/ RejectItems(t) \/ CommitReject(t)
  \/ TakeItems(t) \/ ForeignItem(t) \/ Precheck(t) \/ ReadVersion(t)
  \/ Apply(t) \/ KernelRefuses(t) \/ TakeSet(t) \/ CommitConfirm(t)
  \/ DuplicateKey(t) \/ DeadlockVictim(t)

Next ==
  \/ \E t \in Threads : \/ \E r \in Requests : Start(t, r) \/ Replay(t, r)
                        \/ Run(t)
                        \/ Abort(t)
  \/ \E o \in Things : OtherWrite(o)

Spec == Init /\ [][Next]_vars

(***************************************************************************)
(* A request thread goes on; PostgreSQL grants a row to those who wait for *)
(* it in their order, and finds deadlocks.                                 *)
(***************************************************************************)
FairSpec == Spec /\ \A t \in Threads : SF_vars(Run(t))

-----------------------------------------------------------------------------
(* Properties.                                                             *)

Transaction ==
  [req : Requests \cup {None}, pc : Pcs, todo : SUBSET Nat, done : Result, wrote : SUBSET Nat,
   expected : Nat, reply : Replies, result : Result]

(* Each variable holds values of its type.                                 *)
TypeOK ==
  /\ setStatus \in [Sets -> SetStatus] /\ rmSet \in [Sets -> SetStatus]
  /\ itemStatus \in [AllItems -> ItemStatus] /\ rmItem \in [AllItems -> ItemStatus]
  /\ version \in [Objects -> Nat] /\ blocked \subseteq Things /\ others \in 0 .. MaxOthers
  /\ log \in [Keys -> [req : Requests, result : Result] \cup {None}]
  /\ latest \in [Sets -> Result]
  /\ written \in [AllItems -> Nat]
  /\ tx \in [Threads -> Transaction]
  /\ held \in [Threads -> SUBSET Locks]

(***************************************************************************)
(* The status of an item tells whether its change is in the kernel: it is  *)
(* written once if APPLIED and never if PROPOSED or SKIPPED, whatever      *)
(* confirmations, rejections and retries were made side by side (confirm). *)
(***************************************************************************)
ItemsTellWhatIsWritten ==
  \A i \in AllItems :
    /\ written[i] <= 1
    /\ itemStatus[i] = "APPLIED" => written[i] = 1
    /\ itemStatus[i] \in {"none", "PROPOSED", "SKIPPED"} => written[i] = 0

(***************************************************************************)
(* A change reaches the kernel only while its set is open: no confirmation *)
(* that read PROPOSED before the set was decided writes an item after it   *)
(* (status, changeItems).                                                  *)
(***************************************************************************)
WrittenWhileOpen ==
  [][\A i \in AllItems :
       written'[i] # written[i] => setStatus[i[1]] = "PROPOSED" /\ itemStatus[i] = "PROPOSED"]_vars

(***************************************************************************)
(* A CONFIRMED set has no item left to decide, and all items of a REJECTED *)
(* one are REJECTED (proposedItemCount, reject): in the tables and in the  *)
(* read model that shows them (AiChangeProjection).                        *)
(***************************************************************************)
DecidedIsSettled ==
  /\ \A s \in Sets :
       LET statuses == {itemStatus[i] : i \in {s} \X Items(s)} IN
       /\ setStatus[s] = "CONFIRMED" => "PROPOSED" \notin statuses
       /\ setStatus[s] = "REJECTED" => statuses \subseteq {"REJECTED"}
  /\ rmSet = setStatus /\ rmItem = itemStatus

(***************************************************************************)
(* What a client is told was applied is written, what it is told was       *)
(* skipped never is, in a first answer, in a replay of its key and in the  *)
(* answer to a set confirmed already (confirmedResult).                    *)
(***************************************************************************)
AnswersTellWhatIsWritten ==
  \A t \in Threads :
    tx[t].reply = "accepted" =>
      /\ \A q \in tx[t].result.applied : written[<< tx[t].req.set, q >>] = 1
      /\ \A q \in tx[t].result.skipped : written[<< tx[t].req.set, q >>] = 0

(***************************************************************************)
(* Every command is answered: confirmations and rejections that lock the   *)
(* set, its items and the objects in different orders do not wait for each *)
(* other for ever.                                                         *)
(***************************************************************************)
EveryCommandAnswered ==
  \A t \in Threads : tx[t].pc # "idle" ~> tx[t].pc = "idle"

=============================================================================
