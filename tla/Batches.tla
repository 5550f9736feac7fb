------------------------------ MODULE Batches ------------------------------
(***************************************************************************)
(* BatchCommand (BatchCommandHandler.java, CommandSupport.java): a list of *)
(* sub-commands run in their order, all in one transaction                 *)
(* ("all_or_nothing") or each in one of its own ("partial").  The server   *)
(* gives the sub-command at an index the key << batch key, index >>        *)
(* (CommandController.batch), so that a batch that is sent again repeats   *)
(* nothing it has done.  A sub-command is abstracted to the object it      *)
(* writes and the version it expects; ObjectCommands and RelationCommands  *)
(* model what it does.  What a transaction has written takes effect in the *)
(* step that commits it.                                                   *)
(***************************************************************************)
EXTENDS Naturals, Sequences, FiniteSets

CONSTANTS
  Objects,      \* objects of the workspace
  NewObject,    \* the target of a sub-command that creates an object
  Requests,     \* the batches clients send
  Threads,      \* request threads of all server instances
  None

Modes    == {"all_or_nothing", "partial"}
Items    == [target : Objects \cup {NewObject}, expected : Nat]
Verdicts == {"COMMITTED", "REJECTED"}

(* BatchCommand.validate.                                                  *)
ASSUME BatchesAssumption ==
  /\ NewObject \notin Objects
  /\ None \notin Requests \cup [item : Items, by : Requests]
                      \cup [req : Requests, results : Seq(Verdicts)]
  /\ \A r \in Requests : /\ DOMAIN r = {"key", "mode", "items"}
                         /\ r.mode \in Modes /\ r.items \in Seq(Items) /\ r.items # << >>

Keys    == {r.key : r \in Requests}
SubKeys == UNION {{r.key} \X DOMAIN r.items : r \in Requests}

VARIABLES
  version,      \* data_object.version
  others,       \* objects another user has written
  subs,         \* command_log of the sub-commands: key -> [item, by], or None
  batches,      \* command_log of the batches: key -> the request it answers, or None
  announced,    \* key -> the latest outcome in command_log and BatchCommitted, or None
  writes,       \* how often a sub-command's write has been committed
  tx,           \* the batch each thread runs
  held          \* the locks of its transaction

tables == << version, subs, batches, announced, writes >>
vars   == << tables, others, tx, held >>

Replies == {"none", "accepted", "refused", "failed"}
Pcs     == {"idle", "look", "lock", "insert", "complete"}

(***************************************************************************)
(* A batch under way: the index of the current sub-command, the verdicts   *)
(* on those before it, and the indexes written and not committed yet.      *)
(***************************************************************************)
Begin(r, pc, reply, results) ==
  [req |-> r, pc |-> pc, at |-> 1, results |-> results, wrote |-> {}, reply |-> reply]

Init ==
  /\ version = [o \in Objects |-> 1]
  /\ others = {}
  /\ subs = [k \in SubKeys |-> None]
  /\ batches = [k \in Keys |-> None]
  /\ announced = [k \in Keys |-> None]
  /\ writes = [k \in SubKeys |-> 0]
  /\ tx = [t \in Threads |-> Begin(None, "idle", "none", << >>)]
  /\ held = [t \in Threads |-> {}]

-----------------------------------------------------------------------------
(* Locks: rows of objects, and rows of command_log that are not committed. *)

ObjectLock(o) == << "object", o, 0 >>
KeyLock(k)    == << "key", k[1], k[2] >>

Locks == {ObjectLock(o) : o \in Objects} \cup {KeyLock(k) : k \in SubKeys}

Free(t, l) == \A u \in Threads \ {t} : l \notin held[u]

Item(t)     == tx[t].req.items[tx[t].at]
SubKey(t)   == << tx[t].req.key, tx[t].at >>
Partial(t)  == tx[t].req.mode = "partial"
Creates(t)  == Item(t).target = NewObject
ItemLock(t) == IF Creates(t) THEN {} ELSE {ObjectLock(Item(t).target)}

(* The version of an object as the transaction sees it.                    *)
Seen(t, o) == version[o] + Cardinality({i \in tx[t].wrote : tx[t].req.items[i].target = o})

Stay == UNCHANGED << tables, others >>

(* Mutant of Finish: the locks stay with the connection.                   *)
FinishHolding(t, reply, results) ==
  /\ tx' = [tx EXCEPT ![t] = Begin(IF reply = "accepted" THEN @.req ELSE None, "idle", reply, results)]
  /\ UNCHANGED held

(* The call ends; a thread remembers what it has accepted.                 *)
Finish(t, reply, results) ==
  /\ tx' = [tx EXCEPT ![t] = Begin(IF reply = "accepted" THEN @.req ELSE None, "idle", reply, results)]
  /\ held' = [held EXCEPT ![t] = {}]

(* The next sub-command; a partial batch has no transaction between two.   *)
Advance(t, verdict, wrote) ==
  tx' = [tx EXCEPT ![t].results = Append(@, verdict),
                   ![t].at = @ + 1,
                   ![t].wrote = IF Partial(t) THEN {} ELSE wrote,
                   ![t].pc = IF tx[t].at = Len(tx[t].req.items) THEN "complete" ELSE "look"]

-----------------------------------------------------------------------------
(***************************************************************************)
(* execute: a partial batch that is known runs again, one that is all or   *)
(* nothing is answered from the log.                                       *)
(***************************************************************************)
Start(t, r) ==
  /\ tx[t].pc = "idle"
  /\ batches[r.key] \in {None, r} /\ (batches[r.key] = r => r.mode = "partial")
  /\ tx' = [tx EXCEPT ![t] = Begin(r, "look", "none", << >>)]
  /\ UNCHANGED held /\ Stay

Replay(t, r) ==
  /\ tx[t].pc = "idle"
  /\ batches[r.key] # None
  /\ \/ /\ batches[r.key] = r /\ r.mode = "all_or_nothing"
        /\ tx' = [tx EXCEPT ![t] = Begin(r, "idle", "accepted", << >>)]
     \/ /\ batches[r.key] # r
        /\ tx' = [tx EXCEPT ![t] = Begin(None, "idle", "refused", << >>)]
  /\ UNCHANGED held /\ Stay

(* Mutant of Reject: the batch goes on with what it has written so far.    *)
RejectItemOnly(t) ==
  /\ Advance(t, "REJECTED", tx[t].wrote)
  /\ UNCHANGED held

(***************************************************************************)
(* CommandRejectedException: a partial batch rolls the sub-command back    *)
(* and goes on, the other is rolled back and refused.                      *)
(***************************************************************************)
Reject(t) ==
  IF Partial(t) THEN /\ Advance(t, "REJECTED", {})
                     /\ held' = [held EXCEPT ![t] = {}]
  ELSE Finish(t, "refused", << >>)

(* Mutant of SameItem: the payload of a known key is not compared.         *)
AnyItem(t) == subs[SubKey(t)] # None

SameItem(t) == subs[SubKey(t)] # None /\ subs[SubKey(t)].item = Item(t)

(* The sub-command looks its key up: done already, taken, or to be done.   *)
Look(t) ==
  /\ tx[t].pc = "look"
  /\ \/ SameItem(t) /\ Advance(t, "COMMITTED", tx[t].wrote) /\ UNCHANGED held
     \/ subs[SubKey(t)] # None /\ ~SameItem(t) /\ Reject(t)
     \/ /\ subs[SubKey(t)] = None
        /\ tx' = [tx EXCEPT ![t].pc = "lock"]
        /\ UNCHANGED held
  /\ Stay

(* It locks the object it writes and checks the version.                   *)
Lock(t) ==
  /\ tx[t].pc = "lock"
  /\ \A l \in ItemLock(t) : Free(t, l)
  /\ ~Creates(t) => Item(t).expected = Seen(t, Item(t).target)
  /\ tx' = [tx EXCEPT ![t].pc = "insert"]
  /\ held' = [held EXCEPT ![t] = @ \cup ItemLock(t)]
  /\ Stay

(* Another version, or any other reason to refuse it.                      *)
RejectItem(t) ==
  /\ tx[t].pc = "lock"
  /\ \A l \in ItemLock(t) : Free(t, l)
  /\ Reject(t) /\ Stay

(* The rows S of the sub-commands of a batch, once they are committed.     *)
Committed(t, S) ==
  LET r == tx[t].req
      w == {<< r.key, i >> : i \in S} IN
  /\ subs' = [k \in SubKeys |-> IF k \in w THEN [item |-> r.items[k[2]], by |-> r] ELSE subs[k]]
  /\ writes' = [k \in SubKeys |-> IF k \in w THEN writes[k] + 1 ELSE writes[k]]
  /\ version' = [o \in Objects |-> version[o] + Cardinality({i \in S : r.items[i].target = o})]

(* Mutant of InsertKey: the row of a key is written over.                  *)
UpsertKey(t) == Free(t, KeyLock(SubKey(t)))

(* The primary key of command_log waits for who is writing the same key.   *)
InsertKey(t) == Free(t, KeyLock(SubKey(t))) /\ subs[SubKey(t)] = None

Insert(t) ==
  /\ tx[t].pc = "insert"
  /\ InsertKey(t)
  /\ Advance(t, "COMMITTED", tx[t].wrote \cup {tx[t].at})
  /\ IF Partial(t)
     THEN Committed(t, {tx[t].at}) /\ held' = [held EXCEPT ![t] = {}]
     ELSE held' = [held EXCEPT ![t] = @ \cup {KeyLock(SubKey(t))}] /\ UNCHANGED << subs, writes, version >>
  /\ UNCHANGED << batches, announced, others >>

(* complete: BatchCommitted, the row of the batch, the commit.             *)
Complete(t) ==
  LET r == tx[t].req IN
  /\ tx[t].pc = "complete"
  /\ Committed(t, tx[t].wrote)
  /\ batches' = [batches EXCEPT ![r.key] = IF @ = None THEN r ELSE @]
  /\ announced' = [announced EXCEPT ![r.key] = [req |-> r, results |-> tx[t].results]]
  /\ Finish(t, "accepted", tx[t].results)
  /\ UNCHANGED others

-----------------------------------------------------------------------------
(* What ends a call without an answer: its transaction is rolled back, the *)
(* sub-commands a partial batch has committed remain.                      *)

Fail(t) == Finish(t, "failed", << >>) /\ Stay

DuplicateKey(t) ==
  /\ tx[t].pc = "insert"
  /\ Free(t, KeyLock(SubKey(t))) /\ subs[SubKey(t)] # None
  /\ Fail(t)

Wants(t) ==
  CASE tx[t].pc = "lock"   -> ItemLock(t)
    [] tx[t].pc = "insert" -> {KeyLock(SubKey(t))}
    [] OTHER               -> {}

Deadlocked(D) == \A t \in D : \E l \in Wants(t) : \E u \in D \ {t} : l \in held[u]

DeadlockVictim(t) ==
  /\ \E D \in SUBSET Threads : t \in D /\ Deadlocked(D)
  /\ Fail(t)

(* A lost connection, a crash.                                             *)
Abort(t) == tx[t].pc # "idle" /\ Fail(t)

OtherWrite(o) ==
  /\ o \notin others
  /\ \A t \in Threads : ObjectLock(o) \notin held[t]
  /\ others' = others \cup {o}
  /\ version' = [version EXCEPT ![o] = @ + 1]
  /\ UNCHANGED << subs, batches, announced, writes, tx, held >>

Run(t) ==
  \/ Look(t) \/ Lock(t) \/ RejectItem(t) \/ Insert(t) \/ Complete(t)
  \/ DuplicateKey(t) \/ DeadlockVictim(t)

Next ==
  \/ \E t \in Threads : \/ \E r \in Requests : Start(t, r) \/ Replay(t, r)
                        \/ Run(t)
                        \/ Abort(t)
  \/ \E o \in Objects : OtherWrite(o)

Spec == Init /\ [][Next]_vars

(* A request thread goes on, and PostgreSQL grants rows in turn.           *)
FairSpec == Spec /\ \A t \in Threads : SF_vars(Run(t))

-----------------------------------------------------------------------------
(* Properties.                                                             *)

Outcome == [req : Requests, results : Seq(Verdicts)]

(* Each variable holds values of its type.                                 *)
TypeOK ==
  /\ version \in [Objects -> Nat] /\ others \subseteq Objects
  /\ subs \in [SubKeys -> [item : Items, by : Requests] \cup {None}]
  /\ batches \in [Keys -> Requests \cup {None}]
  /\ announced \in [Keys -> Outcome \cup {None}]
  /\ writes \in [SubKeys -> Nat]
  /\ tx \in [Threads -> [req : Requests \cup {None}, pc : Pcs, at : Nat \ {0},
                         results : Seq(Verdicts), wrote : SUBSET Nat, reply : Replies]]
  /\ held \in [Threads -> SUBSET Locks]

(***************************************************************************)
(* A batch that is sent again, after a crash between two sub-commands or   *)
(* beside its first delivery, writes nothing twice: every key is written   *)
(* once, and an object has as many versions as sub-commands and other      *)
(* users have written it (replay, insertCommand).                          *)
(***************************************************************************)
NothingTwice ==
  /\ \A k \in SubKeys : writes[k] = IF subs[k] = None THEN 0 ELSE 1
  /\ \A o \in Objects :
       version[o] = 1 + Cardinality(others \cap {o})
                      + Cardinality({k \in SubKeys : subs[k] # None /\ subs[k].item.target = o})

(***************************************************************************)
(* "all_or_nothing": when one sub-command has been written by such a batch *)
(* all of them are in the tables; one that fails undoes the others         *)
(* (executeAll).                                                           *)
(***************************************************************************)
AllOrNothing ==
  \A r \in Requests :
    /\ r.mode = "all_or_nothing"
    /\ \E i \in DOMAIN r.items : subs[<< r.key, i >>] # None /\ subs[<< r.key, i >>].by = r
    => \A i \in DOMAIN r.items : subs[<< r.key, i >>] # None /\ subs[<< r.key, i >>].item = r.items[i]

Done(r, i) == subs[<< r.key, i >>] # None /\ subs[<< r.key, i >>].item = r.items[i]

Honest(o) == \A i \in DOMAIN o.results : o.results[i] = "COMMITTED" => Done(o.req, i)

(***************************************************************************)
(* What an answer, the log or a BatchCommitted event calls committed is in *)
(* the tables, and a batch that is all or nothing is accepted only when    *)
(* everything is, whatever other batches ran under the same key.           *)
(***************************************************************************)
AnswersTellWhatIsWritten ==
  /\ \A k \in Keys : announced[k] # None => Honest(announced[k])
  /\ \A t \in Threads :
       tx[t].reply = "accepted" =>
         /\ Honest([req |-> tx[t].req, results |-> tx[t].results])
         /\ tx[t].req.mode = "all_or_nothing" =>
              \A i \in DOMAIN tx[t].req.items : Done(tx[t].req, i)

(***************************************************************************)
(* Every batch is answered: batches that write the same objects in         *)
(* opposite orders, or the same keys, do not wait for each other for ever. *)
(***************************************************************************)
EveryBatchAnswered ==
  \A t \in Threads : tx[t].pc # "idle" ~> tx[t].pc = "idle"

=============================================================================
