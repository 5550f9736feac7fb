--------------------------- MODULE ObjectCommands ---------------------------
(***************************************************************************)
(* The object command handlers as PostgreSQL runs them: READ COMMITTED     *)
(* transactions, one per delivery of a command, interleaved.  A handler    *)
(* looks its key up in command_log, locks the object's row FOR UPDATE,     *)
(* checks, takes an advisory lock per unique value and looks for it, then  *)
(* writes and inserts into command_log.  What it writes is seen by nobody  *)
(* before the commit, so writes and commit are one step here; each read    *)
(* that another transaction can get in front of is a step of its own.      *)
(*                                                                         *)
(* A delivery may be the first one of a command, a retry, or a duplicate   *)
(* racing the first: any thread may start any command at any time.         *)
(***************************************************************************)
EXTENDS ObjectLedger

CONSTANTS Threads         \* request threads of all server instances

VARIABLES
  tx,     \* the transaction of each thread
  held    \* the locks it holds until it ends

vars == << tables, tx, held >>

PCs == {"idle", "check", "unique", "commit"}

Replies == {"none", "committed", "replayed", "conflict", "rejected", "failed"}

Snapshot ==
  [ row : ObjectRow \cup {NoObject},
    fld : [Fields -> FieldRow \cup {NoField}] ]

Transaction ==
  [ pc    : PCs,
    cmd   : Commands \cup {Absent},   \* the command, kept after the reply
    seen  : Snapshot,                 \* what it read of its target
    todo  : SUBSET Fields,            \* unique values still to be locked
    reply : Replies ]

Begin(c, pc, reply) ==
  [pc |-> pc, cmd |-> c, seen |-> NothingRead, todo |-> {}, reply |-> reply]

Idle == Begin(Absent, "idle", "none")

ObjectLock(o)   == << "object", o >>          \* lockObject
ValueLock(f, x) == << "value", f, x >>        \* lockUniqueValue

Lock == {ObjectLock(o) : o \in Objects}
        \cup {ValueLock(f, x) : f \in UniqueFields, x \in Text}

Free(t, l) == \A u \in Threads \ {t} : l \notin held[u]

Init ==
  /\ LedgerInit
  /\ tx = [t \in Threads |-> Idle]
  /\ held = [t \in Threads |-> {}]

(* Mutant of Finish: the locks stay with the connection.                   *)
FinishHolding(t, reply) ==
  /\ tx' = [tx EXCEPT ![t] = Begin(@.cmd, "idle", reply)]
  /\ UNCHANGED held

(* The transaction ends, with or without a commit, and drops its locks.    *)
Finish(t, reply) ==
  /\ tx' = [tx EXCEPT ![t] = Begin(@.cmd, "idle", reply)]
  /\ held' = [held EXCEPT ![t] = {}]

(* The handler has read seen, and the values fs remain to be locked.       *)
Proceed(t, seen, fs) ==
  tx' = [tx EXCEPT ![t].seen = seen, ![t].todo = fs,
                   ![t].pc = IF fs = {} THEN "commit" ELSE "unique"]

-----------------------------------------------------------------------------
(***************************************************************************)
(* A delivery of c arrives and replay looks for its key: nothing found.    *)
(***************************************************************************)
Start(t, c) ==
  /\ tx[t].pc = "idle"
  /\ log[c.key] = Absent
  /\ tx' = [tx EXCEPT ![t] = Begin(c, "check", "none")]
  /\ UNCHANGED << tables, held >>

(* Mutant of Replay: the payload hash is not compared.                     *)
ReplayAny(t, c) ==
  /\ tx[t].pc = "idle"
  /\ log[c.key] # Absent
  /\ tx' = [tx EXCEPT ![t] = Begin(c, "idle", "replayed")]
  /\ UNCHANGED << tables, held >>

(* The key is known: the stored result for the same payload, else 409.     *)
Replay(t, c) ==
  /\ tx[t].pc = "idle"
  /\ log[c.key] # Absent
  /\ LET same == Payload(log[c.key]) = Payload(c) IN
     tx' = [tx EXCEPT ![t] = Begin(c, "idle", IF same THEN "replayed" ELSE "conflict")]
  /\ UNCHANGED << tables, held >>

(* CreateObject has no row to lock; its unique fields come from the payload. *)
CheckCreate(t) ==
  LET c == tx[t].cmd IN
  /\ tx[t].pc = "check"
  /\ c.kind = "CreateObject"
  /\ Admitted(c, NothingRead)
  /\ Proceed(t, NothingRead, Claims(c, NothingRead))
  /\ UNCHANGED << tables, held >>

(* Mutant of LockObject: SELECT without FOR UPDATE.                        *)
ReadObject(t) ==
  LET c == tx[t].cmd IN
  /\ tx[t].pc = "check"
  /\ c.kind # "CreateObject"
  /\ Admitted(c, Read(c))
  /\ Proceed(t, Read(c), Claims(c, Read(c)))
  /\ UNCHANGED << tables, held >>

(***************************************************************************)
(* lockObject waits for the row and reads it.  Under its lock the handler  *)
(* reads the field rows, which change only under that lock, and checks the *)
(* command against what it read.                                           *)
(***************************************************************************)
LockObject(t) ==
  LET c == tx[t].cmd IN
  /\ tx[t].pc = "check"
  /\ c.kind # "CreateObject"
  /\ Free(t, ObjectLock(c.obj))
  /\ Admitted(c, Read(c))
  /\ held' = [held EXCEPT ![t] = {ObjectLock(c.obj)}]
  /\ Proceed(t, Read(c), Claims(c, Read(c)))
  /\ UNCHANGED tables

(* The checks fail: version or state conflict, archived, missing target.   *)
Reject(t) ==
  LET c == tx[t].cmd IN
  /\ tx[t].pc = "check"
  /\ c.kind # "CreateObject" => Free(t, ObjectLock(c.obj))
  /\ ~Admitted(c, Read(c))
  /\ Finish(t, "rejected")
  /\ UNCHANGED tables

(***************************************************************************)
(* pg_advisory_xact_lock on the value's text, then the lookup.  The order  *)
(* is that of the fields in the payload, so it may be any.                 *)
(***************************************************************************)
LockValue(t, f) ==
  LET c == tx[t].cmd IN
  /\ tx[t].pc = "unique"
  /\ f \in tx[t].todo
  /\ Free(t, ValueLock(f, c.set[f]))
  /\ ~Taken(c, f)
  /\ held' = [held EXCEPT ![t] = @ \cup {ValueLock(f, c.set[f])}]
  /\ Proceed(t, tx[t].seen, tx[t].todo \ {f})
  /\ UNCHANGED tables

(* The value exists already: KERNEL-409-DUPLICATE-VALUE.                   *)
RejectDuplicate(t, f) ==
  LET c == tx[t].cmd IN
  /\ tx[t].pc = "unique"
  /\ f \in tx[t].todo
  /\ Free(t, ValueLock(f, c.set[f]))
  /\ Taken(c, f)
  /\ Finish(t, "rejected")
  /\ UNCHANGED tables

(* The writes, the command_log row, and the commit that publishes them.    *)
Commit(t) ==
  LET c == tx[t].cmd IN
  /\ tx[t].pc = "commit"
  /\ Write(c, tx[t].seen)
  /\ RecordCommand(c)
  /\ Finish(t, "committed")

(* Another delivery of the key committed first: the primary key refuses.   *)
DuplicateKey(t) ==
  /\ tx[t].pc = "commit"
  /\ log[tx[t].cmd.key] # Absent
  /\ Finish(t, "failed")
  /\ UNCHANGED tables

(***************************************************************************)
(* Two transactions that lock their unique values in opposite orders wait  *)
(* for each other: PostgreSQL finds the cycle and rolls one of them back.  *)
(***************************************************************************)
Deadlocked(D) ==
  \A t \in D :
    /\ tx[t].pc = "unique"
    /\ \A f \in tx[t].todo :
         \E u \in D \ {t} : ValueLock(f, tx[t].cmd.set[f]) \in held[u]

DeadlockVictim(t) ==
  /\ \E D \in SUBSET Threads : t \in D /\ Deadlocked(D)
  /\ Finish(t, "failed")
  /\ UNCHANGED tables

(***************************************************************************)
(* A refusal that reads nothing kept here (permission, rule, field         *)
(* constraint, active relations), a lost connection, a crash of the        *)
(* server: the transaction is rolled back.                                 *)
(***************************************************************************)
Abort(t) ==
  /\ tx[t].pc # "idle"
  /\ Finish(t, "failed")
  /\ UNCHANGED tables

-----------------------------------------------------------------------------
Next ==
  \E t \in Threads :
    \/ \E c \in Commands : Start(t, c) \/ Replay(t, c)
    \/ CheckCreate(t)
    \/ LockObject(t)
    \/ Reject(t)
    \/ \E f \in UniqueFields : LockValue(t, f) \/ RejectDuplicate(t, f)
    \/ Commit(t)
    \/ DuplicateKey(t)
    \/ DeadlockVictim(t)
    \/ Abort(t)

Spec == Init /\ [][Next]_vars

-----------------------------------------------------------------------------
(* What the locks are for.                                                 *)

(* The transactions are of their type, and an idle thread holds nothing.   *)
TypeOK ==
  /\ TablesTypeOK
  /\ tx \in [Threads -> Transaction]
  /\ held \in [Threads -> SUBSET Lock]
  /\ \A t \in Threads : tx[t].pc # "idle" => tx[t].cmd # Absent

(* No row lock and no advisory lock is held by two transactions.           *)
LocksExclusive ==
  \A t, u \in Threads : t # u => held[t] \cap held[u] = {}

(***************************************************************************)
(* What a command was checked against is still true when it commits,       *)
(* whatever the other transactions committed meanwhile: nobody wrote the   *)
(* rows it read, and nobody took a value it found free.                    *)
(***************************************************************************)
CheckedStaysValid ==
  \A t \in Threads :
    LET c == tx[t].cmd IN
    /\ tx[t].pc \in {"unique", "commit"} => tx[t].seen = Read(c) /\ Admitted(c, Read(c))
    /\ tx[t].pc = "commit" => Unclaimed(c, Read(c))

(***************************************************************************)
(* A client told "committed", now or by a replay, can rely on it: the      *)
(* command_log holds that payload under its key, and keeps it.             *)
(***************************************************************************)
RepliesAreHonest ==
  \A t \in Threads : tx[t].reply \in {"committed", "replayed"} =>
    LET c == tx[t].cmd IN
    log[c.key] # Absent /\ Payload(log[c.key]) = Payload(c)

-----------------------------------------------------------------------------
(***************************************************************************)
(* Progress.  The request thread keeps running and PostgreSQL grants locks *)
(* in the order they were asked for, so a wait for a lock that is freed    *)
(* again and again ends: strong fairness for the steps that wait.  The     *)
(* deadlock detector runs after deadlock_timeout.  Nothing makes clients   *)
(* send commands or transactions abort.                                    *)
(***************************************************************************)
Fairness ==
  \A t \in Threads :
    /\ WF_vars(CheckCreate(t))
    /\ WF_vars(DeadlockVictim(t))
    /\ SF_vars(LockObject(t) \/ Reject(t))
    /\ SF_vars(\E f \in UniqueFields : LockValue(t, f) \/ RejectDuplicate(t, f))
    /\ WF_vars(Commit(t) \/ DuplicateKey(t))

FairSpec == Spec /\ Fairness

(* Every delivery is answered: no transaction waits for a lock forever.    *)
EveryDeliveryAnswered ==
  \A t \in Threads : tx[t].pc # "idle" ~> tx[t].pc = "idle"

=============================================================================
