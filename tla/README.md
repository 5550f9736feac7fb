# M-Next: TLA+ models of the data kernel, its event pipeline and its clients

M-Next is a modelling workbench: a Java *data kernel* that keeps typed objects and
relations in PostgreSQL, a server that publishes the kernel's events through an outbox
to RabbitMQ and projects them into a read model, engines (rules, simulation, exchange),
and a web client. This directory holds TLA+ specifications of the parts whose
correctness depends on what runs at the same time or in a long sequence of commands,
their TLC configurations, and theorems about them checked by TLAPS.

`PROJECT.json` maps every definition that models code to the lines it stands for.

    tlc -workers 2 -config ObjectRaces.cfg MCObjectCommands     # one run
    tlapm ObjectCommandsProofs.tla                               # one module of proofs

In the source paths below `kernel/` is
`src/packages/kernel/src/main/java/com/mnext/kernel/`, `server/` is
`src/packages/server/src/main/java/com/mnext/server/` and `web/` is
`src/packages/web/src/unisource/`. "The contract" is
`src/contracts/数据内核命令与事件契约.md`.

---------------------------------------------------------------------------------

## 1. The system

### How the parts interact

    browser store --write bridge, HTTP--> command endpoints --call--> kernel commands
        ^                                                               | one PostgreSQL
        | read, lagging                                                 v transaction: tables
        |                                                 + command_log + event_outbox
    rm_* tables <--project-- read model <--queue-- RabbitMQ <--send-- outbox relay

* **Calls.** A controller in `server/` authorizes the request and calls
  `KernelCommandServiceImpl`, which runs one handler in one transaction. AI change sets,
  imports, transformations, assemblies and templates are longer sequences of such calls.
* **Shared state.** Handlers of all server instances meet in the tables only. The
  isolation level is PostgreSQL's READ COMMITTED; what keeps them apart is
  `SELECT ... FOR UPDATE`, `pg_advisory_xact_lock`, unique indexes, and version columns
  compared in the handler.
* **Messages.** A handler inserts its events into `event_outbox` in its own transaction.
  The relay of every server drains that table and sends to RabbitMQ; listeners of every
  server project the events into the `rm_*` tables.
* **Time.** The relay runs on a schedule and backs off in memory; RabbitMQ redelivers
  what is not acknowledged; PostgreSQL detects deadlocks after a timeout; clients retry
  with the idempotency key of the first attempt.
* **The browser** shows a user's edit at once, sends it later, looks it up in the read
  model, and takes it back when it was refused.

### Components

| component | state | operations | what is hard | what makes it correct | status |
|---|---|---|---|---|---|
| **Object commands** `kernel/internal/{CreateObject,UpdateFields,ChangeState,Archive,SoftDelete}Handler`, `KernelRepository` | `data_object`, `data_field_value`, `command_log`, `event_outbox` | create, update fields, change state, archive, soft delete; replay of a key | concurrent commands on one object, unique values across objects, retries racing the first delivery, deadlocks | commands take effect in one piece and at most once; versions and events tell the whole history; unique values are unique; archived fields are frozen | modelled, proved |
| **Relation commands** `kernel/internal/{CreateRelation,UpdateRelation,Unlink}Handler`, cascades of `Archive`/`SoftDelete`, `RelationRepository` | `data_relation`, `relation_closure` | create, move, unlink, archive, delete; cascade of an object's end | validations read before others commit, two lock orders, a closure table maintained incrementally | at most one parent, no relation to a deleted object, no cycle, closure = paths, every command ends | modelled, proved; the closure table under two conditions the code does not enforce |
| **Batch commands** `kernel/internal/BatchCommandHandler` | sub-keys and batches in `command_log` | all_or_nothing, partial, replay | two deliveries at once, one of several sub-commands fails, a crash between two, locks kept across sub-commands | nothing is written twice; all or nothing; the answer tells what was written; every batch is answered | modelled, proved |
| **Metamodel and templates (kernel)** `kernel/internal/Meta*`, `*Template*Handler`, `Define*Handler`, `InstantiateWorkspaceHandler` | type and field tables, template versions, a workspace's copy | define, publish, withdraw, restore, instantiate, apply | an upgrade compares versions, not the workspace and its objects; long sequences of legal commands | references lead somewhere; objects stay valid; an upgraded workspace is what a new one would be | object types, fields and versions modelled, one command at a time, and proved |
| **Outbox relay** `server/OutboxRelay`, `RabbitOutboxPublisher` | `event_outbox.status/retry_count`, `retryAfter` in memory | drain: select heads, send, mark, commit | several servers, failed and unconfirmed sends, crashes, lost sessions | order per aggregate, nothing lost, duplicates only after a failure, every event leaves | modelled, proved |
| **Read model projection** `server/ReadModelProjection`, `ReadModelRepository`, `IdempotentConsumer*` | `rm_*`, `rm_consumed_event`, an in-memory registry of ids | one projection per event kind | redelivery, reordering across aggregates, two servers on one row, failures between registry, tables and acknowledgement | no event lost, no lost update, rows never go back, all events consumed | objects and fields modelled, proved |
| **Command endpoints** `server/*CommandController`, `CommandErrorHandler` | none | HTTP to command | – | stateless translation | not modelled |
| **AI change sets** `server/AiChangeRepository`, `AiCommandController`, `AiChangeProjection` | `ai_change_set`, `ai_change_item`, their `rm_*` copies | propose, confirm whole or in part, reject | status read without a lock and written later, kernel commands inside, two lock orders, retries | an item is written once and only while its set is open; statuses and answers tell what is written | modelled, proved |
| **AI providers and extraction** | none | call a language model | – | its answer is the free input of a proposal | not modelled |
| **Rule definitions and check runs** `server/RuleCheckRunner`, `engines/rules` | rule definitions, run records, results | define, run, record | a run over data that changes meanwhile | planned | not modelled |
| **Review annotations** `server/Review*`, `engines/review` | annotation status and version | a state machine with optimistic versions | two reviewers | planned | not modelled |
| **Template lifecycle (server)** `server/TemplateLifecycleService` … | template status | publish, retire, copy | retire while a workspace is created from it | planned | not modelled |
| **Derived fields** `server/DerivedEvaluator` | definitions | evaluate on read | dependency order, cycles | planned as a pure algorithm | not modelled |
| **Snapshots, outputs, simulation runs** `server/SimulationRunner`, `*SnapshotRepository`, `engines/sim` | run records, series | start, finish | mostly floating-point computation | – | not modelled |
| **Transformations, assemblies, XMI, imports** | mapping and identity tables | long sequences of kernel commands | a failure half way | – | not modelled |
| **Attachments** `server/Attachment*`, `server/storage` | metadata rows, blobs | upload, attach, fetch | two stores without a common transaction | – | not modelled |
| **Authorization** `server/WorkspaceAuthorizer` | roles | a check before each command | – | a possible refusal (`Abort`) | not modelled |
| **Queries and catalogs**, **exchange/output engines**, **view components**, **domain profiles** | none of their own | read-only SQL, rendering, file formats, JSON data | – | – | not modelled |
| **Browser write synchronization** `web/state/workspace-store`, `web/data/write-bridge`, `kernel-gateway` | the objects and relations on the screen, a queue of writes, temporary ids | edit, create, delete, relate, unlink; send, claim, refresh, roll back | late answers, a read model that lags, ids that change, writes of others, refused and lost requests | ids are replaced everywhere; what is reported as synced is shown; deletions stay; every write ends | modelled, proved |
| **Web workbench panels and other stores** | display state of one user | – | – | – | not modelled |

The hazards of this code, each at its line with the properties that watch it, are in
`PROJECT.json`.

---------------------------------------------------------------------------------

## 2. The modules

| module | what it is | extends / uses |
|---|---|---|
| `ObjectLedger` | the object tables and the five commands, **decided in one step** – the kernel's promise (`LedgerSpec`) | – |
| `ObjectCommands` | the handlers as READ COMMITTED transactions with their locks | extends `ObjectLedger`; implements `LedgerSpec` over the same tables |
| `RelationGraph` | the graph of active relations, changed in one step – the promise (`GraphSpec`) | – |
| `RelationCommands` | the relation handlers and cascades as transactions with row locks, the closure table | `INSTANCE RelationGraph WITH ...` as refinement mapping |
| `OutboxRelay` | the relay of several servers over outbox and broker | – |
| `ReadModel` | the projection of one object's events by several servers | takes the order `OutboxRelay` keeps as its input |
| `Batches` | batches of sub-commands of several request threads | stands above `ObjectCommands`: a sub-command is a lock, a version and a write |
| `ChangeSets` | AI change sets of several request threads, with the kernel commands inside | stands above `ObjectCommands` in the same way |
| `WorkspaceStore` | the browser's copy: what each edit and each correction changes | – |
| `WriteBridge` | the queue of writes between that copy, the kernel and the lagging read model | extends `WorkspaceStore`; the kernel and the read model are reduced to what answers tell |
| `Templates` | versions of a template, a workspace made from them and an object in it | – |
| `ObjectCommandsProofs`, `RelationCommandsProofs`, `OutboxRelayProofs`, `ReadModelProofs`, `BatchesProofs`, `ChangeSetsProofs`, `WriteBridgeProofs`, `TemplatesProofs` | theorems | extend their module and `TLAPS` |
| `MC...` | the instances TLC runs: which commands clients send | extend their module |

Every module scopes itself as the code does: one workspace and one object type
(`ObjectCommands`) or relation type (`RelationCommands`), because unique values, row
locks, keys, duplicates, cardinality and the closure table are all scoped so.

### 2.1 ObjectLedger and ObjectCommands

*State.* `obj` (`data_object`: status, version), `fld` (`data_field_value`: value,
version), `objEvents`/`fldEvents` (the `event_outbox` rows by aggregate), `log`
(`command_log` by key); `tx` (the transaction of each request thread: where it is, what
it read) and `held` (row locks and advisory locks).

*Actions.* A handler's steps, in its order:

| step of the code | action |
|---|---|
| `CommandSupport.replay` before any lock | `Start` (nothing found), `Replay` (stored result, or 409 for another payload) |
| `lockObject` FOR UPDATE, then the checks of version, status, field versions, required fields | `LockObject`, `Reject`; `CheckCreate` for CreateObject, which has no row |
| `lockUniqueValue` (advisory lock on the text) and `uniqueValueExists` (comparison of jsonb), one per unique field given | `LockValue`, `RejectDuplicate` |
| the writes, `insertCommand`, commit | `Commit`; `DuplicateKey` when the primary key of `command_log` refuses |
| PostgreSQL's deadlock detector | `DeadlockVictim` |
| any refusal that reads nothing kept here (permission, pre-commit rule, field constraint, cascade limit), lost connection, crash | `Abort` |

What a transaction writes is visible to nobody before its commit, so writes and commit
are one step; every *read* that another transaction can get in front of is a step of its
own. `Write(c, seen)` uses what was read under the lock, never the table as it is at the
commit: that both agree is a property (`CheckedStaysValid`), not an assumption.
A value has a `Text` (what `JsonCodec` writes and the advisory lock hashes) and a
`Value` (what jsonb stores and compares); `Jsonb` maps one to the other and need not be
injective. `Payload` is what `payloadHash` covers; the command type is not part of it,
so Archive and SoftDelete of one object hash alike.

### 2.2 RelationGraph and RelationCommands

*State.* `obj`, `rel` (`data_relation`), `closure` (`relation_closure` without depths),
`tx` (with the rows still to be locked, those found for a cascade, and the closure rows
deleted and inserted so far) and `held`.

*Actions.* `LockRelation`, `LockForUpdate` (UpdateRelation deletes the old closure rows
*before* it locks the new endpoints), `LockEndpoint` (`ORDER BY id FOR UPDATE`: one row
after the other), `Validate`/`Invalidate` (endpoints, duplicate, cardinality, cycle),
`InsertClosure`, `LockObject` and `LockActive` (the cascade: rows found by the
statement's snapshot, locked one by one, looked at again after a wait),
`RejectActive`/`AcceptActive` (relationPolicy), `ClearCascade`, one commit action per
kind, and the `...AndQuit` actions for refusals and for removals already done.

Decisions worth knowing:

* `Room` is a bound: an id must be left for a relation to be created.
* Closure rows another transaction has written make a statement wait. The model takes
  the statement's snapshot after the wait (`Uncontended`).
* The three validations after the endpoint locks are one step: rows they depend on are
  locked, or (the closure) read again by `insertClosure`, which is a step of its own.
* The partial unique index on active relations is left out on purpose: `OneParent` shows
  that it never has to refuse.
* `ChangeState` of a *relation* is left out: its status is ACTIVE, which the controlled
  transitions do not contain, so the command can only be refused. `Unlink` by source,
  target and type instead of id is left out. The limit of 50 on a cascade is an `Abort`.

### 2.3 OutboxRelay

*State.* `outbox` in `created_at` order (status, retries), `broker` (what the queue took),
`drain` (each server's transaction: rows locked, rows to send, outcomes), `backoff`
(`retryAfter`, the server's memory).

*Actions.* `Emit` (a kernel commit), `Select` (`pending()`: the first `BatchSize` heads
of aggregates, FOR UPDATE SKIP LOCKED), `Skip`, `Publish`, `PublishFails` (the message
arrived or did not), `Commit`, `BackoffEnds`; failures: `Crash`, `Rollback`, and `Detach`
with `SendDetached` – a server whose database session is gone, and its locks with it,
still sends the message it is at before a statement fails. The two queues a message goes
to are one queue here.

### 2.4 ReadModel

*State.* `queue`, `inbox` (handed out, not acknowledged), `tx` (the transaction of
`apply`), `registry` (`IdempotentConsumerRegistry.processed`), `consumed`
(`rm_consumed_event`), `row` (`rm_object`), and two history variables: `missed` (events
that found no row) and `uncommitted` (events whose commit failed).

*Actions.* `Send`/`Resend` (each aggregate's events in order, with repeats: what
`NothingOvertaken` leaves possible), `Deliver`, `Skip`, `Take` (registry, then the table),
`Project` (the statement, on the committed row, waiting for a row lock), `CommitApply`,
`Ack`, `Fail` (the registry forgets the id, the message returns to the head of the
queue), `CommitFails` (the registry keeps it: `dispatch` had returned), `Crash`.

Nothing here reads the kernel's tables, so the kernel's commands are a history chosen in
`Init`. A status or a field value is named by the version that wrote it.

### 2.5 Batches

*State.* `version` (`data_object.version`), `subs` and `batches` (`command_log` of the
sub-commands and of the batches, by key), `announced` (the latest outcome under a key: the
row's `result_snapshot` and `BatchCommitted`), `tx` (the batch a thread runs, the index it
is at, the verdicts so far, the indexes written and not committed) and `held`; `writes`
and `others` are history.

*Actions.* `Start` and `Replay` (`execute`: a known all_or_nothing batch is answered from
the log, a known partial one runs again), `Look` (the sub-command's own replay), `Lock`
(the object's row, the version), `Insert` (the sub-command's `command_log` row, which
waits for whoever is writing the same key; a partial batch commits here), `Complete`
(`BatchCommitted`, the batch's row, the commit), `RejectItem` (`CommandRejectedException`),
and what ends a call without an answer: `DuplicateKey`, `DeadlockVictim`, `Abort` (a crash,
a lost connection). `OtherWrite` is another user.

What a sub-command writes is in `tx[t].wrote` until the commit: a transaction's writes
are seen by nobody before. A sub-command that creates an object has no row to lock.

### 2.6 ChangeSets

*State.* `setStatus`, `itemStatus` and the projections `rmSet`, `rmItem`; `version` and
`blocked` (the objects for which a BLOCK rule matches now); `log` (`command_log`) and
`latest` (what the latest confirmation of a set answered); `tx` (the items to do, applied,
skipped, the version it will expect) and `held`; `written` and `others` are history.

*Actions.* `Start`, `Replay` (the controller's look at the key), `Propose`, `ReadStatus`
(`status()`: no lock), `RejectSet`, `RejectItems`, `CommitReject`, `TakeItems` (all items
FOR UPDATE, read again), `ForeignItem`, `Precheck`, `ReadVersion`, `Apply`/`KernelRefuses`
(the kernel's command in the same transaction), `TakeSet`, `CommitConfirm`;
`DuplicateKey`, `DeadlockVictim`, `Abort`; `OtherWrite` (a version moves, a rule starts or
stops to block). The rows of a set's items are locked as one; every set is proposed under
one key, since an id is drawn for it.

### 2.7 WorkspaceStore and WriteBridge

*State.* `objects` and `relations` (what is shown); `tasks` (the writes of the session in
order: what the edit was, the state before it, the keys it queues under, what came of it),
`idMap`, `gens` and `fetches` (refreshes and their generations); `kernel` (every state an
object has had), `links`, and `seen` (how far the read model has been seen, by object and
by field).

*Actions.* Of the user: `EditField`, `AddObject`, `RemoveObject`, `Relate`, `Unrelate` –
each changes the store at once (`WorkspaceStore`) and appends a task. Of the bridge:
`Accept` (the task's turn has come and the kernel carries it out), `Refuse`, `LoseAnswer`
(it was carried out and the browser takes it back), `Claim`, `GiveUpClaim`,
`FieldWritten`, `ObjectCreated`, `RelationWritten`, `FetchRow`, `ShowRow`, `FetchFails`,
`RefreshRelated`, `Finish`. `OtherUpdate` is another user. A read returns any state of
the object, and of each field on its own, that is not older than one read before: the read
model projects the aggregates without an order between them.

JavaScript runs one callback at a time, so an action is what runs between two awaits.

### 2.8 Templates

*State.* `status` and `template` (the versions and their types and fields), `runtime` and
`at` (the workspace's copy and its version), `object` (an object's value, and the type
whose field it is stored under); `edited` and `narrowed` are history.

*Actions.* `CreateTemplateVersion`, `DefineObjectType` (a new type or another parent),
`DefineFieldDef` (its redefinition checks), `PublishTemplateVersion`,
`WithdrawTemplateVersion`, `RestoreTemplateVersion`, `InstantiateWorkspace`,
`ApplyTemplateVersion` (`planTemplateVersionApply` and `applyTemplateVersion`),
`CreateObject`, `UpdateFields`. One field code and one limit stand for all constraints:
fields of different codes do not meet in this code.

A type's chain (`Lineage`) is the least set with the type and, with a type, its parent;
the code walks it with recursive queries that stop after 32 parents, so the module assumes
33 types at most. The field in force is that of the one definer of the chain whose own
chain has all the others.

---------------------------------------------------------------------------------

## 3. The runs

Runs expected to pass:

| run | instance | what it shows |
|---|---|---|
| `ObjectRaces` | 2 threads, 2 objects, 2 fields (one required, both unique), 12 commands over 4 keys | the transactions act as if each ran alone, and what clients and subscribers are told is so |
| `RelationRaces` | 2 threads, 3 objects, 2 relations, one_to_many, 11 commands | the graph is changed as if each command ran alone; only UpdateRelation can be in a deadlock; every command ends |
| `RelationTree` | 1 thread, 4 objects, 3 relations, a hierarchy, 17 commands | in sequence, the closure is exactly the paths and no cycle is closed |
| `OutboxRelay` | 2 servers, 2 aggregates, 2 events, 1 retry, 2 losses | order, at-least-once, explained duplicates, progress |
| `ReadModel` | 2 servers, one object with one field, two histories of three commands, 1 trouble | the projection loses, reverts and forgets nothing it need not |
| `WriteSync` | 2 kernel ids, 1 new object, 1 relation, sessions of 3 edits, 1 other user | ids are replaced, synced means shown, deletions stay, every write ends |
| `ChangeSets` | 2 threads, 2 sets of 2 and 3 items on 2 objects, 7 requests over 6 keys, 1 other write | an item is written once and while its set is open; statuses and answers tell what is written |
| `Batches` | 2 threads, 2 objects, 3 batches over 2 keys | nothing twice, all or nothing, honest answers, every batch answered |
| `Templates` | 2 versions, 2 types, 3 field definitions, 1 workspace with 1 object | objects stay valid, an upgraded workspace is what a new one would be |

**ObjectRaces.** The commands are chosen to collide: creations whose unique values are
equal or taken in opposite orders (a deadlock on advisory locks), updates by object
version and by field version, a required field set to null, a value moved from one
object to another, a key used again with another payload, and the way DRAFT →
PENDING_CONFIRM → CONFIRMED raced by Archive and SoftDelete.
`CheckedStaysValid` says what the locks are for;
`LedgerSpec` that the interleaved transactions *implement the serial ledger*;
`EventsTellTheState` that the events, numbered without gap, chain into the stored state
(a lost update would break the chain); `UniqueValues` what clients rely on;
`RepliesAreHonest` that a client told
"committed" finds its payload under its key; `EveryDeliveryAnswered` that no transaction
waits forever. Two threads reach every pair of steps of two handlers; a third
adds only longer waits in line, since every lock excludes pairwise – and the safety
properties are proved for any number.

**RelationRaces.** `ValidatedHolds`: what was validated before the commit still holds (no
second parent, no relation to a deleted object).
`ActsOnGraph`: every commit is one step of `RelationGraph`, e.g. a relation
is made only between objects live *at that moment* and a cascade ends *every* relation
there is. `DecidedStaysValid`: the reads behind each decision are still true.
`OnlyUpdatesDeadlock`: objects before relations, by id, excludes deadlocks but for
UpdateRelation, which locks its relation first; `EveryCommandEnds` although it does. Three
objects and two relations are the
least in which a child can get two parents and a relation can be moved to an object
being removed.

**RelationTree.** `HierarchyKept`. Four objects and three relations give chains, branches,
regrafted subtrees and cascades in the middle of a chain. One thread, because with two the
closure is *not* the paths (`RelationCycle`, and the departures below). A path is defined
without recursion: its end is in every set that has what its start leads to and what the
members of the set lead to. `HierarchyHeld` says when the table is right for any number of
threads.

**OutboxRelay.** `MaxEvents = 2` reaches two events of one aggregate (order) and one of
each of two (independence, a full batch); `MaxRetries = 1` reaches a retry and a
quarantine; two losses reach a crash after an unconfirmed send on either server. A
quarantined event lets the later ones of its aggregate pass, and a duplicate may come
late: `NothingOvertaken` says exactly that. `LIMIT` never leaves a head out here; the
theorems hold for every `BatchSize`.

**ReadModel.** Two histories: a field changed twice around a status change, and a status
change after an update that sets the field for the first time. `MaxWaiting = 1` delays
sends without taking an order away, since the relay may send any aggregate next and
messages wait in the inboxes. `ConsumedShows` excepts two cases the code has: an event
that came before its row (see `ReadModelGap`) and a StateChanged whose version a later
ObjectUpdated had already raised (`Outrun`): `docs/05-view-model.md:60` wants old
sequences dropped, and the sequence compared is the object's, not the status's.
`NothingLost` excepts events whose *commit* failed: the registry still holds their id
and the redelivery to the same server is dropped.

**WriteSync.** The sessions put the cases side by side: two edits of an object and its
deletion; a new object edited twice before the kernel knows it; one related, and the
relation ended or an end deleted, while it is made. Every request can be refused, every
answer lost, every read fail or be old. `NewIdsAreSent` and `NoTempIsLeft` are about the
temporary ids, `SyncedIsShown` about what the user is told, `DeletedStaysGone` about late
answers, `EveryWriteEnds` about tasks that wait for the queues of two objects.
`NoTempIsLeft` and `SyncedIsShown` say which sessions they leave out; what happens in those
is among the departures. Three edits are the least in which an edit, its successor and a
task that depends on both meet. The run has one field: with two, the state is too large for
all the sessions at once. What two fields add is the write that is claimed by the value from
before it (below), which takes an edit of the other field to read a newer row with an older
value; `SyncedIsShown` is worded for any number of fields, and TLC finds it true of three edits
of two fields of one object.

**ChangeSets.** `s1` is confirmed item by item under three keys (one used twice) and
rejected, `s2` beside it, over the same two objects in the other order: the deadlocks
between sets and between reject and confirm both occur. `WrittenWhileOpen` and
`ItemsTellWhatIsWritten` watch the unlocked read of the status, `DecidedIsSettled` what
the statuses promise and that the projection is equal to them, `AnswersTellWhatIsWritten`
partial failures and replays.

**Batches.** An all_or_nothing batch writes b then a, another a then b under the key of a
partial one, which writes a twice and creates an object: crossing locks, versions that a
batch itself moves, a shared key. Both threads may send any of them at any time and as
often as they like, and fail at any point.

**Templates.** Two versions with two types reach every comparison the plan makes: a type, a
field of a parent, a redefinition, each new, relaxed or the same. A third version repeats
the comparison from another start; the workspace can already be led back to the first one.
`ObjectsStayValid` excepts types for which an upgrade put a field over an inherited one
(`narrowed`), `RuntimeIsVersion` runs in which a withdrawn version was edited.

Runs that end in a counterexample, each a statement of the repository the code does not
keep:

| run | the statement | what happens |
|---|---|---|
| `RelationCycle` | a cycle in a hierarchy is refused (contract :96) | two joins with disjoint endpoints each miss the other's closure rows |
| `ReadModelGap` | no order between aggregates may be relied upon (contract :237) | a FieldChanged before its ObjectCreated updates no row, is marked consumed, and its value never shows |
| `TemplateOverride` | a FieldChanged carries the value after the change (contract :75), no row changed is a conflict (:200) | after an upgrade put a field over an inherited one, the row is found by the field's code and written by the new field's id: nothing is stored, everything is answered and told |

The contract's line 272 says that CreateRelation and Archive lock in one order; that holds
(`OnlyUpdatesDeadlock`). The deadlock of UpdateRelation and Archive contradicts no
statement and is resolved by PostgreSQL.

### Departures

What the code does, and a reader of its contracts might not expect. The models have all
of it; the properties above are worded, or the instances chosen, around it.

*Objects.* A duplicate that looked for its key before the first delivery committed is
refused with a version conflict instead of being replayed (contract :227). 1 and 1.0 take
two advisory locks and are one jsonb value, so that two objects can get them
(`KernelRepository.java:254`). Archive of a DELETED object makes it VOID
(contract :135, `ArchiveHandler.java:64`).

*Relations.* Archiving a relation already unlinked deletes the closure rows of the one
that replaced it (ADR-004 :55, `ArchiveHandler.java:112`). A relation drawn while an
ancestor's relation is being unlinked keeps a path in `relation_closure` that is not there
any more: unlinking locks no endpoint, and `insertClosure` reads the old rows.

*Batches.* A partial batch that is known runs again and announces a second
`BatchCommitted`, where the contract has a replay (:227) next to "partial 重试只补未成功项"
(:145). A `DataAccessException` (duplicate key, deadlock) is no
`CommandRejectedException`: it ends a partial batch without a row or a `BatchCommitted`,
although its first sub-commands stay. A delivery can be told REJECTED for an item its twin
committed. Two different batches that race under one key both run: the second's row
keeps the first's `payload_hash` with its own `result_snapshot`. After a crash the retry has
a command id of its own, and the earlier sub-commands' events carry one that no row has.

*Change sets.* A set that was rejected while a confirmation ran can be REJECTED and then
CONFIRMED: `status()` reads without a lock (`AiChangeRepository.java:170`, `:201`;
`src/contracts/AI变更集契约.md:40`, `:49`). A set confirmed in part and rejected then has
REJECTED items whose change is in the kernel. A duplicate of a partial confirmation can be
answered with the result of another one. Reject (set, items) and confirm (items, set) can
deadlock, which PostgreSQL resolves.

*Browser.* When two edits of an object are both refused, the second one restores the first
one's value (`write-bridge.ts:94`; `src/docs/tasks/T-US-016-P4批3-写路径.md:19`, `:87`). A
rollback restores the whole object, and with it takes back later edits of other fields. A
refused deletion or unlinking restores temporary ids. After a temporary id was replaced,
later edits queue under the new id and no longer wait for those under the old one. The
version sent is the one shown, which the browser counts itself: after another user's write
it can be the kernel's by chance. Claimed rows are shown without looking at the refresh
generation. An edit that puts a field back to an earlier value can be claimed by the row
from before it; the next edit's row may then show what another user had written there in
between, although the kernel has the user's value. An edit that writes the value the kernel has makes no new version, is never
claimed, and ends as pending.

*Templates.* A version that puts a field over an inherited one counts as additive
(`src/contracts/元模型命令契约.md:90` next to `:91`), and objects may violate it from then
on. A redefinition without `max` passes the narrowing check, drops the limit
(`resolveEffectiveFields` does not merge) and makes every later upgrade fail.
`unique_value` is not compared. Withdrawn versions can be edited, and a restored one
publishes types that are not marked published. A field defined on a parent after the
child's is not compared with it; a new parent is not either. Fields are inserted in the
order of their types' codes, so an additive redefinition under a smaller code is refused.

### Bounds

`Commands`, `Requests`, `Sessions`, `Definitions` (what clients may send, in the MC modules),
`Threads`, `Objects`, `Relations` with `Room`, `MaxEvents`, `MaxRetries` (10 in the code,
`BatchSize` 500), `MaxLosses`, `Prefetch`, `MaxWaiting`, `MaxTroubles`, `Histories`,
`MaxOthers` (writes of others in `ChangeSets`; in `Batches` one per object, in `WriteBridge`
`OtherValues`, each once), `MaxLimit` (field limits; the next value has none) and `MaxEdits`
(definitions added to a version published before). Versions are bounded by the commands'
expected versions and one-use keys, so no other counter needs a cap. Two threads
(servers) reach every pair of steps of two handlers; a third adds longer waits in line,
since every lock excludes pairwise. `RelationCycle` uses the symmetry of its two threads.

`OutboxRelay`, `WriteSync` and the `ReadModel` runs switch deadlock checking off: their
finite work is done at the end. Everywhere else the absence of a stuck state is checked.

The largest run, `Templates`, has 1.3 million states; the others between 20 and 230
thousand.

### Fairness

* **Request threads** of the object commands take their next step (WF), clients need send
  nothing, transactions need not abort. Steps that wait for a lock have *strong* fairness:
  PostgreSQL queues waiters, so a lock freed again and again is granted in the end; with weak
  fairness a waiter could be overtaken for ever by newcomers. The deadlock detector is WF: it
  runs after `deadlock_timeout`. For relations, batches and change sets it is strong
  fairness of a thread's whole `Run`; a crash (`Abort`) need never come.
* **Relay**: WF for one server's drain as a whole (`@Scheduled` starts it again and
  again) and for the passing of a delay. Sends may fail for ever: `PublishFails` is one
  way for the step to be taken, and the retry count is what brings the event out.
  Crashes are finitely many.
* **Projection**: WF for sending, delivering and consuming per server (one listener
  thread each). Failures are bounded: with a projection that always throws a message
  goes round for ever, since there is no dead-letter queue; this is listed as a hazard.
* **Browser**: WF for each task's next step and for refreshes. Every request ends, with an
  answer or without, and the event loop runs what is ready. The kernel need not accept,
  the read model need not catch up: `Refuse` and `GiveUpClaim` are ways to end.

---------------------------------------------------------------------------------

## 4. What is proved

Assumptions: the named ASSUMEs of the modules (`ConstantsApart`, `StatusIsPresent`,
`CommandsWellFormed`, `RelationTypeValid`, `ThreadsFinite`, `AbsentApart`, `CommandsValid`,
`BoundsValid`, `ParametersValid`, `BatchesAssumption`, `ChangeSetsAssumption`,
`TemplatesAssumption`, `IdsApart`, `BridgeAssumption`, `NoneIsNoRow`), which TLC evaluates on every instance: which values
are apart from which, which fields a command of a kind has, that bounds are numbers; and, in
`BridgeAssumption`, that what is loaded is the kernel's and that the user's values (a task's
number stands for the value it writes) and those of others differ. For the
object commands `DistinctTexts` is a hypothesis of each theorem: different texts are
different jsonb values. It cannot be dropped: see 1 and 1.0 among the departures.

**The serial ledger** (`ObjectCommandsProofs`, first half). `LedgerTypeOK`,
`LedgerUniqueValues`, `LedgerHistories` (events chain into the current state),
`LedgerRequired`, `LedgerFrozen`, `LedgerMovesForward`. Each goes command by command over
lemmas that say what a command reads and writes.

**The transactions** (`ObjectCommandsProofs`), for any number of threads, objects,
fields, keys and commands. `CheckedStaysValid` alone is not inductive: a transaction
waiting for its second unique value must also know that the first is *still* free, which
holds because it holds that value's lock, because every writer of the value holds it too,
and because locks exclude. The invariant `IndInv` says this per thread (`Guarded`: which
locks a thread holds at each point; `Knows`: what it knows by them) beside types and
`LocksExclusive`. One lemma shows that a commit of one thread preserves what another
knows; the others are one per action. Then `Serializable` – `Spec => LedgerSpec` – maps
`Commit` to `Decide` and every other step to a stutter, and `TablesCorrect`,
`TablesUnique` and `TablesTold` carry the ledger's theorems over to the transactions.
`LocksExclusive`, `RequiredPresent`, `ArchivedFieldsFrozen` and `StatusMovesForward` are
proved and need no run of their own. `HonestReplies`: who is told committed has its payload
in the command log; an answer is given with the row or read from it, and rows never change.

**The relation graph** (`RelationCommandsProofs`, second part). `GraphStaysWell`: one row
per id, no two parents, no doubled relation, no edge to a deleted object.

**The relation commands** (`RelationCommandsProofs`), for any number of threads, objects,
relations and commands. Theorems `RelationTypeOK`, `RelationsValidated`, `RelationsDecided`,
`OnlyUpdates`, `RelationsActOnGraph`. The invariant rests on three rules the handlers
follow: a relation becomes active, or moves to other ends, only under the locks of both
ends; an object changes only under its own lock; a row that exists changes only under the
relation's lock. It says, per thread, which of these locks it holds at each point
(`EndpointsHeld`, `ObjectHeld`) and what therefore stays as it was read (`RowRead`, `Fitting`,
`Cascading`). A cascade is complete although its rows were found by a snapshot, since no
relation can be attached to an object that is locked. `RelationsActOnGraph` then maps each
commit to a step of the abstract graph, and every other step to a stutter. `OnlyUpdates`:
all commands but UpdateRelation lock upwards, objects by id and then relations by id
(`Ordered`), so that each waits for a lock above all it holds; of finitely many threads that
wait for each other, one waits for a lock above which no other waits, but whoever holds that
lock does. UpdateRelation locks a relation before objects.

**The hierarchy** (`RelationCommandsProofs`, third part). `HierarchyHeld`: the closure table is
the paths through the active relations, and free of cycles, for any number of threads,
objects, relations and commands, under two hypotheses. `OneReader`: no two transactions
that have read the closure table – `validateCycle` has looked for a path, `deleteClosure` has
run – are under way at once; locking, validating and waiting may interleave as they like.
`EndsActive`: a relation that has ended is not ended once more. The code enforces neither;
without the first there is `RelationCycle`, without the second the departure of section 3 on
archived relations. So the theorem says what a repair has to bring about: commands on one
hierarchy must take turns from their first look at the closure table on, and a relation's
removal must leave the table alone unless the relation was active.
The argument is about graphs (`Closes`): the closure is the *least* transitive relation over
the edges, and has no object above itself. Such a relation is the paths (`ClosesIsPaths`,
from sets closed under edges, without induction); adding an edge adds the pairs above and
below it (`ClosesGraft`: `insertClosure`), if the ends are not joined the other way; and taking
an edge away takes exactly these pairs away (`ClosesCut`: `deleteClosure`). The last holds
only where no object has two parents, where all that is above an object is one chain
(`Chain`): it rests on `OneParent`, hence on the endpoint locks and on `DefineRelationType`
admitting a hierarchy only with one_to_many. The invariant `HierInv` says that a transaction
sees the closure of the edges whose closure rows it has not deleted (`Tree`, `Gone`): a cascade
cuts one edge after the other, an update cuts one and grafts one.

**The relay** (`OutboxRelayProofs`), for any number of servers, aggregates, events,
retries and losses. Theorems `RelayTypeOK`, `OrderKept`, `NothingLost`,
`DuplicatesHaveCauses`. The invariant
adds: an aggregate's sequence numbers grow along the outbox; locked events are held by
one drain, pending and heads; an event in a drain, or still in the hand of a server that lost its
session, is one before which everything is settled; what a drain has marked PUBLISHED was
sent. Being settled cannot be undone, since nothing becomes PENDING again and new events
come last: that is why a late send of a detached server overtakes nothing.
`DuplicatesHaveCauses` balances accounts (`Bounded`): the sends of an event, and the sends a
detached server may still make of it, are paid for by the row (each retry counted in it and
its PUBLISHED mark pay for one) and by losses, each of which pays for a mark rolled back or
a late send.

**The projection** (`ReadModelProofs`), for any number of servers, fields, repeats and
failures and any history of the object. Theorems `ProjectionTypeOK`, `AtLeastOnce`,
`RowMovesForward`, `NoLostUpdate`. `AtLeastOnce` needs to know what a server's registry
holds: events consumed, events whose commit failed, and the one in hand – that is why
`processed.remove` on failure and the loss of the registry in a crash matter.
`RowMovesForward` needs that one server at a time has an uncommitted row and that this
row is above the committed one. `NoLostUpdate` (`ConsumedShows`) needs in addition that
messages are genuine (their kind is that of the command which wrote their version) and
that the row's version is its status's version or was raised past it by an
ObjectUpdated: a StateChanged that is not above the row's version is then either shown
or `Outrun`, never just dropped.

**The batches** (`BatchesProofs`), for any number of threads, batches, keys and objects.
Theorems `BatchTypeOK`, `WritesOnce`, `WholeOrNothing`, `HonestAnswers`. What a batch has
written and not committed is not in the tables yet, and the keys of these rows are locked
by it alone (`Written`): so nobody else can write them before its commit, and the commit
counts each once – `NothingTwice` compares versions with the *number* of rows, so the
proof counts the rows a commit adds. Each sub-command a batch was told to be committed is
in the tables or among those rows (`Told`), and rows never leave: that makes an answer
true at the commit and keeps it true (`Logged`, `Accepted`).

**The change sets** (`ChangeSetsProofs`), for any number of threads, sets, items, objects
and commands. Theorems `ChangeSetTypeOK`, `ItemsHonest`, `StatusesSettled`,
`AnswersHonest`, `OnlyWhileOpen`. The status of a set is read without a lock, so nothing
that was read there may be relied upon at the commit. What protects an item is the lock on
the rows of its set: a confirmation reads them again under that lock, and `Picked` says
that the items it has still to do or has done are PROPOSED in the tables until its commit,
because whoever decides an item holds that lock (`Decides`, `OthersKeep`). A PROPOSED item
has never been written and belongs to a set that is neither new, nor CONFIRMED, nor
REJECTED: that gives `ItemsHonest` and `OnlyWhileOpen`. What an answer, the command log or
`latest` tells of an item is about one that is decided (`Told`), and no step makes it
PROPOSED again, so it stays true.

**The write bridge** (`WriteBridgeProofs`), for any number of objects, relations, fields and
values and any sessions. Theorems `WriteBridgeTypeOK`, `NewIdsSent`, `TempsAreGone`,
`DeletionsLast`, `SyncedShown`: all its safety properties. None is inductive; the invariant `WInv`
has four parts beside the types.
*Ids* (`IdInv`): a task that names a temporary id comes after the one task that creates the
object, and either queues under that id, behind it, or the id is known to the map. So whatever
is sent was resolved after the creation ended, and a temporary id is left over only where
the creation failed; from the moment it is known nothing is shown under it.
*Relations* (`LinkInv`): a relation of the kernel's, on the screen or kept by a task for a
rollback, has kernel ids at its ends; and no shown relation leads to a temporary id that is
known, unless a refused deletion or unlinking has put something back.
*Deletions* (`DeleteInv`): a deletion that has not failed is the only one of its object and hides
it; an object comes to the screen only by a creation, a claim or a rollback of a task that
names it, and each of these looks whether it is still there.
*What is shown* (`ShowInv`), for loaded objects no relation was drawn to and whose writes have
gone well so far: the queue lets one write of the object run at a time; a claimed row holds
the value that was written, has a version above the one that was expected and is the latest
that was read; and so it has, for each earlier write of a *new* value, a state of the kernel
not older than that write. The two exceptions of `SyncedIsShown` are where this argument
stops: a value the field had before says nothing of when it was read, and a refresh of a
related object shows whatever the read model has.

**The templates** (`TemplatesProofs`), for any number of versions, any types (33 at most)
and any fields and limits. Theorems `TemplatesTypeOK`, `TypesAreTrees`, `ObjectsValid`,
`RuntimeMatches`. The chain of a type is a least closed set, so everything said of chains
(two types of one chain are one above the other; a chain with the same parents is the same;
where no type is above itself the definer in force is unique) is proved from closed sets
without induction. The invariant `TInv` adds to the properties that nothing is above itself
(`NoCycles`) – a new parent is checked not to be below, an upgrade puts no old type under a
new one – and that the version a workspace is at has all its types, and its fields with their
constraints (`Embeds`). This is what makes a plan that compares *versions* say something of
the *workspace*: a field in force there is kept and relaxed, a new field of a type the
workspace has is not required, and one that comes into the chain of an object's type is
either above the field in force or recorded in `narrowed`. `RuntimeMatches` needs in addition
that, as long as nothing withdrawn is edited, every type of a released version is marked
published, so that equal rows are copied (`Settled`).

**Only model-checked.** Liveness and everything with fairness (`EveryDeliveryAnswered`,
`EveryCommandEnds`, `EveryEventLeaves`, `EveryEventConsumed`, `EveryWriteEnds`,
`EveryCommandAnswered`, `EveryBatchAnswered`) is outside what the prover
handles. Every other property of a passing run is proved; `HierarchyKept` under the two
hypotheses of `HierarchyHeld`, of which the run `RelationTree` checks the case of one thread and
commands that end no relation twice.

---------------------------------------------------------------------------------

## 5. Not modelled

Of the modelled parts:

* *Objects*: field types and constraints other than required and unique, references to
  objects (validated against an unlocked row), permissions, pre-commit rules: refusals
  only. History and audit rows. Other types and workspaces.
* *Relations*: relation fields, history, events, the command log (as for objects).
* *Relay*: event payloads, the durations of backoffs, manual
  repair of quarantined rows.
* *Read model*: relations, attachments, annotations, history rows, deletion of fields;
  events the relay quarantined and never sends; the growth of the registry.
* *Batches*: what a sub-command does beyond one version and one write, and relations as its
  targets; events of sub-commands.
* *Change sets*: what items say, confidence and evidence; the rules' verdicts are a set of
  blocked objects that others change.
* *Browser*: views, slots, field references and undo, which stay in the browser; loading
  and paging; several sessions of one user, which are other users to each other.
* *Templates*: value types, relation types, `ApplyProfile`, a workspace's own types (one
  with the code of a later version's type is taken over by `ensureRuntimeObjectType`),
  unique values. Metamodel commands are one step each: the handlers lock nothing, so a
  definition can commit after the publication it missed, two new parents can close a circle
  of types, a plan can be stale when it is applied, and a copy can take types and fields from
  different moments. None of this is in the model, and its properties claim nothing of it.

Not modelled at all, besides what the table in section 1 gives as reason: check runs,
review annotations, the template lifecycle on the server, transformations, imports and
assemblies are sequences of the modelled commands with a status of their own, and come next;
the engines (simulation, exchange, rules) and the view components compute or render, most
of them on floating-point numbers, text or markup; two thirds of the implementation's
lines are of these kinds, so that the models cover a small part of the lines and most of
the state that is shared.

## 6. Plan

Done: `ObjectLedger` and `ObjectCommands`; `RelationGraph` and `RelationCommands`;
`OutboxRelay`; `ReadModel`; `Batches`; `ChangeSets`; `WorkspaceStore` and `WriteBridge`;
`Templates`; proofs of all their safety properties.

In the order of importance:

1. **Metamodel commands that run at once**: definitions against publication, two new
   parents, stale plans.
2. **Composition** kernel → outbox → broker → read model for one object: a settled
   system's read model is the master, but for the events named in section 3.
3. **Relations in the read model**, relation fields, history rows.
4. **Template lifecycle on the server, review annotations, check runs**: state machines
   with optimistic versions; two actors and a stale read each.
5. **Pure algorithms**: derived-field evaluation order, diff, rule scoping, against
   reference definitions over bounded inputs.
