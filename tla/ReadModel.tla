----------------------------- MODULE ReadModel -----------------------------
(***************************************************************************)
(* The projection of one object's events into rm_object.  The kernel       *)
(* commits events of two kinds of aggregates, the object and each of its   *)
(* fields; the relay sends every aggregate's events in order, with repeats *)
(* (OutboxRelay: NothingOvertaken); RabbitMQ hands the messages of one     *)
(* queue to the servers, which project them in transactions of their own   *)
(* and skip what rm_consumed_event or their own memory has seen.           *)
(*                                                                         *)
(* A status or a field's value is named by the version that wrote it, 0    *)
(* where nothing did.                                                      *)
(***************************************************************************)
EXTENDS Integers, Sequences, FiniteSets

CONSTANTS
  Servers,            \* consumers of readmodel.events
  Fields,             \* field_def codes
  Object,             \* names the object's own aggregate
  Histories,          \* what the kernel may commit to the object
  Prefetch,           \* messages a consumer holds at once
  MaxWaiting,         \* bound: messages in the queue when the relay sends
  MaxTroubles         \* bound: messages sent again, failures and crashes

(***************************************************************************)
(* A history is a sequence of commands: each raises the object's version,  *)
(* and the version of each field it writes, and commits one event of the   *)
(* object and one per field.  The first is CreateObject, the others are    *)
(* UpdateFields, or a ChangeState, Archive or SoftDelete.                  *)
(***************************************************************************)
Command ==
  [kind : {"ObjectCreated", "ObjectUpdated"}, written : SUBSET Fields]
    \cup [kind : {"StateChanged"}, written : {{}}]

WellFormed(h) ==
  /\ h \in Seq(Command)
  /\ \A v \in DOMAIN h :
       /\ (h[v].kind = "ObjectCreated") = (v = 1)
       /\ h[v].kind = "ObjectUpdated" => h[v].written # {}

ASSUME ParametersValid ==
  /\ Object \notin Fields
  /\ \A h \in Histories : WellFormed(h)
  /\ Prefetch \in Nat \ {0} /\ MaxWaiting \in Nat \ {0}
  /\ MaxTroubles \in Nat

Aggregates == Fields \cup {Object}

Kinds == {"ObjectCreated", "ObjectUpdated", "StateChanged", "FieldChanged"}

Event == [agg : Aggregates, seq : Nat \ {0}, kind : Kinds]

Row == [version : Nat, status : Nat, fields : [Fields -> Nat]]

NoRow == [version |-> 0, status |-> 0, fields |-> [f \in Fields |-> 0]]

VARIABLES
  commands,   \* what the kernel commits to the object, in order
  sent,       \* how many events of each aggregate the relay has sent
  queue,      \* readmodel.events
  inbox,      \* the messages each consumer has been handed
  tx,         \* the transaction of apply each consumer is in
  registry,   \* IdempotentConsumerRegistry.processed of each server
  consumed,   \* rm_consumed_event
  row,        \* rm_object
  missed,     \* history: consumed events that found no row to update
  uncommitted, \* history: events whose commit failed
  troubles    \* counted for their bound

delivery == << queue, inbox >>
tables == << consumed, row, missed >>
counts == << troubles, uncommitted >>
vars == << commands, sent, delivery, tx, registry, tables, counts >>

PCs == {"idle", "checked", "projected", "done"}

(* found: the statement found a row; write: the row it writes, or NoRow.   *)
Tx == [pc : PCs, found : BOOLEAN, write : Row]

Idle == [pc |-> "idle", found |-> FALSE, write |-> NoRow]

-----------------------------------------------------------------------------
(***************************************************************************)
(* The kernel's part.  Since nothing here reads what the kernel holds, a   *)
(* behaviour has all its commands from the start and the relay sends their *)
(* events when it likes.                                                   *)
(***************************************************************************)

(* The commands that bring an event of the aggregate.                      *)
Changes(a) == {v \in DOMAIN commands : a = Object \/ a \in commands[v].written}

(* The n-th event of the aggregate.                                        *)
EventOf(a, n) ==
  [agg |-> a, seq |-> n, kind |-> IF a = Object THEN commands[n].kind ELSE "FieldChanged"]

Count(a) == Cardinality(Changes(a))

(* The object as the commands leave it.                                    *)
Master ==
  [version |-> Len(commands), fields |-> [f \in Fields |-> Count(f)],
   status |-> CHOOSE v \in 0 .. Len(commands) :
     /\ v > 0 => commands[v].kind # "ObjectUpdated"
     /\ \A w \in DOMAIN commands : w > v => commands[w].kind = "ObjectUpdated"]

Init ==
  /\ commands \in Histories
  /\ sent = [a \in Aggregates |-> 0]
  /\ queue = << >> /\ inbox = [s \in Servers |-> << >>]
  /\ tx = [s \in Servers |-> Idle]
  /\ registry = [s \in Servers |-> {}]
  /\ consumed = {} /\ row = NoRow /\ missed = {}
  /\ troubles = 0 /\ uncommitted = {}

-----------------------------------------------------------------------------
(* The relay and the broker.                                               *)

Send(a) ==
  /\ sent[a] < Count(a) /\ Len(queue) < MaxWaiting
  /\ sent' = [sent EXCEPT ![a] = @ + 1]
  /\ queue' = Append(queue, EventOf(a, sent[a] + 1))
  /\ UNCHANGED << commands, inbox, tx, registry, tables, counts >>

Resend(a, i) ==
  /\ troubles < MaxTroubles /\ Len(queue) < MaxWaiting
  /\ queue' = Append(queue, EventOf(a, i))
  /\ troubles' = troubles + 1
  /\ UNCHANGED << commands, sent, inbox, tx, registry, tables, uncommitted >>

Deliver(s) ==
  /\ queue # << >> /\ Len(inbox[s]) < Prefetch
  /\ inbox' = [inbox EXCEPT ![s] = Append(@, Head(queue))]
  /\ queue' = Tail(queue)
  /\ UNCHANGED << commands, sent, tx, registry, tables, counts >>

-----------------------------------------------------------------------------
(* apply(event), one message after the other on each server.               *)

Current(s) == Head(inbox[s])

(* Projected by some server, or taken up before by this one.               *)
Seen(s, e) == e \in consumed \cup registry[s]

(* Skipped and acknowledged.                                               *)
Skip(s) ==
  /\ tx[s].pc = "idle" /\ inbox[s] # << >>
  /\ Seen(s, Current(s))
  /\ inbox' = [inbox EXCEPT ![s] = Tail(@)]
  /\ UNCHANGED << commands, sent, queue, tx, registry, tables, counts >>

(* dispatch: processed.add, then the check of the table once more.         *)
Take(s) ==
  /\ tx[s].pc = "idle" /\ inbox[s] # << >>
  /\ ~Seen(s, Current(s))
  /\ registry' = [registry EXCEPT ![s] = @ \cup {Current(s)}]
  /\ tx' = [tx EXCEPT ![s].pc = "checked"]
  /\ UNCHANGED << commands, sent, delivery, tables, counts >>

(* Mutant of Matches: a field's event is compared with the object's version. *)
MatchesByObject(e) ==
  CASE e.kind = "ObjectCreated" -> row = NoRow
    [] e.kind = "ObjectUpdated" -> row # NoRow
    [] OTHER                    -> row # NoRow /\ row.version < e.seq

(* Does the event's statement write a row?                                 *)
Matches(e) ==
  CASE e.kind = "ObjectCreated" -> row = NoRow
    [] e.kind = "FieldChanged"  -> row # NoRow /\ row.fields[e.agg] < e.seq
    [] e.kind = "StateChanged"  -> row # NoRow /\ row.version < e.seq
    [] OTHER                    -> row # NoRow

(* Mutant of Written: bumpObjectVersion without GREATEST.                  *)
WrittenAsIs(e) ==
  IF e.kind = "FieldChanged" THEN [row EXCEPT !.fields[e.agg] = e.seq]
  ELSE IF e.kind = "ObjectUpdated" THEN [row EXCEPT !.version = e.seq]
  ELSE [row EXCEPT !.version = e.seq, !.status = e.seq]

(* The row it writes.                                                      *)
Written(e) ==
  CASE e.kind = "FieldChanged"  -> [row EXCEPT !.fields[e.agg] = e.seq]
    [] e.kind = "ObjectUpdated" -> [row EXCEPT !.version = IF @ < e.seq THEN e.seq ELSE @]
    [] OTHER                    -> [row EXCEPT !.version = e.seq, !.status = e.seq]

(* Another transaction has written the row and not committed.              *)
RowLocked(s) == \E q \in Servers \ {s} : tx[q].write # NoRow

(***************************************************************************)
(* The statement runs on the committed row.  One that matches waits for a  *)
(* transaction that has the row locked or is inserting it; an UPDATE that  *)
(* finds no row waits for nobody.                                          *)
(***************************************************************************)
Project(s) ==
  LET e == Current(s) IN
  /\ tx[s].pc = "checked"
  /\ Matches(e) => ~RowLocked(s)
  /\ tx' = [tx EXCEPT ![s] =
       [pc |-> "projected", found |-> row # NoRow,
        write |-> IF Matches(e) THEN Written(e) ELSE NoRow]]
  /\ UNCHANGED << commands, sent, delivery, registry, tables, counts >>

(* The row and markConsumed commit together.                               *)
CommitApply(s) ==
  /\ tx[s].pc = "projected"
  /\ row' = IF tx[s].write = NoRow THEN row ELSE tx[s].write
  /\ consumed' = consumed \cup {Current(s)}
  /\ missed' = IF tx[s].found \/ Current(s).kind = "ObjectCreated" THEN missed
               ELSE missed \cup {Current(s)}
  /\ tx' = [tx EXCEPT ![s] = [Idle EXCEPT !.pc = "done"]]
  /\ UNCHANGED << commands, sent, delivery, registry, counts >>

Ack(s) ==
  /\ tx[s].pc = "done"
  /\ inbox' = [inbox EXCEPT ![s] = Tail(@)]
  /\ tx' = [tx EXCEPT ![s] = Idle]
  /\ UNCHANGED << commands, sent, queue, registry, tables, counts >>

-----------------------------------------------------------------------------
(* The listener throws: the message goes back to the head of the queue,    *)
(* those already handed out stay where they are.                           *)
Requeue(s) ==
  /\ queue' = << Current(s) >> \o queue
  /\ inbox' = [inbox EXCEPT ![s] = Tail(@)]
  /\ tx' = [tx EXCEPT ![s] = Idle]

(* Mutant of Fail: processed.remove is left out.                           *)
FailRemembered(s) ==
  /\ tx[s].pc \in {"checked", "projected"} /\ troubles < MaxTroubles
  /\ Requeue(s)
  /\ troubles' = troubles + 1
  /\ UNCHANGED << commands, sent, registry, tables, uncommitted >>

(* A statement of the projection fails: processed.remove, rollback.        *)
Fail(s) ==
  /\ tx[s].pc \in {"checked", "projected"} /\ troubles < MaxTroubles
  /\ Requeue(s)
  /\ registry' = [registry EXCEPT ![s] = @ \ {Current(s)}]
  /\ troubles' = troubles + 1
  /\ UNCHANGED << commands, sent, tables, uncommitted >>

(* The commit fails: dispatch has returned, the registry keeps the event.  *)
CommitFails(s) ==
  /\ tx[s].pc = "projected" /\ troubles < MaxTroubles
  /\ Requeue(s)
  /\ uncommitted' = uncommitted \cup {Current(s)}
  /\ troubles' = troubles + 1
  /\ UNCHANGED << commands, sent, registry, tables >>

(* The server dies: its messages go back, its memory is lost.              *)
Crash(s) ==
  /\ troubles < MaxTroubles
  /\ queue' = inbox[s] \o queue
  /\ inbox' = [inbox EXCEPT ![s] = << >>]
  /\ tx' = [tx EXCEPT ![s] = Idle]
  /\ registry' = [registry EXCEPT ![s] = {}]
  /\ troubles' = troubles + 1
  /\ UNCHANGED << commands, sent, tables, uncommitted >>

-----------------------------------------------------------------------------
Consume(s) == Skip(s) \/ Take(s) \/ Project(s) \/ CommitApply(s) \/ Ack(s)

Next ==
  \/ \E a \in Aggregates : Send(a) \/ \E i \in 1 .. sent[a] : Resend(a, i)
  \/ \E s \in Servers :
       Deliver(s) \/ Consume(s) \/ Fail(s) \/ CommitFails(s) \/ Crash(s)

Spec == Init /\ [][Next]_vars

-----------------------------------------------------------------------------
(* What is kept is of its type; a transaction handles a message.           *)
TypeOK ==
  /\ commands \in Histories /\ row \in Row
  /\ sent \in [Aggregates -> Nat] /\ \A a \in Aggregates : sent[a] <= Count(a)
  /\ queue \in Seq(Event) /\ inbox \in [Servers -> Seq(Event)]
  /\ tx \in [Servers -> Tx]
  /\ \A s \in Servers : tx[s].pc # "idle" => inbox[s] # << >>
  /\ registry \in [Servers -> SUBSET Event]
  /\ consumed \subseteq Event /\ missed \subseteq Event /\ uncommitted \subseteq Event
  /\ troubles \in 0 .. MaxTroubles

(* The event is waiting in the queue or handed out to a server.            *)
Underway(e) ==
  \/ \E i \in DOMAIN queue : queue[i] = e
  \/ \E s \in Servers : \E i \in DOMAIN inbox[s] : inbox[s][i] = e

(***************************************************************************)
(* At least once: an event the queue took is waiting, handed out or        *)
(* projected, through failures, crashes and repeats, except one whose      *)
(* commit failed.                                                          *)
(***************************************************************************)
NothingLost ==
  \A a \in Aggregates : \A n \in 1 .. sent[a] :
    EventOf(a, n) \in consumed \cup uncommitted \/ Underway(EventOf(a, n))

(* The row shows the event's change or a later one.                        *)
Shown(e) ==
  CASE e.kind = "FieldChanged"  -> row.fields[e.agg] >= e.seq
    [] e.kind = "ObjectUpdated" -> row.version >= e.seq
    [] OTHER                    -> row.status >= e.seq /\ row.version >= e.seq

(* A later ObjectUpdated raised the row's version past the status change.  *)
Outrun(e) ==
  e.kind = "StateChanged" /\ row.version > e.seq
  /\ commands[row.version].kind = "ObjectUpdated"

(***************************************************************************)
(* No lost update: what is marked consumed shows in the row, whatever the  *)
(* servers do at the same time, unless it came before the row or a version *)
(* raised by ObjectUpdated overtook it.                                    *)
(***************************************************************************)
ConsumedShows == \A e \in consumed : Shown(e) \/ e \in missed \/ Outrun(e)

(* Repeats and late messages never set the row back to an older state.     *)
RowNeverGoesBack ==
  [][ /\ row.version <= row'.version /\ row.status <= row'.status
      /\ \A f \in Fields : row.fields[f] <= row'.fields[f] ]_row

Settled ==
  /\ \A a \in Aggregates : sent[a] = Count(a)
  /\ queue = << >> /\ \A s \in Servers : inbox[s] = << >>

(***************************************************************************)
(* What the contract wants of a subscriber: events of different aggregates *)
(* may come in any order, and when all are consumed the row is the object. *)
(***************************************************************************)
CaughtUp == Settled => row = Master

-----------------------------------------------------------------------------
(* The relay drains, the broker delivers, the listeners consume.           *)
Fairness ==
  /\ \A a \in Aggregates : WF_vars(Send(a))
  /\ \A s \in Servers : WF_vars(Deliver(s)) /\ WF_vars(Consume(s))

FairSpec == Spec /\ Fairness

(* Every event gets consumed, but for those whose commit failed.           *)
EveryEventConsumed ==
  <>(\A a \in Aggregates : \A n \in 1 .. Count(a) :
       EventOf(a, n) \in consumed \cup uncommitted)

=============================================================================
