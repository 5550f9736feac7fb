---------------------------- MODULE OutboxRelay ----------------------------
(***************************************************************************)
(* The relay that carries committed events from event_outbox to RabbitMQ:  *)
(* one scheduled drain per server, each a transaction of its own that      *)
(* locks the first pending event of some aggregates, sends them one after  *)
(* the other and commits what became of them.  Servers crash and lose      *)
(* their database session at any point, sends fail with the message        *)
(* delivered or not.                                                       *)
(*                                                                         *)
(* An event is its position in created_at order.  The two queues a message *)
(* goes to are one queue here.                                             *)
(***************************************************************************)
EXTENDS Integers, Sequences, FiniteSets

CONSTANTS
  Aggregates,   \* aggregate_type and aggregate_id
  Relays,       \* servers
  BatchSize,    \* BATCH_SIZE
  MaxRetries,   \* MAX_RETRIES
  MaxEvents,    \* bound: events emitted
  MaxLosses     \* bound: crashes and lost sessions

ASSUME BoundsValid ==
  /\ BatchSize \in Nat \ {0} /\ MaxRetries \in Nat
  /\ MaxEvents \in Nat /\ MaxLosses \in Nat

VARIABLES
  version,   \* the version of each aggregate's own row
  outbox,    \* the committed rows of event_outbox
  broker,    \* the messages the queue took, in order
  drain,     \* the drain each server is in
  backoff,   \* retryAfter of each server: the events it leaves alone for now
  losses     \* transactions lost so far

vars == << version, outbox, broker, drain, backoff, losses >>

Status == {"PENDING", "PUBLISHED", "QUARANTINED"}

Row == [agg : Aggregates, seq : Nat \ {0}, status : Status, retries : Nat]

(* What the transaction has made of an event it locked.                    *)
Outcome == [status : Status, retries : Nat]

PCs == {"idle", "draining", "detached"}

(* held: the rows locked; todo: those not yet sent.                        *)
Drain ==
  [pc : PCs, todo : SUBSET (1 .. MaxEvents), held : SUBSET (1 .. MaxEvents),
   row : [1 .. MaxEvents -> Outcome]]

NoOutcome == [e \in 1 .. MaxEvents |-> [status |-> "PENDING", retries |-> 0]]

Idle == [pc |-> "idle", todo |-> {}, held |-> {}, row |-> NoOutcome]

Events == DOMAIN outbox

Init ==
  /\ version = [a \in Aggregates |-> 0]
  /\ outbox = << >>
  /\ broker = << >>
  /\ drain = [r \in Relays |-> Idle]
  /\ backoff = [r \in Relays |-> {}]
  /\ losses = 0

-----------------------------------------------------------------------------
(***************************************************************************)
(* A command commits: it inserts the event of the aggregate's new version. *)
(* The lock on the aggregate's row orders the versions as they commit.     *)
(***************************************************************************)
Emit(a) ==
  /\ Len(outbox) < MaxEvents
  /\ version' = [version EXCEPT ![a] = @ + 1]
  /\ outbox' = Append(outbox,
       [agg |-> a, seq |-> version[a] + 1, status |-> "PENDING", retries |-> 0])
  /\ UNCHANGED << broker, drain, backoff, losses >>

Pending == {e \in Events : outbox[e].status = "PENDING"}

Before(d, e) == outbox[d].agg = outbox[e].agg /\ outbox[d].seq < outbox[e].seq

(* Mutant of Heads: NOT EXISTS is dropped.                                 *)
AllPending == Pending

(* Pending, with no earlier pending event of the aggregate.                *)
Heads == {e \in Pending : ~\E d \in Pending : Before(d, e)}

(* Mutant of Unlocked: FOR UPDATE SKIP LOCKED is dropped.                  *)
AnyRow(r, e) == TRUE

Unlocked(r, e) == \A q \in Relays \ {r} : e \notin drain[q].held

(***************************************************************************)
(* pending(): the first BATCH_SIZE heads nobody else has locked, and the   *)
(* locks on them.                                                          *)
(***************************************************************************)
Select(r, batch) ==
  LET free == {e \in Heads : Unlocked(r, e)} IN
  /\ drain[r].pc = "idle"
  /\ batch # {} /\ batch \subseteq free
  /\ Cardinality(batch) <= BatchSize
  /\ batch # free => Cardinality(batch) = BatchSize
  /\ \A e \in batch, d \in free \ batch : e < d
  /\ drain' = [drain EXCEPT ![r] =
       [pc |-> "draining", todo |-> batch, held |-> batch,
        row |-> [e \in 1 .. MaxEvents |->
                   IF e \in batch
                   THEN [status |-> outbox[e].status, retries |-> outbox[e].retries]
                   ELSE NoOutcome[e]]]]
  /\ UNCHANGED << version, outbox, broker, backoff, losses >>

(* The event whose turn it is in the loop.                                 *)
Turn(r, e) == e \in drain[r].todo /\ \A d \in drain[r].todo : e <= d

(* The event is in backoff: it stays as it was.                            *)
Skip(r, e) ==
  /\ drain[r].pc = "draining" /\ Turn(r, e)
  /\ e \in backoff[r]
  /\ drain' = [drain EXCEPT ![r].todo = @ \ {e}]
  /\ UNCHANGED << version, outbox, broker, backoff, losses >>

(* The broker confirms the message: markPublished.                         *)
Publish(r, e) ==
  /\ drain[r].pc = "draining" /\ Turn(r, e)
  /\ e \notin backoff[r]
  /\ broker' = Append(broker, e)
  /\ drain' = [drain EXCEPT ![r].todo = @ \ {e}, ![r].row[e].status = "PUBLISHED"]
  /\ UNCHANGED << version, outbox, backoff, losses >>

(* The message arrived or did not, but no confirm came back.               *)
MayArrive(e) == broker' = Append(broker, e) \/ UNCHANGED broker

(* Mutant of PublishFails: the missing confirm goes unnoticed.             *)
PublishUnconfirmed(r, e) ==
  /\ drain[r].pc = "draining" /\ Turn(r, e)
  /\ e \notin backoff[r]
  /\ MayArrive(e)
  /\ drain' = [drain EXCEPT ![r].todo = @ \ {e}, ![r].row[e].status = "PUBLISHED"]
  /\ UNCHANGED << version, outbox, backoff, losses >>

(* Mutant of PublishFails: retry_count stays as it is.                     *)
PublishFailsUncounted(r, e) ==
  /\ drain[r].pc = "draining" /\ Turn(r, e)
  /\ e \notin backoff[r]
  /\ MayArrive(e)
  /\ drain' = [drain EXCEPT ![r].todo = @ \ {e}]
  /\ backoff' = [backoff EXCEPT ![r] = @ \cup {e}]
  /\ UNCHANGED << version, outbox, losses >>

(***************************************************************************)
(* markFailed: retry later, or give the event up.  The backoff is the      *)
(* server's own and takes effect at once.                                  *)
(***************************************************************************)
PublishFails(r, e) ==
  LET n == drain[r].row[e].retries + 1 IN
  /\ drain[r].pc = "draining" /\ Turn(r, e)
  /\ e \notin backoff[r]
  /\ MayArrive(e)
  /\ drain' = [drain EXCEPT ![r].todo = @ \ {e},
       ![r].row[e] = [status |-> IF n > MaxRetries THEN "QUARANTINED" ELSE "PENDING",
                      retries |-> n]]
  /\ backoff' = [backoff EXCEPT ![r] = IF n > MaxRetries THEN @ ELSE @ \cup {e}]
  /\ UNCHANGED << version, outbox, losses >>

(* The loop is over and the transaction commits.                           *)
Commit(r) ==
  /\ drain[r].pc = "draining" /\ drain[r].todo = {}
  /\ outbox' = [e \in Events |->
       IF e \in drain[r].held
       THEN [outbox[e] EXCEPT !.status = drain[r].row[e].status,
                              !.retries = drain[r].row[e].retries]
       ELSE outbox[e]]
  /\ drain' = [drain EXCEPT ![r] = Idle]
  /\ UNCHANGED << version, broker, backoff, losses >>

(* The delay of an event on a server has passed.                           *)
BackoffEnds(r, e) ==
  /\ e \in backoff[r]
  /\ backoff' = [backoff EXCEPT ![r] = @ \ {e}]
  /\ UNCHANGED << version, outbox, broker, drain, losses >>

-----------------------------------------------------------------------------
(* The server dies: its transaction is rolled back, its memory is lost.    *)
Crash(r) ==
  /\ losses < MaxLosses
  /\ drain' = [drain EXCEPT ![r] = Idle]
  /\ backoff' = [backoff EXCEPT ![r] = {}]
  /\ losses' = losses + 1
  /\ UNCHANGED << version, outbox, broker >>

(* A statement or the commit fails: the server keeps its backoffs.         *)
Rollback(r) ==
  /\ losses < MaxLosses
  /\ drain[r].pc = "draining"
  /\ drain' = [drain EXCEPT ![r] = Idle]
  /\ losses' = losses + 1
  /\ UNCHANGED << version, outbox, broker, backoff >>

(***************************************************************************)
(* The server loses its database session, and its locks with it, without   *)
(* noticing: it goes on to send the next event of its batch.               *)
(***************************************************************************)
Detach(r, e) ==
  /\ losses < MaxLosses
  /\ drain[r].pc = "draining" /\ Turn(r, e)
  /\ e \notin backoff[r]
  /\ drain' = [drain EXCEPT ![r] = [Idle EXCEPT !.pc = "detached", !.todo = {e}]]
  /\ losses' = losses + 1
  /\ UNCHANGED << version, outbox, broker, backoff >>

(* The message is sent or fails; then markPublished and markFailed throw.  *)
SendDetached(r, e) ==
  /\ drain[r].pc = "detached" /\ e \in drain[r].todo
  /\ MayArrive(e)
  /\ drain' = [drain EXCEPT ![r] = Idle]
  /\ UNCHANGED << version, outbox, backoff, losses >>

-----------------------------------------------------------------------------
Step(r) ==
  \/ \E batch \in SUBSET Heads : Select(r, batch)
  \/ \E e \in Events :
       Skip(r, e) \/ Publish(r, e) \/ PublishFails(r, e) \/ SendDetached(r, e)
  \/ Commit(r)

Next ==
  \/ \E a \in Aggregates : Emit(a)
  \/ \E r \in Relays :
       \/ Step(r)
       \/ Crash(r)
       \/ Rollback(r)
       \/ \E e \in Events : Detach(r, e) \/ BackoffEnds(r, e)

Spec == Init /\ [][Next]_vars

-----------------------------------------------------------------------------
(* The rows, the drains and the queue are of their type.                   *)
TypeOK ==
  /\ version \in [Aggregates -> Nat]
  /\ outbox \in Seq(Row) /\ Len(outbox) <= MaxEvents
  /\ broker \in Seq(Events)
  /\ drain \in [Relays -> Drain]
  /\ \A r \in Relays : drain[r].todo \cup drain[r].held \cup backoff[r] \subseteq Events
  /\ backoff \in [Relays -> SUBSET (1 .. MaxEvents)]
  /\ losses \in 0 .. MaxLosses

SentBy(k, e) == \E i \in 1 .. k : broker[i] = e

(***************************************************************************)
(* Order within an aggregate: whenever a message is taken, the earlier     *)
(* events of its aggregate have all been taken before it, or were given up *)
(* by the relay.  Duplicates may come late, a first delivery never.        *)
(***************************************************************************)
NothingOvertaken ==
  \A k \in DOMAIN broker : \A d \in Events :
    Before(d, broker[k]) => SentBy(k - 1, d) \/ outbox[d].status = "QUARANTINED"

(* An event marked PUBLISHED was taken by the broker: none is lost.        *)
PublishedWasSent ==
  \A e \in Events : outbox[e].status = "PUBLISHED" => SentBy(Len(broker), e)

(* What is known of e, in the transaction that holds it or in the table.   *)
Known(e) ==
  IF \E r \in Relays : e \in drain[r].held
  THEN drain[CHOOSE r \in Relays : e \in drain[r].held].row[e]
  ELSE [status |-> outbox[e].status, retries |-> outbox[e].retries]

(***************************************************************************)
(* Duplicates have a cause: an event is sent once, and once more for each  *)
(* failed attempt on record and each transaction lost.  Two relays at work *)
(* at once are no cause.                                                   *)
(***************************************************************************)
DuplicatesExplained ==
  \A e \in Events :
    Cardinality({k \in DOMAIN broker : broker[k] = e})
      <= Known(e).retries + losses + IF Known(e).status = "PUBLISHED" THEN 1 ELSE 0

-----------------------------------------------------------------------------
(***************************************************************************)
(* Progress: the scheduler drains again and again on every server and the  *)
(* delays pass.  Sends may fail forever, servers crash finitely often.     *)
(***************************************************************************)
Fairness ==
  \A r \in Relays :
    /\ WF_vars(Step(r))
    /\ WF_vars(\E e \in Events : BackoffEnds(r, e))

FairSpec == Spec /\ Fairness

(***************************************************************************)
(* Every event leaves the outbox, published or given up: none is held back *)
(* forever by others, by retries or by a server that died with it.         *)
(***************************************************************************)
EveryEventLeaves ==
  \A e \in 1 .. MaxEvents :
    e \in Events /\ outbox[e].status = "PENDING"
      ~> e \in Events /\ outbox[e].status # "PENDING"

=============================================================================
