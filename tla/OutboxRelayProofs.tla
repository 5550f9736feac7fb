------------------------- MODULE OutboxRelayProofs -------------------------
(***************************************************************************)
(* First deliveries keep the order of each aggregate and no event marked   *)
(* PUBLISHED is lost, for any number of events, servers and failures.      *)
(*                                                                         *)
(* The argument: an event is locked only when every earlier event of its   *)
(* aggregate has left PENDING, which it never enters again, and no later   *)
(* command inserts an earlier event; what left PENDING as PUBLISHED was    *)
(* sent.  The locks keep two servers from overwriting each other's marks.  *)
(***************************************************************************)
EXTENDS OutboxRelay, FiniteSetTheorems, TLAPS

(* An aggregate's events are no newer than its row.                        *)
Numbered == \A e \in Events : outbox[e].seq <= version[outbox[e].agg]

(* Every earlier event of e's aggregate has left PENDING.                  *)
Cleared(e) == \A d \in Events : Before(d, e) => outbox[d].status # "PENDING"

(***************************************************************************)
(* Only a drain holds rows.  They are locked by it alone, still PENDING in *)
(* the table, and first of their aggregates; what it has marked PUBLISHED  *)
(* it has sent.                                                            *)
(***************************************************************************)
HeldByDrain(r) ==
  /\ drain[r].pc # "draining" => drain[r].held = {}
  /\ drain[r].pc = "draining" => drain[r].todo \subseteq drain[r].held
  /\ drain[r].held \subseteq Events
  /\ \A e \in drain[r].held :
       /\ outbox[e].status = "PENDING" /\ Cleared(e)
       /\ drain[r].row[e].status = "PUBLISHED" => SentBy(Len(broker), e)
       /\ \A q \in Relays \ {r} : e \notin drain[q].held

(* The event a server without its session is about to send.                *)
SentLate(r) ==
  drain[r].pc = "detached" => \A e \in drain[r].todo : e \in Events /\ Cleared(e)

Inv ==
  /\ TypeOK
  /\ Numbered
  /\ \A r \in Relays : HeldByDrain(r) /\ SentLate(r)
  /\ PublishedWasSent
  /\ NothingOvertaken

-----------------------------------------------------------------------------
(* Appending to the queue keeps every message where it was.                *)
LEMMA QueueGrows ==
  ASSUME TypeOK, NEW e \in Events, broker' = Append(broker, e)
  PROVE  /\ broker' \in Seq(Events)
         /\ Len(broker') = Len(broker) + 1
         /\ broker'[Len(broker) + 1] = e
         /\ \A k \in 1 .. Len(broker) : broker'[k] = broker[k]
         /\ \A k \in 0 .. Len(broker), d \in Nat :
              SentBy(k, d) => \E i \in 1 .. k : broker'[i] = d
<1>1. e \in Nat
  BY DEF TypeOK, Events
<1>2. /\ broker' \in Seq(Events)
      /\ Len(broker') = Len(broker) + 1
      /\ broker'[Len(broker) + 1] = e
      /\ \A k \in 1 .. Len(broker) : broker'[k] = broker[k]
  BY <1>1 DEF TypeOK
<1>3. \A k \in 0 .. Len(broker), d \in Nat :
        SentBy(k, d) => \E i \in 1 .. k : broker'[i] = d
  BY <1>2 DEF SentBy, TypeOK
<1> QED
  BY <1>2, <1>3

(* A cleared event may be sent: all earlier ones were, or are quarantined. *)
LEMMA SendKeeps ==
  ASSUME Inv, NEW e \in Events, Cleared(e), MayArrive(e), UNCHANGED << version, outbox >>
  PROVE  /\ broker' \in Seq(Events)
         /\ \A d \in Events : SentBy(Len(broker), d) => SentBy(Len(broker), d)'
         /\ PublishedWasSent' /\ NothingOvertaken'
<1>1. CASE UNCHANGED broker
  BY <1>1 DEF Inv, TypeOK, SentBy, PublishedWasSent, NothingOvertaken, Events, Before
<1>2. CASE broker' = Append(broker, e)
  <2>0. Events \subseteq Nat /\ Events' = Events /\ Len(broker) \in Nat
    BY DEF Inv, TypeOK, Events
  <2>1. /\ broker' \in Seq(Events)
        /\ Len(broker') = Len(broker) + 1
        /\ broker'[Len(broker) + 1] = e
        /\ \A k \in 1 .. Len(broker) : broker'[k] = broker[k]
        /\ \A k \in 0 .. Len(broker), d \in Nat :
             SentBy(k, d) => \E i \in 1 .. k : broker'[i] = d
    BY <1>2, QueueGrows DEF Inv
  <2>2. \A d \in Events : SentBy(Len(broker), d) => SentBy(Len(broker), d)'
    BY <2>0, <2>1 DEF SentBy
  <2>3. PublishedWasSent'
    BY <2>0, <2>2 DEF Inv, PublishedWasSent
  <2>4. ASSUME NEW k \in DOMAIN broker', NEW d \in Events, Before(d, broker'[k])
        PROVE  SentBy(k - 1, d)' \/ outbox'[d].status = "QUARANTINED"
    <3>1. k \in 1 .. Len(broker) + 1
      BY <2>0, <2>1, <2>4
    <3>2. CASE k = Len(broker) + 1
      <4>1. Before(d, e)
        BY <2>1, <2>4, <3>2 DEF Before
      <4>2. outbox[d].status # "PENDING" /\ outbox[d] \in Row
        BY <4>1 DEF Cleared, Inv, TypeOK, Events
      <4>3. outbox[d].status = "PUBLISHED" => SentBy(Len(broker), d)
        BY DEF Inv, PublishedWasSent
      <4>4. SentBy(Len(broker), d) => SentBy(k - 1, d)'
        BY <2>0, <2>1, <3>2 DEF SentBy
      <4> QED
        BY <4>2, <4>3, <4>4 DEF Row, Status
    <3>3. CASE k \in 1 .. Len(broker)
      <4>1. k \in DOMAIN broker /\ k - 1 \in 0 .. Len(broker)
        BY <3>3, <2>0 DEF Inv, TypeOK
      <4>2. Before(d, broker[k])
        BY <2>1, <2>4, <3>3 DEF Before
      <4>3. SentBy(k - 1, d) \/ outbox[d].status = "QUARANTINED"
        BY <4>1, <4>2 DEF Inv, NothingOvertaken
      <4>4. SentBy(k - 1, d) => SentBy(k - 1, d)'
        BY <2>0, <2>1, <4>1 DEF SentBy
      <4> QED
        BY <4>3, <4>4
    <3> QED
      BY <3>1, <3>2, <3>3, <2>0
  <2>5. NothingOvertaken'
    BY <2>0, <2>4 DEF NothingOvertaken, Before
  <2> QED
    BY <2>1, <2>2, <2>3, <2>5
<1> QED
  BY <1>1, <1>2 DEF MayArrive

-----------------------------------------------------------------------------
(* A new event is the latest of its aggregate: it stands before no other.  *)
LEMMA EmitKeeps == ASSUME Inv, NEW a \in Aggregates, Emit(a) PROVE Inv'
<1> DEFINE n == Len(outbox) + 1
<1> DEFINE Then(d, e) == outbox'[d].agg = outbox'[e].agg /\ outbox'[d].seq < outbox'[e].seq
<1> DEFINE new == [agg |-> a, seq |-> version[a] + 1, status |-> "PENDING", retries |-> 0]
<1>1. /\ version' = [version EXCEPT ![a] = @ + 1] /\ outbox' = Append(outbox, new)
      /\ UNCHANGED << broker, drain, backoff, losses >>
  BY DEF Emit
<1>2. version[a] \in Nat /\ new \in Row /\ new.status = "PENDING" /\ new.agg = a
      /\ new.seq = version[a] + 1
  BY DEF Inv, TypeOK, Row, Status
<1> HIDE DEF new
<1>3. /\ outbox' \in Seq(Row) /\ Events = 1 .. Len(outbox) /\ Len(outbox) \in Nat
      /\ Events' = Events \cup {n} /\ n \notin Events
      /\ outbox'[n] = new /\ \A e \in Events : outbox'[e] = outbox[e]
  BY <1>1, <1>2 DEF Inv, TypeOK, Events
<1>4. TypeOK'
  <2>1. version' \in [Aggregates -> Nat]
    BY <1>1, <1>2 DEF Inv, TypeOK
  <2>2. Len(outbox') <= MaxEvents /\ MaxEvents \in Nat
    <3>1. Len(outbox) < MaxEvents
      BY DEF Emit
    <3>2. Len(outbox') = Len(outbox) + 1
      BY <1>1, <1>2 DEF Inv, TypeOK
    <3> QED BY <3>1, <3>2, <1>3, BoundsValid
  <2>3. broker' \in Seq(Events')
    <3>1. broker \in Seq(Events) /\ Events \subseteq Events'
      BY <1>3 DEF Inv, TypeOK
    <3> HIDE DEF n
    <3> QED BY <3>1, <1>1
  <2>4. \A r \in Relays : drain[r].todo \cup drain[r].held \cup backoff[r] \subseteq Events'
    BY <1>3 DEF Inv, TypeOK
  <2> QED
    BY <2>1, <2>2, <2>3, <2>4, <1>1, <1>3 DEF Inv, TypeOK
<1>5. \A e \in Events : outbox[e] \in Row
  BY DEF Inv, TypeOK, Events
<1>6. Numbered'
  <2> SUFFICES ASSUME NEW e \in Events' PROVE outbox'[e].seq <= version'[outbox'[e].agg]
    BY DEF Numbered
  <2>1. CASE e = n
    BY <2>1, <1>1, <1>2, <1>3 DEF Inv, TypeOK
  <2>2. CASE e \in Events
    <3>1. outbox[e].agg \in Aggregates /\ outbox[e].seq \in Nat
          /\ outbox[e].seq <= version[outbox[e].agg] /\ version[outbox[e].agg] \in Nat
      BY <2>2, <1>5 DEF Inv, TypeOK, Numbered, Row
    <3>2. version'[outbox[e].agg] \in {version[outbox[e].agg], version[outbox[e].agg] + 1}
      BY <3>1, <1>1 DEF Inv, TypeOK
    <3> QED
      BY <2>2, <3>1, <3>2, <1>3
  <2> QED BY <2>1, <2>2, <1>3
<1>7. \A e \in Events : ~Then(n, e)
  <2> TAKE e \in Events
  <2>1. outbox[e].agg = a => outbox[e].seq <= version[a] /\ outbox[e].seq \in Nat
    BY <1>5 DEF Inv, Numbered, Row
  <2> QED
    BY <2>1, <1>2, <1>3
<1>8. \A e \in Events, d \in Events : Then(d, e) <=> Before(d, e)
  BY <1>3 DEF Before
<1>9. \A e \in Events : Cleared(e) => Cleared(e)'
  <2> SUFFICES ASSUME NEW e \in Events, Cleared(e), NEW d \in Events', Then(d, e)
               PROVE  outbox'[d].status # "PENDING"
    BY DEF Cleared, Before
  <2> QED
    BY <1>3, <1>7, <1>8 DEF Cleared
<1>10. \A k, d : SentBy(k, d)' <=> SentBy(k, d)
  BY <1>1 DEF SentBy
<1>11. ASSUME NEW r \in Relays PROVE HeldByDrain(r)' /\ SentLate(r)'
  <2>1. HeldByDrain(r) /\ SentLate(r)
    BY DEF Inv
  <2>2. HeldByDrain(r)'
    BY <2>1, <1>1, <1>3, <1>9 DEF HeldByDrain, SentBy
  <2>3. SentLate(r)'
    BY <2>1, <1>1, <1>3, <1>9 DEF SentLate
  <2> QED BY <2>2, <2>3
<1>12. PublishedWasSent'
  <2>1. Len(broker') = Len(broker)
    BY <1>1
  <2> QED
    BY <2>1, <1>2, <1>3, <1>10 DEF Inv, PublishedWasSent
<1>13. NothingOvertaken'
  <2> SUFFICES ASSUME NEW k \in DOMAIN broker, NEW d \in Events', Then(d, broker[k])
               PROVE  SentBy(k - 1, d)' \/ outbox'[d].status = "QUARANTINED"
    BY <1>1 DEF NothingOvertaken, Before
  <2>1. broker[k] \in Events
    BY DEF Inv, TypeOK
  <2>2. d \in Events
    BY <2>1, <1>3, <1>7
  <2>3. Before(d, broker[k])
    BY <2>1, <2>2, <1>8
  <2> QED
    BY <2>2, <2>3, <1>3, <1>10 DEF Inv, NothingOvertaken
<1> QED
  BY <1>4, <1>6, <1>11, <1>12, <1>13 DEF Inv

-----------------------------------------------------------------------------
(* Steps that leave the table as it is keep what is cleared.               *)
LEMMA TableStays ==
  ASSUME UNCHANGED outbox
  PROVE  Events' = Events /\ \A e : Cleared(e)' <=> Cleared(e)
BY DEF Events, Cleared, Before

(***************************************************************************)
(* What each step of a server must show: its new drain d is in order, and  *)
(* the queue and the table agree with what was sent.                       *)
(***************************************************************************)
LEMMA DrainStep ==
  ASSUME Inv, NEW r \in Relays, NEW d \in Drain,
         drain' = [drain EXCEPT ![r] = d], UNCHANGED << version, outbox >>,
         backoff' \in [Relays -> SUBSET Events], losses' \in 0 .. MaxLosses,
         broker' \in Seq(Events), PublishedWasSent', NothingOvertaken',
         \A e \in Events : SentBy(Len(broker), e) => SentBy(Len(broker), e)',
         d.todo \subseteq Events, d.held \subseteq Events,
         d.pc # "draining" => d.held = {},
         d.pc = "draining" => d.todo \subseteq d.held,
         d.pc = "detached" => \A e \in d.todo : Cleared(e),
         \A e \in d.held :
           /\ outbox[e].status = "PENDING" /\ Cleared(e)
           /\ d.row[e].status = "PUBLISHED" => SentBy(Len(broker), e)'
           /\ \A q \in Relays \ {r} : e \notin drain[q].held
  PROVE  Inv'
<1>1. Events' = Events /\ \A e : Cleared(e)' <=> Cleared(e)
  BY TableStays
<1>2. drain' \in [Relays -> Drain] /\ drain'[r] = d
      /\ \A q \in Relays \ {r} : drain'[q] = drain[q]
  BY DEF Inv, TypeOK
<1>3. Events \subseteq 1 .. MaxEvents
  BY BoundsValid DEF Inv, TypeOK, Events
<1>4. TypeOK'
  <2>1. \A q \in Relays : drain'[q].todo \cup drain'[q].held \cup backoff'[q] \subseteq Events'
    BY <1>1, <1>2 DEF Inv, TypeOK
  <2>2. backoff' \in [Relays -> SUBSET (1 .. MaxEvents)]
    BY <1>3
  <2> QED
    BY <2>1, <2>2, <1>1, <1>2 DEF Inv, TypeOK
<1>5. Numbered'
  BY <1>1 DEF Inv, Numbered
<1>6. ASSUME NEW q \in Relays PROVE HeldByDrain(q)'
  <2>1. CASE q = r
    <3>1. \A e \in d.held, p \in Relays \ {r} : e \notin drain'[p].held
      BY <1>2
    <3> QED
      BY <2>1, <3>1, <1>1, <1>2 DEF HeldByDrain
  <2>2. CASE q # r
    <3>1. HeldByDrain(q) /\ drain'[q] = drain[q]
      BY <2>2, <1>2 DEF Inv
    <3>2. ASSUME NEW e \in drain[q].held, NEW p \in Relays \ {q} PROVE e \notin drain'[p].held
      <4>1. e \notin d.held
        BY <2>2
      <4>2. e \notin drain[p].held
        BY <3>1 DEF HeldByDrain
      <4> QED
        BY <4>1, <4>2, <1>2
    <3>3. \A e \in drain[q].held : e \in Events
      BY <3>1 DEF HeldByDrain
    <3> QED
      BY <3>1, <3>2, <3>3, <1>1 DEF HeldByDrain
  <2> QED BY <2>1, <2>2
<1>7. ASSUME NEW q \in Relays PROVE SentLate(q)'
  <2>1. SentLate(q)
    BY DEF Inv
  <2> QED
    BY <2>1, <1>1, <1>2 DEF SentLate
<1> QED
  BY <1>4, <1>5, <1>6, <1>7 DEF Inv

(* Nothing sent: the queue and the table stay as they are.                 *)
LEMMA Quiet ==
  ASSUME Inv, UNCHANGED << version, outbox, broker >>
  PROVE  /\ broker' \in Seq(Events) /\ PublishedWasSent' /\ NothingOvertaken'
         /\ \A e \in Events : SentBy(Len(broker), e) => SentBy(Len(broker), e)'
BY DEF Inv, TypeOK, PublishedWasSent, NothingOvertaken, SentBy, Events, Before

(* What the invariant says of the event whose turn it is.                  *)
LEMMA TurnIsHeld ==
  ASSUME Inv, NEW r \in Relays, NEW e \in Events, drain[r].pc = "draining", Turn(r, e)
  PROVE  /\ e \in drain[r].held /\ Cleared(e) /\ e \in 1 .. MaxEvents
         /\ drain[r] \in Drain /\ drain[r].row[e] \in Outcome
<1>1. HeldByDrain(r) /\ drain[r] \in Drain /\ e \in drain[r].todo
  BY DEF Inv, TypeOK, Turn
<1>2. e \in 1 .. MaxEvents
  BY <1>1 DEF Drain
<1> QED
  BY <1>1, <1>2 DEF HeldByDrain, Drain

(* A server at rest is of the type of a drain.                             *)
LEMMA IdleIsDrain ==
  /\ Idle \in Drain /\ NoOutcome \in [1 .. MaxEvents -> Outcome]
  /\ Idle.pc = "idle" /\ Idle.todo = {} /\ Idle.held = {}
BY DEF Idle, Drain, PCs, NoOutcome, Outcome, Status

-----------------------------------------------------------------------------
(* What is selected is cleared, pending and locked by nobody else.         *)
LEMMA SelectKeeps ==
  ASSUME Inv, NEW r \in Relays, NEW batch \in SUBSET Heads, Select(r, batch)
  PROVE  Inv'
<1> DEFINE rows == [e \in 1 .. MaxEvents |->
                      IF e \in batch
                      THEN [status |-> outbox[e].status, retries |-> outbox[e].retries]
                      ELSE NoOutcome[e]]
<1> DEFINE d == [pc |-> "draining", todo |-> batch, held |-> batch, row |-> rows]
<1>1. batch \subseteq Events /\ Events \subseteq 1 .. MaxEvents
  BY BoundsValid DEF Heads, Pending, Inv, TypeOK, Events
<1>2. rows \in [1 .. MaxEvents -> Outcome]
  <2>1. \A e \in batch : outbox[e] \in Row
    BY <1>1 DEF Inv, TypeOK, Events
  <2> QED
    BY <2>1, IdleIsDrain DEF Outcome, Row
<1>3. \A e \in batch : rows[e].status = outbox[e].status
  BY <1>1
<1> HIDE DEF rows
<1>4. d \in Drain
  BY <1>1, <1>2 DEF Drain, PCs
<1>5. drain' = [drain EXCEPT ![r] = d] /\ UNCHANGED << version, outbox, broker, backoff, losses >>
  BY DEF Select, rows
<1>6. \A e \in batch :
        /\ outbox[e].status = "PENDING" /\ Cleared(e)
        /\ \A q \in Relays \ {r} : e \notin drain[q].held
  BY DEF Select, Heads, Pending, Cleared, Unlocked
<1>7. /\ d.pc = "draining" /\ d.todo = batch /\ d.held = batch /\ d.row = rows
  OBVIOUS
<1> HIDE DEF d
<1>8. backoff' \in [Relays -> SUBSET Events] /\ losses' \in 0 .. MaxLosses
  BY <1>5 DEF Inv, TypeOK
<1>9. /\ broker' \in Seq(Events) /\ PublishedWasSent' /\ NothingOvertaken'
      /\ \A e \in Events : SentBy(Len(broker), e) => SentBy(Len(broker), e)'
  BY <1>5, Quiet
<1>10. \A e \in d.held :
         /\ outbox[e].status = "PENDING" /\ Cleared(e)
         /\ d.row[e].status = "PUBLISHED" => SentBy(Len(broker), e)'
         /\ \A q \in Relays \ {r} : e \notin drain[q].held
  BY <1>3, <1>6, <1>7
<1>11. d.todo \subseteq Events /\ d.held \subseteq Events /\ d.todo \subseteq d.held
       /\ d.pc # "detached"
  BY <1>1, <1>7
<1> QED
  BY <1>4, <1>5, <1>7, <1>8, <1>9, <1>10, <1>11, DrainStep

(***************************************************************************)
(* Steps in the loop drop e from todo and may change what is noted of it;  *)
(* the rows held stay the same.                                            *)
(***************************************************************************)
LEMMA LoopStep ==
  ASSUME Inv, NEW r \in Relays, NEW e \in Events, NEW o \in Outcome,
         drain[r].pc = "draining", Turn(r, e),
         drain' = [drain EXCEPT ![r].todo = @ \ {e}, ![r].row[e] = o],
         UNCHANGED << version, outbox, losses >>,
         backoff' \in [Relays -> SUBSET Events],
         broker' \in Seq(Events), PublishedWasSent', NothingOvertaken',
         \A d \in Events : SentBy(Len(broker), d) => SentBy(Len(broker), d)',
         o.status = "PUBLISHED" => SentBy(Len(broker), e)'
  PROVE  Inv'
<1> DEFINE d == [drain[r] EXCEPT !.todo = @ \ {e}, !.row[e] = o]
<1>1. HeldByDrain(r) /\ drain[r] \in Drain
  BY DEF Inv, TypeOK
<1>2. e \in 1 .. MaxEvents
  BY TurnIsHeld
<1>3. drain' = [drain EXCEPT ![r] = d]
  BY DEF Inv, TypeOK
<1>4. /\ d.pc = "draining" /\ d.todo = drain[r].todo \ {e} /\ d.held = drain[r].held
      /\ d.row = [drain[r].row EXCEPT ![e] = o] /\ d \in Drain
  BY <1>1, <1>2 DEF Drain
<1> HIDE DEF d
<1>5. \A f \in d.held :
        /\ outbox[f].status = "PENDING" /\ Cleared(f) /\ f \in Events
        /\ \A q \in Relays \ {r} : f \notin drain[q].held
  BY <1>1, <1>4 DEF HeldByDrain
<1>6. ASSUME NEW f \in d.held, d.row[f].status = "PUBLISHED" PROVE SentBy(Len(broker), f)'
  <2>1. CASE f = e
    BY <2>1, <1>1, <1>2, <1>4, <1>6 DEF Drain
  <2>2. CASE f # e
    <3>1. drain[r].row[f].status = "PUBLISHED"
      <4>1. f \in 1 .. MaxEvents
        BY <1>4 DEF Drain
      <4> QED
        BY <2>2, <1>1, <1>4, <1>6, <4>1 DEF Drain
    <3>2. SentBy(Len(broker), f)
      BY <3>1, <1>1, <1>4 DEF HeldByDrain
    <3> QED
      BY <3>2, <1>5
  <2> QED BY <2>1, <2>2
<1>7. d.todo \subseteq d.held /\ d.held \subseteq Events
  BY <1>1, <1>4 DEF HeldByDrain
<1>8. losses' \in 0 .. MaxLosses
  BY DEF Inv, TypeOK
<1> QED
  BY <1>3, <1>4, <1>5, <1>6, <1>7, <1>8, DrainStep

(* An event left alone keeps what is noted of it.                          *)
LEMMA SkipKeeps ==
  ASSUME Inv, NEW r \in Relays, NEW e \in Events, Skip(r, e) PROVE Inv'
<1> DEFINE o == drain[r].row[e]
<1>1. o \in Outcome /\ HeldByDrain(r) /\ e \in drain[r].held
  BY TurnIsHeld DEF Skip, Inv
<1>2. drain' = [drain EXCEPT ![r].todo = @ \ {e}, ![r].row[e] = o]
  <2>1. drain[r] \in Drain /\ e \in 1 .. MaxEvents
    BY TurnIsHeld DEF Skip
  <2>2. [drain[r].row EXCEPT ![e] = o] = drain[r].row
    BY <2>1 DEF Drain
  <2> QED
    BY <2>1, <2>2 DEF Skip, Drain
<1>3. o.status = "PUBLISHED" => SentBy(Len(broker), e)
  BY <1>1 DEF HeldByDrain
<1> HIDE DEF o
<1>4. backoff' \in [Relays -> SUBSET Events]
  BY DEF Skip, Inv, TypeOK
<1> QED
  BY <1>1, <1>2, <1>3, <1>4, Quiet, LoopStep DEF Skip

(* An event marked PUBLISHED has just been taken by the queue.             *)
LEMMA PublishKeeps ==
  ASSUME Inv, NEW r \in Relays, NEW e \in Events, Publish(r, e) PROVE Inv'
<1> DEFINE o == [drain[r].row[e] EXCEPT !.status = "PUBLISHED"]
<1>1. Cleared(e) /\ drain[r] \in Drain /\ drain[r].row[e] \in Outcome
  BY TurnIsHeld DEF Publish
<1>2. o \in Outcome
  BY <1>1 DEF Outcome, Status
<1>3. drain' = [drain EXCEPT ![r].todo = @ \ {e}, ![r].row[e] = o]
  BY <1>1 DEF Publish, Drain
<1> HIDE DEF o
<1>4. MayArrive(e) /\ UNCHANGED << version, outbox, losses >>
  BY DEF Publish, MayArrive
<1>5. SentBy(Len(broker), e)'
  BY QueueGrows DEF Publish, Inv, SentBy, TypeOK
<1>6. backoff' \in [Relays -> SUBSET Events]
  BY DEF Publish, Inv, TypeOK
<1> QED
  BY <1>1, <1>2, <1>3, <1>4, <1>5, <1>6, SendKeeps, LoopStep DEF Publish

(* A failed send is never marked PUBLISHED, arrived or not.                *)
LEMMA PublishFailsKeeps ==
  ASSUME Inv, NEW r \in Relays, NEW e \in Events, PublishFails(r, e) PROVE Inv'
<1> DEFINE n == drain[r].row[e].retries + 1
<1> DEFINE o == [status |-> IF n > MaxRetries THEN "QUARANTINED" ELSE "PENDING", retries |-> n]
<1>1. Cleared(e) /\ drain[r].row[e] \in Outcome
  BY TurnIsHeld DEF PublishFails
<1>2. o \in Outcome /\ o.status # "PUBLISHED"
  BY <1>1 DEF Outcome, Status
<1>3. drain' = [drain EXCEPT ![r].todo = @ \ {e}, ![r].row[e] = o]
  BY DEF PublishFails
<1> HIDE DEF o
<1>4. MayArrive(e) /\ UNCHANGED << version, outbox, losses >>
  BY DEF PublishFails
<1>5. backoff' \in [Relays -> SUBSET Events]
  <2>1. backoff' \in {backoff, [backoff EXCEPT ![r] = @ \cup {e}]}
    BY DEF PublishFails, Inv, TypeOK
  <2> QED
    BY <2>1 DEF Inv, TypeOK
<1> QED
  BY <1>1, <1>2, <1>3, <1>4, <1>5, SendKeeps, LoopStep DEF PublishFails

(***************************************************************************)
(* A server that drops its transaction holds nothing any more; whatever it *)
(* is left to send is cleared.                                             *)
(***************************************************************************)
LEMMA DropKeeps ==
  ASSUME Inv, NEW r \in Relays, NEW d \in Drain,
         d.pc # "draining", d.held = {}, d.todo \subseteq Events,
         \A e \in d.todo : Cleared(e),
         drain' = [drain EXCEPT ![r] = d], UNCHANGED << version, outbox >>,
         backoff' \in [Relays -> SUBSET Events], losses' \in 0 .. MaxLosses,
         broker' \in Seq(Events), PublishedWasSent', NothingOvertaken',
         \A e \in Events : SentBy(Len(broker), e) => SentBy(Len(broker), e)'
  PROVE  Inv'
<1>1. \A e \in d.held :
        /\ outbox[e].status = "PENDING" /\ Cleared(e)
        /\ d.row[e].status = "PUBLISHED" => SentBy(Len(broker), e)'
        /\ \A q \in Relays \ {r} : e \notin drain[q].held
  OBVIOUS
<1>2. d.held \subseteq Events
  OBVIOUS
<1> QED
  BY <1>1, <1>2, DrainStep

(* Losing the transaction, or the session, keeps the invariant.            *)
LEMMA LossKeeps ==
  ASSUME Inv, NEW r \in Relays,
         Crash(r) \/ Rollback(r) \/ \E e \in Events : Detach(r, e)
  PROVE  Inv'
<1>1. losses < MaxLosses => losses + 1 \in 0 .. MaxLosses
  BY BoundsValid DEF Inv, TypeOK
<1>2. \A q \in Relays : backoff[q] \subseteq Events
  BY DEF Inv, TypeOK
<1>3. \A e \in Events : e \in 1 .. MaxEvents
  BY BoundsValid DEF Inv, TypeOK, Events
<1>4. UNCHANGED << version, outbox, broker >> /\ losses < MaxLosses /\ losses' = losses + 1
  BY DEF Crash, Rollback, Detach
<1>5. losses' \in 0 .. MaxLosses
  BY <1>1, <1>4
<1>6. backoff' \in [Relays -> SUBSET Events]
  BY <1>2 DEF Crash, Rollback, Detach, Inv, TypeOK
<1>7. /\ broker' \in Seq(Events) /\ PublishedWasSent' /\ NothingOvertaken'
      /\ \A e \in Events : SentBy(Len(broker), e) => SentBy(Len(broker), e)'
  BY <1>4, Quiet
<1>8. CASE Crash(r) \/ Rollback(r)
  <2>1. drain' = [drain EXCEPT ![r] = Idle]
    BY <1>8 DEF Crash, Rollback
  <2> QED
    BY <1>4, <1>5, <1>6, <1>7, <2>1, IdleIsDrain, DropKeeps
<1>9. ASSUME NEW e \in Events, Detach(r, e) PROVE Inv'
  <2>1. Cleared(e)
    BY <1>9, TurnIsHeld DEF Detach
  <2> DEFINE d == [Idle EXCEPT !.pc = "detached", !.todo = {e}]
  <2>2. drain' = [drain EXCEPT ![r] = d]
    BY <1>9 DEF Detach
  <2>3. d \in Drain /\ d.pc = "detached" /\ d.todo = {e} /\ d.held = {}
    BY <1>3, IdleIsDrain DEF Idle, Drain, PCs
  <2> HIDE DEF d
  <2>4. d.todo \subseteq Events /\ \A f \in d.todo : Cleared(f)
    BY <2>1, <2>3
  <2> QED
    BY <1>4, <1>5, <1>6, <1>7, <2>2, <2>3, <2>4, DropKeeps
<1> QED
  BY <1>8, <1>9

(* A send after the session is lost is of a cleared event.                 *)
LEMMA SendDetachedKeeps ==
  ASSUME Inv, NEW r \in Relays, NEW e \in Events, SendDetached(r, e) PROVE Inv'
<1>1. Cleared(e)
  BY DEF SendDetached, Inv, SentLate
<1>2. backoff' \in [Relays -> SUBSET Events] /\ losses' \in 0 .. MaxLosses
  BY DEF SendDetached, Inv, TypeOK
<1>3. MayArrive(e) /\ UNCHANGED << version, outbox >>
  BY DEF SendDetached
<1>4. /\ broker' \in Seq(Events) /\ PublishedWasSent' /\ NothingOvertaken'
      /\ \A d \in Events : SentBy(Len(broker), d) => SentBy(Len(broker), d)'
  BY <1>1, <1>3, SendKeeps
<1>5. drain' = [drain EXCEPT ![r] = Idle]
  BY DEF SendDetached
<1> QED
  BY <1>2, <1>3, <1>4, <1>5, IdleIsDrain, DropKeeps

(* A delay that passes touches no row and no drain.                        *)
LEMMA BackoffEndsKeeps ==
  ASSUME Inv, NEW r \in Relays, NEW e \in Events, BackoffEnds(r, e) PROVE Inv'
<1>1. UNCHANGED << version, outbox, broker, drain, losses >>
  BY DEF BackoffEnds
<1>2. TypeOK'
  BY <1>1 DEF BackoffEnds, Inv, TypeOK, Events
<1> QED
  BY <1>1, <1>2 DEF Inv, Numbered, HeldByDrain, SentLate, PublishedWasSent,
       NothingOvertaken, SentBy, Cleared, Before, Events

(***************************************************************************)
(* A commit writes its marks to the rows it holds: nothing goes back to    *)
(* PENDING, and a row marked PUBLISHED was sent.                           *)
(***************************************************************************)
LEMMA CommitKeeps ==
  ASSUME Inv, NEW r \in Relays, Commit(r) PROVE Inv'
<1> DEFINE W(e) == [outbox[e] EXCEPT !.status = drain[r].row[e].status,
                                     !.retries = drain[r].row[e].retries]
<1>1. /\ outbox' = [e \in Events |-> IF e \in drain[r].held THEN W(e) ELSE outbox[e]]
      /\ drain' = [drain EXCEPT ![r] = Idle]
      /\ UNCHANGED << version, broker, backoff, losses >>
  BY DEF Commit
<1>2. HeldByDrain(r) /\ drain[r] \in Drain
  BY DEF Inv, TypeOK
<1>3. Events = 1 .. Len(outbox) /\ Len(outbox) \in Nat /\ \A e \in Events : outbox[e] \in Row
  BY DEF Inv, TypeOK, Events
<1>4. ASSUME NEW e \in Events
      PROVE  /\ outbox'[e] \in Row
             /\ outbox'[e].agg = outbox[e].agg /\ outbox'[e].seq = outbox[e].seq
             /\ e \notin drain[r].held => outbox'[e] = outbox[e]
             /\ e \in drain[r].held => outbox'[e].status = drain[r].row[e].status
             /\ outbox[e].status # "PENDING" => outbox'[e].status = outbox[e].status
  <2>1. CASE e \notin drain[r].held
    BY <1>1, <1>3, <2>1
  <2>2. CASE e \in drain[r].held
    <3>1. drain[r].row[e] \in Outcome
      BY <1>2, <2>2 DEF Drain
    <3>2. outbox'[e] = W(e)
      BY <1>1, <2>2
    <3>3. /\ W(e) \in Row /\ W(e).agg = outbox[e].agg /\ W(e).seq = outbox[e].seq
          /\ W(e).status = drain[r].row[e].status
      BY <1>3, <3>1 DEF Row, Outcome
    <3>4. outbox[e].status = "PENDING"
      BY <1>2, <2>2 DEF HeldByDrain
    <3> QED
      BY <2>2, <3>2, <3>3, <3>4
  <2> QED BY <2>1, <2>2
<1>5. Events' = Events /\ outbox' \in Seq(Row) /\ Len(outbox') = Len(outbox)
  <2>1. outbox' = [e \in 1 .. Len(outbox) |-> outbox'[e]]
    BY <1>1, <1>3
  <2>2. outbox' \in [1 .. Len(outbox) -> Row]
    BY <2>1, <1>3, <1>4
  <2>3. outbox' \in Seq(Row) /\ Len(outbox') = Len(outbox)
    BY <2>2, <1>3
  <2>4. DOMAIN outbox' = 1 .. Len(outbox)
    BY <2>2
  <2> QED
    BY <2>3, <2>4, <1>3 DEF Events
<1>6. drain' \in [Relays -> Drain] /\ drain'[r] = Idle
      /\ \A q \in Relays \ {r} : drain'[q] = drain[q]
  BY <1>1, IdleIsDrain DEF Inv, TypeOK
<1>7. TypeOK'
  BY <1>1, <1>5, <1>6 DEF Inv, TypeOK, Idle
<1>8. Numbered'
  BY <1>1, <1>4, <1>5 DEF Inv, Numbered
<1>9. \A d \in Events, e \in Events :
        (outbox'[d].agg = outbox'[e].agg /\ outbox'[d].seq < outbox'[e].seq) <=> Before(d, e)
  BY <1>4 DEF Before
<1>10. \A e \in Events : Cleared(e) => Cleared(e)'
  <2> SUFFICES ASSUME NEW e \in Events, Cleared(e), NEW d \in Events, Before(d, e)
               PROVE  outbox'[d].status # "PENDING"
    BY <1>5, <1>9 DEF Cleared, Before
  <2> QED
    BY <1>4 DEF Cleared
<1>11. ASSUME NEW q \in Relays PROVE HeldByDrain(q)' /\ SentLate(q)'
  <2>1. CASE q = r
    BY <2>1, <1>6 DEF HeldByDrain, SentLate, Idle
  <2>2. CASE q # r
    <3>1. HeldByDrain(q) /\ SentLate(q) /\ drain'[q] = drain[q]
      BY <2>2, <1>6 DEF Inv
    <3>2. \A e \in drain[q].held : e \in Events /\ e \notin drain[r].held
      BY <3>1, <2>2 DEF HeldByDrain
    <3>3. \A e \in drain[q].held : \A p \in Relays \ {q} : e \notin drain'[p].held
      BY <3>1, <1>6 DEF HeldByDrain, Idle
    <3>4. \A e \in drain[q].held : outbox'[e].status = "PENDING" /\ Cleared(e)'
      BY <3>1, <3>2, <1>4, <1>10 DEF HeldByDrain
    <3>5. HeldByDrain(q)'
      <4>1. /\ drain'[q].pc # "draining" => drain'[q].held = {}
            /\ drain'[q].pc = "draining" => drain'[q].todo \subseteq drain'[q].held
            /\ drain'[q].held \subseteq Events'
        BY <3>1, <1>5 DEF HeldByDrain
      <4>2. ASSUME NEW e \in drain'[q].held, drain'[q].row[e].status = "PUBLISHED"
            PROVE  SentBy(Len(broker), e)'
        <5>1. SentBy(Len(broker), e)
          BY <3>1, <4>2 DEF HeldByDrain
        <5> QED
          BY <5>1, <1>1 DEF SentBy
      <4>3. \A e \in drain'[q].held : /\ outbox'[e].status = "PENDING" /\ Cleared(e)'
                                      /\ \A p \in Relays \ {q} : e \notin drain'[p].held
        BY <3>1, <3>3, <3>4
      <4> QED
        BY <4>1, <4>2, <4>3 DEF HeldByDrain
    <3>6. SentLate(q)'
      BY <3>1, <1>5, <1>10 DEF SentLate
    <3> QED BY <3>5, <3>6
  <2> QED BY <2>1, <2>2
<1>12. PublishedWasSent'
  <2> SUFFICES ASSUME NEW e \in Events, outbox'[e].status = "PUBLISHED"
               PROVE  SentBy(Len(broker), e)
    BY <1>1, <1>5 DEF PublishedWasSent, SentBy
  <2>1. CASE e \in drain[r].held
    BY <2>1, <1>2, <1>4 DEF HeldByDrain
  <2>2. CASE e \notin drain[r].held
    BY <2>2, <1>4 DEF Inv, PublishedWasSent
  <2> QED BY <2>1, <2>2
<1>13. NothingOvertaken'
  <2> SUFFICES ASSUME NEW k \in DOMAIN broker, NEW d \in Events, Before(d, broker[k])
               PROVE  SentBy(k - 1, d) \/ outbox'[d].status = "QUARANTINED"
    <3>1. \A k \in DOMAIN broker : broker[k] \in Events
      BY DEF Inv, TypeOK
    <3>2. \A k \in DOMAIN broker, d \in Events : Before(d, broker[k])' <=> Before(d, broker[k])
      BY <3>1, <1>1, <1>9 DEF Before
    <3>3. \A k \in DOMAIN broker, d \in Events : SentBy(k - 1, d)' <=> SentBy(k - 1, d)
      BY <1>1 DEF SentBy
    <3>4. DOMAIN broker' = DOMAIN broker
      BY <1>1
    <3> QED
      BY <3>2, <3>3, <3>4, <1>5 DEF NothingOvertaken
  <2>1. SentBy(k - 1, d) \/ outbox[d].status = "QUARANTINED"
    BY DEF Inv, NothingOvertaken
  <2> QED
    BY <2>1, <1>4
<1> QED
  BY <1>7, <1>8, <1>11, <1>12, <1>13 DEF Inv

-----------------------------------------------------------------------------
(* The invariant holds initially, and every step keeps it.                 *)
THEOREM Invariance == Spec => []Inv
<1>1. Init => Inv
  <2> SUFFICES ASSUME Init PROVE Inv
    OBVIOUS
  <2>1. Events = {} /\ DOMAIN broker = {}
    BY DEF Init, Events
  <2>2. TypeOK
    BY <2>1, IdleIsDrain, BoundsValid DEF Init, TypeOK, Idle
  <2> QED
    BY <2>1, <2>2 DEF Init, Inv, Numbered, HeldByDrain, SentLate, Idle,
         PublishedWasSent, NothingOvertaken
<1>2. Inv /\ [Next]_vars => Inv'
  <2> SUFFICES ASSUME Inv, [Next]_vars PROVE Inv'
    OBVIOUS
  <2>1. ASSUME NEW a \in Aggregates, Emit(a) PROVE Inv'
    BY <2>1, EmitKeeps
  <2>2. ASSUME NEW r \in Relays, NEW batch \in SUBSET Heads, Select(r, batch) PROVE Inv'
    BY <2>2, SelectKeeps
  <2>3. ASSUME NEW r \in Relays, NEW e \in Events,
               Skip(r, e) \/ Publish(r, e) \/ PublishFails(r, e) \/ SendDetached(r, e)
        PROVE  Inv'
    BY <2>3, SkipKeeps, PublishKeeps, PublishFailsKeeps, SendDetachedKeeps
  <2>4. ASSUME NEW r \in Relays, Commit(r) PROVE Inv'
    BY <2>4, CommitKeeps
  <2>5. ASSUME NEW r \in Relays, Crash(r) \/ Rollback(r) \/ \E e \in Events : Detach(r, e)
        PROVE  Inv'
    BY <2>5, LossKeeps
  <2>6. ASSUME NEW r \in Relays, NEW e \in Events, BackoffEnds(r, e) PROVE Inv'
    BY <2>6, BackoffEndsKeeps
  <2>7. CASE UNCHANGED vars
    BY <2>7 DEF vars, Inv, TypeOK, Numbered, HeldByDrain, SentLate, PublishedWasSent,
         NothingOvertaken, SentBy, Cleared, Before, Events
  <2> QED
    BY <2>1, <2>2, <2>3, <2>4, <2>5, <2>6, <2>7 DEF Next, Step
<1> QED
  BY <1>1, <1>2, PTL DEF Spec

(* TypeOK: rows, drains, queue and backoffs keep their types.              *)
THEOREM RelayTypeOK == Spec => []TypeOK
BY Invariance, PTL DEF Inv

(***************************************************************************)
(* NothingOvertaken: no first delivery overtakes an earlier event of its   *)
(* aggregate that the relay has not given up, whatever servers crash, lose *)
(* their session or send late.                                             *)
(***************************************************************************)
THEOREM OrderKept == Spec => []NothingOvertaken
BY Invariance, PTL DEF Inv

(* PublishedWasSent: what is marked PUBLISHED has reached the queue.       *)
THEOREM NothingLost == Spec => []PublishedWasSent
BY Invariance, PTL DEF Inv

-----------------------------------------------------------------------------
(***************************************************************************)
(* How often an event was sent.  A transaction sends an event once; if it  *)
(* is lost, so is its mark, and the loss pays for the message.  A server   *)
(* that lost its session has one message to send that nobody will mark.    *)
(***************************************************************************)
Sent(e) == {k \in DOMAIN broker : broker[k] = e}

Late(e) == {r \in Relays : drain[r].pc = "detached" /\ e \in drain[r].todo}

Count(e) == Cardinality(Sent(e)) + Cardinality(Late(e))

(* The messages that a row accounts for.                                   *)
Credit(o) == o.retries + IF o.status = "PUBLISHED" THEN 1 ELSE 0

Bound(e) ==
  /\ IsFiniteSet(Late(e))
  /\ \A r \in Relays : e \in drain[r].held =>
       /\ Count(e) <= Credit(drain[r].row[e]) + losses
       /\ Credit(drain[r].row[e]) <= Credit(outbox[e]) + 1
       /\ e \in drain[r].todo => Credit(drain[r].row[e]) = Credit(outbox[e])
                                 /\ drain[r].row[e].status = "PENDING"
  /\ (\A r \in Relays : e \notin drain[r].held) => Count(e) <= Credit(outbox[e]) + losses

Bounded == \A e \in Events : Bound(e)

LEMMA CountFacts ==
  ASSUME Inv, NEW e \in Events, IsFiniteSet(Late(e))
  PROVE  /\ IsFiniteSet(Sent(e))
         /\ Cardinality(Sent(e)) \in Nat /\ Cardinality(Late(e)) \in Nat /\ Count(e) \in Nat
<1>1. Len(broker) \in Nat /\ DOMAIN broker = 1 .. Len(broker)
  BY DEF Inv, TypeOK
<1>2. IsFiniteSet(1 .. Len(broker))
  BY <1>1, FS_Interval
<1>3. IsFiniteSet(Sent(e))
  BY <1>1, <1>2, FS_Subset DEF Sent
<1>4. Cardinality(Sent(e)) \in Nat /\ Cardinality(Late(e)) \in Nat
  BY <1>3, FS_CardinalityType
<1> QED
  BY <1>3, <1>4 DEF Count

(* What a row or a drain accounts for is a number.                         *)
LEMMA CreditFacts ==
  /\ \A o : o \in Outcome => Credit(o) \in Nat
  /\ Inv => /\ \A e \in Events : Credit(outbox[e]) \in Nat
            /\ \A r \in Relays, e \in Events : Credit(drain[r].row[e]) \in Nat
            /\ losses \in Nat
<1>1. \A o : o \in Outcome => Credit(o) \in Nat
  BY DEF Credit, Outcome
<1>2. ASSUME Inv, NEW e \in Events PROVE Credit(outbox[e]) \in Nat
  <2>1. outbox[e] \in Row
    BY <1>2 DEF Inv, TypeOK, Events
  <2>2. outbox[e].retries \in Nat
    BY <2>1 DEF Row
  <2> QED
    BY <2>2 DEF Credit
<1>3. ASSUME Inv, NEW r \in Relays, NEW e \in Events PROVE Credit(drain[r].row[e]) \in Nat
  <2>1. e \in 1 .. MaxEvents
    BY <1>3, BoundsValid DEF Inv, TypeOK, Events
  <2>2. drain[r].row[e] \in Outcome
    BY <1>3, <2>1 DEF Inv, TypeOK, Drain
  <2> QED
    BY <1>1, <2>2
<1>4. Inv => losses \in Nat
  BY BoundsValid DEF Inv, TypeOK
<1> QED
  BY <1>1, <1>2, <1>3, <1>4

(* A send adds one message of one event at most.                           *)
LEMMA SentStep ==
  ASSUME Inv, NEW e \in Events, NEW f \in Events, MayArrive(f)
  PROVE  /\ Cardinality(Sent(e))' <= Cardinality(Sent(e)) + 1
         /\ Cardinality(Sent(e))' \in Nat /\ Cardinality(Sent(e)) \in Nat
         /\ e # f \/ UNCHANGED broker => Cardinality(Sent(e))' = Cardinality(Sent(e))
<1> DEFINE n == Len(broker) + 1
<1>1. /\ Len(broker) \in Nat /\ DOMAIN broker = 1 .. Len(broker)
      /\ IsFiniteSet(1 .. Len(broker))
  BY FS_Interval DEF Inv, TypeOK
<1>2. IsFiniteSet(Sent(e)) /\ n \notin Sent(e)
  BY <1>1, FS_Subset DEF Sent
<1>3. Cardinality(Sent(e)) \in Nat
  BY <1>2, FS_CardinalityType
<1>4. CASE UNCHANGED broker
  <2>1. Sent(e)' = Sent(e)
    BY <1>4 DEF Sent
  <2> QED
    BY <1>3, <2>1
<1>5. CASE broker' = Append(broker, f)
  <2>1. /\ DOMAIN broker' = 1 .. n /\ broker'[n] = f
        /\ \A k \in 1 .. Len(broker) : broker'[k] = broker[k]
    BY <1>1, <1>5, QueueGrows DEF Inv
  <2>2. 1 .. n = (1 .. Len(broker)) \cup {n}
    BY <1>1
  <2>3. Sent(e)' = IF e = f THEN Sent(e) \cup {n} ELSE Sent(e)
    BY <1>1, <2>1, <2>2 DEF Sent
  <2>4. Cardinality(Sent(e) \cup {n}) = Cardinality(Sent(e)) + 1
    BY <1>2, FS_AddElement
  <2>5. ~UNCHANGED broker
    <3>1. Len(broker') = Len(broker) + 1
      BY <1>5, QueueGrows DEF Inv
    <3> QED
      BY <1>1, <3>1
  <2> QED
    BY <1>3, <2>3, <2>4, <2>5
<1> QED
  BY <1>4, <1>5 DEF MayArrive

(* The servers that have a late message of e to send, when r goes on.      *)
LEMMA LateStep ==
  ASSUME Inv, NEW r \in Relays, NEW d, drain' = [drain EXCEPT ![r] = d],
         NEW e, IsFiniteSet(Late(e))
  PROVE  /\ IsFiniteSet(Late(e))'
         /\ Cardinality(Late(e)) \in Nat /\ Cardinality(Late(e))' \in Nat
         /\ Cardinality(Late(e))' <= Cardinality(Late(e)) + 1
         /\ d.pc # "detached" \/ e \notin d.todo =>
              /\ Cardinality(Late(e))' <= Cardinality(Late(e))
              /\ r \in Late(e) => Cardinality(Late(e))' = Cardinality(Late(e)) - 1
<1> DEFINE after == d.pc = "detached" /\ e \in d.todo
           L == Late(e)
<1>1. drain'[r] = d /\ \A q \in Relays \ {r} : drain'[q] = drain[q]
  BY DEF Inv, TypeOK
<1>2. Late(e)' = IF after THEN L \cup {r} ELSE L \ {r}
  BY <1>1 DEF Late
<1> HIDE DEF L
<1>3. IsFiniteSet(L) /\ Cardinality(L) \in Nat
  BY FS_CardinalityType DEF L
<1>4. /\ IsFiniteSet(L \cup {r}) /\ Cardinality(L \cup {r}) \in Nat
      /\ Cardinality(L \cup {r}) <= Cardinality(L) + 1
  <2>1. /\ IsFiniteSet(L \cup {r})
        /\ Cardinality(L \cup {r}) = IF r \in L THEN Cardinality(L) ELSE Cardinality(L) + 1
    BY <1>3, FS_AddElement
  <2> QED
    BY <1>3, <2>1
<1>5. /\ IsFiniteSet(L \ {r}) /\ Cardinality(L \ {r}) \in Nat
      /\ Cardinality(L \ {r}) <= Cardinality(L)
      /\ r \in L => Cardinality(L \ {r}) = Cardinality(L) - 1
  <2>1. /\ IsFiniteSet(L \ {r})
        /\ Cardinality(L \ {r}) = IF r \in L THEN Cardinality(L) - 1 ELSE Cardinality(L)
    BY <1>3, FS_RemoveElement
  <2>2. Cardinality(L \ {r}) \in Nat
    BY <2>1, FS_CardinalityType
  <2> QED
    BY <1>3, <2>1, <2>2
<1>6. IsFiniteSet(Late(e))'
  BY <1>2, <1>4, <1>5
<1> HIDE DEF after
<1>7. /\ Cardinality(Late(e))' \in Nat
      /\ Cardinality(Late(e))' <= Cardinality(L) + 1
      /\ ~after => /\ Cardinality(Late(e))' <= Cardinality(L)
                   /\ r \in L => Cardinality(Late(e))' = Cardinality(L) - 1
  BY <1>2, <1>3, <1>4, <1>5
<1> QED
  BY <1>3, <1>6, <1>7 DEF L, after

-----------------------------------------------------------------------------
(* A step after which no more is to be accounted for e, by the same rows.  *)
LEMMA BoundKept ==
  ASSUME Inv, NEW e \in Events, Bound(e), IsFiniteSet(Late(e))',
         Count(e)' \in Nat, Count(e) \in Nat, losses' \in Nat,
         Count(e)' + losses <= Count(e) + losses',
         outbox'[e].status = outbox[e].status, outbox'[e].retries = outbox[e].retries,
         \A q \in Relays : e \in drain'[q].held <=> e \in drain[q].held,
         \A q \in Relays : e \in drain[q].held =>
           /\ drain'[q].row[e] = drain[q].row[e]
           /\ e \in drain'[q].todo => e \in drain[q].todo
  PROVE  Bound(e)'
<1>1. Credit(outbox'[e]) = Credit(outbox[e]) /\ Credit(outbox[e]) \in Nat /\ losses \in Nat
  BY CreditFacts DEF Credit
<1>2. ASSUME NEW q \in Relays, e \in drain'[q].held
      PROVE  /\ Count(e)' <= Credit(drain'[q].row[e]) + losses'
             /\ Credit(drain'[q].row[e]) <= Credit(outbox'[e]) + 1
             /\ e \in drain'[q].todo => /\ Credit(drain'[q].row[e]) = Credit(outbox'[e])
                                        /\ drain'[q].row[e].status = "PENDING"
  <2>1. drain'[q].row[e] = drain[q].row[e] /\ Credit(drain[q].row[e]) \in Nat
    BY <1>2, CreditFacts
  <2>2. Credit(drain'[q].row[e]) = Credit(drain[q].row[e])
    BY <2>1 DEF Credit
  <2>3. /\ Count(e) <= Credit(drain[q].row[e]) + losses
        /\ Credit(drain[q].row[e]) <= Credit(outbox[e]) + 1
        /\ e \in drain[q].todo => /\ Credit(drain[q].row[e]) = Credit(outbox[e])
                                  /\ drain[q].row[e].status = "PENDING"
    BY <1>2 DEF Bound
  <2>4. Count(e)' <= Credit(drain'[q].row[e]) + losses'
    BY <1>1, <2>1, <2>2, <2>3
  <2> QED
    BY <1>1, <1>2, <2>1, <2>2, <2>3, <2>4
<1>3. (\A q \in Relays : e \notin drain'[q].held) => Count(e)' <= Credit(outbox'[e]) + losses'
  <2>1. (\A q \in Relays : e \notin drain[q].held) => Count(e) <= Credit(outbox[e]) + losses
    BY DEF Bound
  <2> QED
    BY <1>1, <2>1
<1> QED
  BY <1>2, <1>3 DEF Bound

(***************************************************************************)
(* A step in the loop of r: the event whose turn it is may be sent, if its *)
(* row then accounts for the message.                                      *)
(***************************************************************************)
LEMMA LoopBound ==
  ASSUME Inv, Bounded, NEW r \in Relays, NEW f \in Events, NEW o \in Outcome,
         drain[r].pc = "draining", Turn(r, f),
         drain' = [drain EXCEPT ![r].todo = @ \ {f}, ![r].row[f] = o],
         UNCHANGED << outbox, losses >>, MayArrive(f),
         \/ Credit(o) = Credit(drain[r].row[f]) + 1
         \/ o = drain[r].row[f] /\ UNCHANGED broker
  PROVE  Bounded'
<1> DEFINE d == [drain[r] EXCEPT !.todo = @ \ {f}, !.row[f] = o]
<1>1. HeldByDrain(r) /\ drain[r] \in Drain /\ f \in drain[r].held /\ f \in drain[r].todo
      /\ f \in 1 .. MaxEvents
  BY TurnIsHeld DEF Inv, TypeOK, Turn
<1>2. drain' = [drain EXCEPT ![r] = d]
  BY DEF Inv, TypeOK
<1>3. /\ d.pc = "draining" /\ d.todo = drain[r].todo \ {f} /\ d.held = drain[r].held
      /\ d.row[f] = o /\ \A e \in Events \ {f} : d.row[e] = drain[r].row[e]
  <2>1. d.row = [drain[r].row EXCEPT ![f] = o] /\ drain[r].row \in [1 .. MaxEvents -> Outcome]
    BY <1>1 DEF Drain
  <2>2. Events \subseteq 1 .. MaxEvents
    BY BoundsValid DEF Inv, TypeOK, Events
  <2> QED
    BY <1>1, <2>1, <2>2 DEF Drain
<1> HIDE DEF d
<1>4. drain'[r] = d /\ \A q \in Relays \ {r} : drain'[q] = drain[q]
  BY <1>2 DEF Inv, TypeOK
<1>5. ASSUME NEW e \in Events PROVE Bound(e)'
  <2>1. Bound(e) /\ Late(e)' = Late(e)
    BY <1>1, <1>3, <1>4 DEF Bounded, Late
  <2>2. /\ Cardinality(Sent(e)) \in Nat /\ Cardinality(Late(e)) \in Nat /\ losses \in Nat
        /\ Credit(outbox[e]) \in Nat /\ Credit(drain[r].row[e]) \in Nat /\ Credit(o) \in Nat
    BY <2>1, CountFacts, CreditFacts DEF Bound
  <2>3. /\ Cardinality(Sent(e))' \in Nat /\ Cardinality(Sent(e))' <= Cardinality(Sent(e)) + 1
        /\ e # f \/ UNCHANGED broker => Cardinality(Sent(e))' = Cardinality(Sent(e))
    BY SentStep
  <2>4. CASE e = f
    <3>1. /\ Count(e) <= Credit(drain[r].row[e]) + losses
          /\ Credit(drain[r].row[e]) = Credit(outbox[e])
      BY <1>1, <2>1, <2>4 DEF Bound
    <3>2. Count(e)' <= Credit(o) + losses /\ Credit(o) <= Credit(outbox[e]) + 1
      BY <2>1, <2>2, <2>3, <2>4, <3>1 DEF Count
    <3>3. \A q \in Relays : e \in drain'[q].held => q = r
      BY <1>1, <1>4, <2>4 DEF HeldByDrain
    <3>4. e \in drain'[r].held /\ e \notin drain'[r].todo /\ drain'[r].row[e] = o
      BY <1>1, <1>3, <1>4, <2>4
    <3> QED
      BY <2>1, <3>2, <3>3, <3>4 DEF Bound, Credit
  <2>5. CASE e # f
    <3>1. Count(e)' = Count(e)
      BY <2>1, <2>3, <2>5 DEF Count
    <3>2. ASSUME NEW q \in Relays
          PROVE  /\ drain'[q].held = drain[q].held /\ drain'[q].row[e] = drain[q].row[e]
                 /\ e \in drain'[q].todo => e \in drain[q].todo
      BY <1>3, <1>4, <2>5
    <3>3. IsFiniteSet(Late(e))'
      BY <2>1 DEF Bound
    <3>4. Count(e) \in Nat /\ losses' \in Nat /\ Count(e)' + losses <= Count(e) + losses'
      BY <2>2, <3>1 DEF Count
    <3>5. /\ Count(e)' \in Nat
          /\ outbox'[e].status = outbox[e].status /\ outbox'[e].retries = outbox[e].retries
      BY <3>1, <3>4
    <3>6. Bound(e)
      BY <2>1
    <3>7. \A q \in Relays : e \in drain'[q].held <=> e \in drain[q].held
      BY <3>2, Zenon
    <3>8. \A q \in Relays : e \in drain[q].held =>
             /\ drain'[q].row[e] = drain[q].row[e]
             /\ e \in drain'[q].todo => e \in drain[q].todo
      BY <3>2, Zenon
    <3> QED
      BY <3>3, <3>4, <3>5, <3>6, <3>7, <3>8, BoundKept
  <2> QED
    BY <2>4, <2>5
<1>6. Events' = Events
  BY DEF Events
<1> QED
  BY <1>5, <1>6 DEF Bounded

(* The event is left alone: nothing is sent.                               *)
LEMMA SkipBound ==
  ASSUME Inv, Bounded, NEW r \in Relays, NEW e \in Events, Skip(r, e) PROVE Bounded'
<1> DEFINE o == drain[r].row[e]
<1>1. o \in Outcome /\ drain[r] \in Drain /\ e \in 1 .. MaxEvents
  BY TurnIsHeld DEF Skip
<1>2. drain' = [drain EXCEPT ![r].todo = @ \ {e}, ![r].row[e] = o]
  <2>1. [drain[r].row EXCEPT ![e] = o] = drain[r].row
    BY <1>1 DEF Drain
  <2> QED
    BY <1>1, <2>1 DEF Skip, Drain
<1>3. o = drain[r].row[e] /\ UNCHANGED broker /\ UNCHANGED << outbox, losses >>
  BY DEF Skip
<1>4. drain[r].pc = "draining" /\ Turn(r, e) /\ MayArrive(e)
  BY DEF Skip, MayArrive
<1> HIDE DEF o
<1> QED
  BY <1>1, <1>2, <1>3, <1>4, LoopBound

(* The mark PUBLISHED accounts for the message: the row was PENDING.       *)
LEMMA PublishBound ==
  ASSUME Inv, Bounded, NEW r \in Relays, NEW e \in Events, Publish(r, e) PROVE Bounded'
<1> DEFINE o == [drain[r].row[e] EXCEPT !.status = "PUBLISHED"]
<1>1. drain[r] \in Drain /\ drain[r].row[e] \in Outcome /\ HeldByDrain(r)
  BY TurnIsHeld DEF Publish, Inv
<1>2. e \in drain[r].held /\ e \in drain[r].todo
  BY <1>1 DEF Publish, Turn, HeldByDrain
<1>3. drain[r].row[e].status = "PENDING"
  BY <1>2 DEF Bounded, Bound
<1>4. o \in Outcome /\ Credit(o) = Credit(drain[r].row[e]) + 1
  BY <1>1, <1>3 DEF Outcome, Status, Credit
<1>5. drain' = [drain EXCEPT ![r].todo = @ \ {e}, ![r].row[e] = o]
  BY <1>1 DEF Publish, Drain
<1>6. drain[r].pc = "draining" /\ Turn(r, e) /\ MayArrive(e) /\ UNCHANGED << outbox, losses >>
  BY DEF Publish, MayArrive
<1> HIDE DEF o
<1> QED
  BY <1>4, <1>5, <1>6, LoopBound

(* The attempt on record accounts for the message that may have arrived.   *)
LEMMA PublishFailsBound ==
  ASSUME Inv, Bounded, NEW r \in Relays, NEW e \in Events, PublishFails(r, e) PROVE Bounded'
<1> DEFINE n == drain[r].row[e].retries + 1
           o == [status |-> IF n > MaxRetries THEN "QUARANTINED" ELSE "PENDING", retries |-> n]
<1>1. drain[r] \in Drain /\ drain[r].row[e] \in Outcome /\ HeldByDrain(r)
  BY TurnIsHeld DEF PublishFails, Inv
<1>2. e \in drain[r].held /\ e \in drain[r].todo
  BY <1>1 DEF PublishFails, Turn, HeldByDrain
<1>3. drain[r].row[e].status = "PENDING"
  BY <1>2 DEF Bounded, Bound
<1>4. o \in Outcome /\ Credit(o) = Credit(drain[r].row[e]) + 1
  BY <1>1, <1>3 DEF Outcome, Status, Credit
<1>5. drain' = [drain EXCEPT ![r].todo = @ \ {e}, ![r].row[e] = o]
  BY DEF PublishFails
<1>6. /\ drain[r].pc = "draining" /\ Turn(r, e) /\ MayArrive(e)
      /\ UNCHANGED << outbox, losses >>
  BY DEF PublishFails
<1> HIDE DEF o
<1> QED
  BY <1>4, <1>5, <1>6, LoopBound

(***************************************************************************)
(* A transaction is lost.  At most one message of the event it was about   *)
(* to send is still to come, or one that it sent has lost its mark.        *)
(***************************************************************************)
LEMMA LossBound ==
  ASSUME Inv, Bounded, NEW r \in Relays, NEW d,
         d.pc # "draining", d.held = {},
         d.pc = "detached" => drain[r].pc = "draining" /\ d.todo \subseteq drain[r].todo,
         drain' = [drain EXCEPT ![r] = d], UNCHANGED << outbox, broker >>,
         losses' = losses + 1
  PROVE  Bounded'
<1>1. drain'[r] = d /\ \A q \in Relays \ {r} : drain'[q] = drain[q]
  BY DEF Inv, TypeOK
<1>2. HeldByDrain(r)
  BY DEF Inv
<1>3. ASSUME NEW e \in Events PROVE Bound(e)'
  <2>1. Bound(e) /\ IsFiniteSet(Late(e))
    BY DEF Bounded, Bound
  <2>2. /\ IsFiniteSet(Late(e))'
        /\ Cardinality(Late(e)) \in Nat /\ Cardinality(Late(e))' \in Nat
        /\ Cardinality(Late(e))' <= Cardinality(Late(e)) + 1
        /\ d.pc # "detached" \/ e \notin d.todo =>
             Cardinality(Late(e))' <= Cardinality(Late(e))
    BY <2>1, LateStep
  <2>3. Sent(e)' = Sent(e)
    BY DEF Sent
  <2>4. Cardinality(Sent(e)) \in Nat /\ Count(e) \in Nat
    BY <2>1, CountFacts
  <2>5. /\ Count(e)' \in Nat /\ Count(e)' <= Count(e) + 1
        /\ d.pc # "detached" \/ e \notin d.todo => Count(e)' <= Count(e)
    BY <2>2, <2>3, <2>4 DEF Count
  <2>6. losses \in Nat /\ Credit(outbox[e]) \in Nat /\ Credit(drain[r].row[e]) \in Nat
    BY CreditFacts
  <2>7. CASE e \in drain[r].held
    <3>1. /\ Count(e) <= Credit(drain[r].row[e]) + losses
          /\ Credit(drain[r].row[e]) <= Credit(outbox[e]) + 1
          /\ e \in drain[r].todo => Credit(drain[r].row[e]) = Credit(outbox[e])
      BY <2>1, <2>7 DEF Bound
    <3>2. Count(e)' <= Credit(outbox[e]) + losses'
      BY <2>4, <2>5, <2>6, <3>1
    <3>3. \A q \in Relays : e \notin drain'[q].held
      BY <1>1, <1>2, <2>7 DEF HeldByDrain
    <3> QED
      BY <2>2, <3>2, <3>3 DEF Bound
  <2>8. CASE e \notin drain[r].held
    <3>1. d.pc # "detached" \/ e \notin d.todo
      BY <1>2, <2>8 DEF HeldByDrain
    <3>2. losses' \in Nat /\ Count(e)' + losses <= Count(e) + losses'
      BY <2>4, <2>5, <2>6, <3>1
    <3>3. ASSUME NEW q \in Relays
          PROVE  /\ e \in drain'[q].held <=> e \in drain[q].held
                 /\ e \in drain[q].held => drain'[q] = drain[q]
      BY <1>1, <2>8
    <3>4. \A q \in Relays : e \in drain'[q].held <=> e \in drain[q].held
      BY <3>3, Zenon
    <3>5. \A q \in Relays : e \in drain[q].held =>
             /\ drain'[q].row[e] = drain[q].row[e]
             /\ e \in drain'[q].todo => e \in drain[q].todo
      BY <3>3, Zenon
    <3>6. outbox'[e].status = outbox[e].status /\ outbox'[e].retries = outbox[e].retries
      OBVIOUS
    <3> QED
      BY <2>1, <2>2, <2>4, <2>5, <3>2, <3>4, <3>5, <3>6, BoundKept
  <2> QED
    BY <2>7, <2>8
<1>4. Events' = Events
  BY DEF Events
<1> QED
  BY <1>3, <1>4 DEF Bounded

(* A server that dies, rolls back or loses its session.                    *)
LEMMA DropBound ==
  ASSUME Inv, Bounded, NEW r \in Relays,
         Crash(r) \/ Rollback(r) \/ \E e \in Events : Detach(r, e)
  PROVE  Bounded'
<1>1. CASE Crash(r) \/ Rollback(r)
  <2>1. /\ drain' = [drain EXCEPT ![r] = Idle] /\ UNCHANGED << outbox, broker >>
        /\ losses' = losses + 1
    BY <1>1 DEF Crash, Rollback
  <2>2. Idle.pc = "idle" /\ Idle.held = {}
    BY DEF Idle
  <2> QED
    BY <2>1, <2>2, LossBound
<1>2. ASSUME NEW e \in Events, Detach(r, e) PROVE Bounded'
  <2> DEFINE d == [Idle EXCEPT !.pc = "detached", !.todo = {e}]
  <2>1. /\ drain' = [drain EXCEPT ![r] = d] /\ UNCHANGED << outbox, broker >>
        /\ losses' = losses + 1 /\ drain[r].pc = "draining" /\ e \in drain[r].todo
    BY <1>2 DEF Detach, Turn
  <2>2. d.pc = "detached" /\ d.held = {} /\ d.todo = {e}
    BY DEF Idle
  <2> HIDE DEF d
  <2> QED
    BY <2>1, <2>2, LossBound
<1> QED
  BY <1>1, <1>2

(* The message that nobody marks was paid for by the loss of the session.  *)
LEMMA SendDetachedBound ==
  ASSUME Inv, Bounded, NEW r \in Relays, NEW f \in Events, SendDetached(r, f) PROVE Bounded'
<1>1. /\ drain' = [drain EXCEPT ![r] = Idle] /\ UNCHANGED << outbox, losses >> /\ MayArrive(f)
      /\ drain[r].pc = "detached" /\ f \in drain[r].todo
  BY DEF SendDetached
<1>2. drain'[r] = Idle /\ \A q \in Relays \ {r} : drain'[q] = drain[q]
  BY <1>1 DEF Inv, TypeOK
<1>3. drain[r].held = {}
  BY <1>1 DEF Inv, HeldByDrain
<1>4. Idle.pc = "idle" /\ Idle.held = {}
  BY DEF Idle
<1>5. ASSUME NEW e \in Events PROVE Bound(e)'
  <2>1. Bound(e) /\ IsFiniteSet(Late(e))
    BY DEF Bounded, Bound
  <2>2. /\ IsFiniteSet(Late(e))'
        /\ Cardinality(Late(e)) \in Nat /\ Cardinality(Late(e))' \in Nat
        /\ Cardinality(Late(e))' <= Cardinality(Late(e))
        /\ r \in Late(e) => Cardinality(Late(e))' = Cardinality(Late(e)) - 1
    BY <1>1, <1>4, <2>1, LateStep
  <2>3. /\ Cardinality(Sent(e))' \in Nat /\ Cardinality(Sent(e)) \in Nat
        /\ Cardinality(Sent(e))' <= Cardinality(Sent(e)) + 1
        /\ e # f => Cardinality(Sent(e))' = Cardinality(Sent(e))
    BY <1>1, SentStep
  <2>4. e = f => r \in Late(e)
    BY <1>1 DEF Late
  <2>5. Count(e) \in Nat /\ Count(e)' \in Nat /\ Count(e)' <= Count(e)
    BY <2>2, <2>3, <2>4 DEF Count
  <2>6. losses' = losses /\ losses \in Nat
    BY <1>1, CreditFacts
  <2>7. losses' \in Nat /\ Count(e)' + losses <= Count(e) + losses'
    BY <2>5, <2>6
  <2>8. ASSUME NEW q \in Relays
        PROVE  /\ e \in drain'[q].held <=> e \in drain[q].held
               /\ e \in drain[q].held => drain'[q] = drain[q]
    BY <1>2, <1>3, <1>4
  <2>9. \A q \in Relays : e \in drain'[q].held <=> e \in drain[q].held
    BY <2>8, Zenon
  <2>10. \A q \in Relays : e \in drain[q].held =>
            /\ drain'[q].row[e] = drain[q].row[e]
            /\ e \in drain'[q].todo => e \in drain[q].todo
    BY <2>8, Zenon
  <2>11. outbox'[e].status = outbox[e].status /\ outbox'[e].retries = outbox[e].retries
    BY <1>1
  <2> QED
    BY <2>1, <2>2, <2>5, <2>7, <2>9, <2>10, <2>11, BoundKept
<1>6. Events' = Events
  BY <1>1 DEF Events
<1> QED
  BY <1>5, <1>6 DEF Bounded

(* Rows are locked by nobody else, and read as they stand in the table.    *)
LEMMA SelectBound ==
  ASSUME Inv, Bounded, NEW r \in Relays, NEW batch \in SUBSET Heads, Select(r, batch)
  PROVE  Bounded'
<1> DEFINE rows == [e \in 1 .. MaxEvents |->
                      IF e \in batch
                      THEN [status |-> outbox[e].status, retries |-> outbox[e].retries]
                      ELSE NoOutcome[e]]
<1> DEFINE d == [pc |-> "draining", todo |-> batch, held |-> batch, row |-> rows]
<1>1. batch \subseteq Events /\ Events \subseteq 1 .. MaxEvents
  BY BoundsValid DEF Heads, Pending, Inv, TypeOK, Events
<1>2. \A e \in batch : rows[e].status = outbox[e].status /\ rows[e].retries = outbox[e].retries
  BY <1>1
<1> HIDE DEF rows
<1>3. drain' = [drain EXCEPT ![r] = d]
  BY DEF Select, rows
<1>4. d.pc = "draining" /\ d.todo = batch /\ d.held = batch /\ d.row = rows
  OBVIOUS
<1> HIDE DEF d
<1>5. drain'[r] = d /\ \A q \in Relays \ {r} : drain'[q] = drain[q]
  BY <1>3 DEF Inv, TypeOK
<1>6. /\ drain[r].pc = "idle" /\ UNCHANGED << outbox, broker, losses >>
      /\ \A e \in batch : outbox[e].status = "PENDING"
      /\ \A e \in batch, q \in Relays \ {r} : e \notin drain[q].held
  BY DEF Select, Heads, Pending, Unlocked
<1>7. drain[r].held = {}
  BY <1>6 DEF Inv, HeldByDrain
<1>8. ASSUME NEW e \in Events PROVE Bound(e)'
  <2>1. Bound(e) /\ IsFiniteSet(Late(e))
    BY DEF Bounded, Bound
  <2>2. Late(e)' = Late(e) /\ Sent(e)' = Sent(e)
    BY <1>4, <1>5, <1>6 DEF Late, Sent
  <2>3. Count(e)' = Count(e)
    BY <2>2 DEF Count
  <2>4. Count(e) \in Nat /\ losses \in Nat /\ Credit(outbox[e]) \in Nat
    BY <2>1, CountFacts, CreditFacts
  <2>5. CASE e \in batch
    <3>1. \A q \in Relays : e \notin drain[q].held
      BY <1>6, <1>7, <2>5
    <3>2. Count(e) <= Credit(outbox[e]) + losses
      BY <2>1, <3>1 DEF Bound
    <3>3. Credit(rows[e]) = Credit(outbox[e]) /\ rows[e].status = "PENDING"
      BY <1>2, <1>6, <2>5 DEF Credit
    <3>4. \A q \in Relays : e \in drain'[q].held => q = r
      BY <1>5, <1>6, <2>5
    <3>5. drain'[r].row = rows /\ outbox' = outbox /\ losses' = losses
      BY <1>4, <1>5, <1>6
    <3>6. \A q \in Relays : e \in drain'[q].held =>
             /\ Count(e)' <= Credit(drain'[q].row[e]) + losses'
             /\ Credit(drain'[q].row[e]) <= Credit(outbox'[e]) + 1
             /\ e \in drain'[q].todo => /\ Credit(drain'[q].row[e]) = Credit(outbox'[e])
                                        /\ drain'[q].row[e].status = "PENDING"
      BY <2>3, <2>4, <3>2, <3>3, <3>4, <3>5
    <3>7. Count(e)' <= Credit(outbox'[e]) + losses'
      BY <2>3, <3>2, <3>5
    <3> QED
      BY <2>1, <2>2, <3>6, <3>7 DEF Bound
  <2>6. CASE e \notin batch
    <3>1. ASSUME NEW q \in Relays
          PROVE  /\ e \in drain'[q].held <=> e \in drain[q].held
                 /\ e \in drain[q].held => drain'[q] = drain[q]
      BY <1>4, <1>5, <1>7, <2>6
    <3>2. \A q \in Relays : e \in drain'[q].held <=> e \in drain[q].held
      BY <3>1, Zenon
    <3>3. \A q \in Relays : e \in drain[q].held =>
              /\ drain'[q].row[e] = drain[q].row[e]
              /\ e \in drain'[q].todo => e \in drain[q].todo
      BY <3>1, Zenon
    <3>4. /\ outbox'[e].status = outbox[e].status /\ outbox'[e].retries = outbox[e].retries
          /\ losses' = losses
      BY <1>6
    <3>5. Count(e)' \in Nat /\ losses' \in Nat /\ Count(e)' + losses <= Count(e) + losses'
      BY <2>3, <2>4, <3>4
    <3> QED
      BY <2>1, <2>2, <2>4, <3>2, <3>3, <3>4, <3>5, BoundKept
  <2> QED
    BY <2>5, <2>6
<1>9. Events' = Events
  BY <1>6 DEF Events
<1> QED
  BY <1>8, <1>9 DEF Bounded

(* The table takes over what the drain has on record, and no more.         *)
LEMMA CommitBound ==
  ASSUME Inv, Bounded, NEW r \in Relays, Commit(r) PROVE Bounded'
<1>1. /\ drain' = [drain EXCEPT ![r] = Idle] /\ UNCHANGED << broker, losses >>
      /\ drain[r].pc = "draining"
  BY DEF Commit
<1>2. drain'[r] = Idle /\ \A q \in Relays \ {r} : drain'[q] = drain[q]
  BY <1>1 DEF Inv, TypeOK
<1>3. HeldByDrain(r)
  BY DEF Inv
<1>4. Idle.pc = "idle" /\ Idle.held = {}
  BY DEF Idle
<1>5. ASSUME NEW e \in Events
      PROVE  /\ e \in drain[r].held => /\ outbox'[e].status = drain[r].row[e].status
                                       /\ outbox'[e].retries = drain[r].row[e].retries
             /\ e \notin drain[r].held => outbox'[e] = outbox[e]
  <2>1. outbox[e] \in Row
    BY DEF Inv, TypeOK, Events
  <2> QED
    BY <2>1 DEF Commit, Row
<1>6. ASSUME NEW e \in Events PROVE Bound(e)'
  <2>1. Bound(e) /\ IsFiniteSet(Late(e))
    BY DEF Bounded, Bound
  <2>2. Late(e)' = Late(e) /\ Sent(e)' = Sent(e)
    BY <1>1, <1>2, <1>4 DEF Late, Sent
  <2>3. Count(e)' = Count(e)
    BY <2>2 DEF Count
  <2>4. Count(e) \in Nat /\ losses \in Nat
    BY <2>1, CountFacts, CreditFacts
  <2>5. CASE e \in drain[r].held
    <3>1. Count(e) <= Credit(drain[r].row[e]) + losses
      BY <2>1, <2>5 DEF Bound
    <3>2. Credit(outbox'[e]) = Credit(drain[r].row[e])
      BY <1>5, <2>5 DEF Credit
    <3>3. \A q \in Relays : e \notin drain'[q].held
      BY <1>2, <1>3, <1>4, <2>5 DEF HeldByDrain
    <3>4. Count(e)' <= Credit(outbox'[e]) + losses'
      BY <1>1, <2>3, <3>1, <3>2
    <3> QED
      BY <2>1, <2>2, <3>3, <3>4 DEF Bound
  <2>6. CASE e \notin drain[r].held
    <3>1. ASSUME NEW q \in Relays
          PROVE  /\ e \in drain'[q].held <=> e \in drain[q].held
                 /\ e \in drain[q].held => drain'[q] = drain[q]
      BY <1>2, <1>4, <2>6
    <3>2. \A q \in Relays : e \in drain'[q].held <=> e \in drain[q].held
      BY <3>1, Zenon
    <3>3. \A q \in Relays : e \in drain[q].held =>
              /\ drain'[q].row[e] = drain[q].row[e]
              /\ e \in drain'[q].todo => e \in drain[q].todo
      BY <3>1, Zenon
    <3>4. outbox'[e].status = outbox[e].status /\ outbox'[e].retries = outbox[e].retries
      BY <1>5, <2>6
    <3>5. Count(e)' \in Nat /\ losses' \in Nat /\ Count(e)' + losses <= Count(e) + losses'
      BY <1>1, <2>3, <2>4
    <3> QED
      BY <2>1, <2>2, <2>4, <3>2, <3>3, <3>4, <3>5, BoundKept
  <2> QED
    BY <2>5, <2>6
<1>7. Events' = Events
  BY DEF Commit, Events
<1> QED
  BY <1>6, <1>7 DEF Bounded

(* A new event has been sent by nobody, and nobody is about to send it.    *)
LEMMA EmitBound ==
  ASSUME Inv, Bounded, NEW a \in Aggregates, Emit(a) PROVE Bounded'
<1> DEFINE new == [agg |-> a, seq |-> version[a] + 1, status |-> "PENDING", retries |-> 0]
<1>1. outbox' = Append(outbox, new) /\ UNCHANGED << broker, drain, losses >>
  BY DEF Emit
<1>2. new \in Row /\ new.status = "PENDING" /\ new.retries = 0
  BY DEF Inv, TypeOK, Row, Status
<1> HIDE DEF new
<1>3. PICK n \in Nat : /\ Events' = Events \cup {n} /\ n \notin Events
                       /\ outbox'[n] = new /\ \A e \in Events : outbox'[e] = outbox[e]
  <2>1. PICK n \in Nat : n = Len(outbox) + 1
    BY DEF Inv, TypeOK
  <2>2. Events' = Events \cup {n} /\ n \notin Events
    BY <1>1, <1>2, <2>1 DEF Inv, TypeOK, Events
  <2>3. outbox'[n] = new /\ \A e \in Events : outbox'[e] = outbox[e]
    BY <1>1, <1>2, <2>1 DEF Inv, TypeOK, Events
  <2> QED
    BY <2>2, <2>3
<1>4. ASSUME NEW e \in Events PROVE Bound(e)'
  <2>1. Bound(e) /\ IsFiniteSet(Late(e))
    BY DEF Bounded, Bound
  <2>2. Late(e)' = Late(e) /\ Sent(e)' = Sent(e)
    BY <1>1 DEF Late, Sent
  <2>3. Count(e)' = Count(e) /\ Count(e) \in Nat /\ losses \in Nat
    BY <2>1, <2>2, CountFacts, CreditFacts DEF Count
  <2>4. Count(e)' \in Nat /\ losses' \in Nat /\ Count(e)' + losses <= Count(e) + losses'
    BY <1>1, <2>3
  <2>5. /\ \A q \in Relays : e \in drain'[q].held <=> e \in drain[q].held
        /\ \A q \in Relays : e \in drain[q].held =>
              /\ drain'[q].row[e] = drain[q].row[e]
              /\ e \in drain'[q].todo => e \in drain[q].todo
    BY <1>1
  <2>6. outbox'[e].status = outbox[e].status /\ outbox'[e].retries = outbox[e].retries
    BY <1>3
  <2> QED
    BY <2>1, <2>2, <2>3, <2>4, <2>5, <2>6, BoundKept
<1>5. Bound(n)'
  <2>1. Sent(n)' = {}
    BY <1>1, <1>3 DEF Sent, Inv, TypeOK
  <2>2. Late(n)' = {}
    BY <1>1, <1>3 DEF Late, Inv, TypeOK
  <2>3. Cardinality({}) = 0 /\ IsFiniteSet({})
    BY FS_EmptySet
  <2>4. Count(n)' = 0 /\ IsFiniteSet(Late(n))'
    BY <2>1, <2>2, <2>3 DEF Count
  <2>5. \A q \in Relays : n \notin drain'[q].held
    BY <1>1, <1>3 DEF Inv, TypeOK
  <2>6. Credit(outbox'[n]) = 0 /\ losses' \in Nat
    BY <1>1, <1>2, <1>3, CreditFacts DEF Credit
  <2>7. Count(n)' <= Credit(outbox'[n]) + losses'
    <3>1. losses' = losses /\ losses \in Nat
      BY <1>1, CreditFacts
    <3>2. 0 <= 0 + losses
      BY <3>1
    <3> QED
      BY <2>4, <2>6, <3>1, <3>2, Zenon
  <2> QED
    BY <2>4, <2>5, <2>7 DEF Bound
<1> QED
  BY <1>3, <1>4, <1>5 DEF Bounded

(* Between two steps that send nothing and mark nothing.                   *)
LEMMA RestBound ==
  ASSUME Bounded, UNCHANGED << outbox, broker, drain, losses >> PROVE Bounded'
BY DEF Bounded, Bound, Count, Sent, Late, Events

(* The bound is what is known of the event, wherever it is known.          *)
LEMMA BoundExplains ==
  ASSUME Inv, Bounded PROVE DuplicatesExplained
<1> SUFFICES ASSUME NEW e \in Events
             PROVE  Cardinality(Sent(e)) <= Credit(Known(e)) + losses
  <2>1. losses \in Nat
    BY CreditFacts
  <2>2. ASSUME NEW e \in Events PROVE Known(e).retries \in Nat
    <3> DEFINE q == CHOOSE q \in Relays : e \in drain[q].held
    <3>1. CASE \E r \in Relays : e \in drain[r].held
      <4>1. q \in Relays
        BY <3>1
      <4>2. drain[q] \in Drain /\ e \in 1 .. MaxEvents
        BY <4>1, BoundsValid DEF Inv, TypeOK, Events
      <4> HIDE DEF q
      <4>3. drain[q].row[e] \in Outcome
        BY <4>2 DEF Drain
      <4> QED
        BY <3>1, <4>3 DEF Known, Outcome, q
    <3>2. CASE ~\E r \in Relays : e \in drain[r].held
      <4>1. outbox[e] \in Row
        BY DEF Inv, TypeOK, Events
      <4> QED
        BY <3>2, <4>1 DEF Known, Row
    <3> QED
      BY <3>1, <3>2
  <2> QED
    BY <2>1, <2>2 DEF DuplicatesExplained, Sent, Credit
<1>1. Bound(e) /\ IsFiniteSet(Late(e))
  BY DEF Bounded, Bound
<1>2. Cardinality(Sent(e)) \in Nat /\ Cardinality(Late(e)) \in Nat /\ losses \in Nat
  BY <1>1, CountFacts, CreditFacts
<1>3. CASE \E r \in Relays : e \in drain[r].held
  <2> DEFINE q == CHOOSE q \in Relays : e \in drain[q].held
  <2>1. q \in Relays /\ e \in drain[q].held
    BY <1>3
  <2>2. Known(e) = drain[q].row[e]
    BY <1>3 DEF Known
  <2> HIDE DEF q
  <2>3. Count(e) <= Credit(drain[q].row[e]) + losses /\ Credit(drain[q].row[e]) \in Nat
    BY <1>1, <2>1, CreditFacts DEF Bound
  <2> QED
    BY <1>2, <2>2, <2>3 DEF Count
<1>4. CASE ~\E r \in Relays : e \in drain[r].held
  <2>1. Credit(Known(e)) = Credit(outbox[e])
    BY <1>4 DEF Known, Credit
  <2>2. Count(e) <= Credit(outbox[e]) + losses /\ Credit(outbox[e]) \in Nat
    BY <1>1, <1>4, CreditFacts DEF Bound
  <2> QED
    BY <1>2, <2>1, <2>2 DEF Count
<1> QED
  BY <1>3, <1>4

(***************************************************************************)
(* DuplicatesExplained: an event is sent once, and once more for each      *)
(* failed attempt on record and each transaction lost, whatever the number *)
(* of relays that drain the outbox at once.                                *)
(***************************************************************************)
THEOREM DuplicatesHaveCauses == Spec => []DuplicatesExplained
<1>1. Init => Bounded
  BY DEF Init, Bounded, Events
<1>2. Inv /\ Bounded /\ [Next]_vars => Bounded'
  <2> SUFFICES ASSUME Inv, Bounded, [Next]_vars PROVE Bounded'
    OBVIOUS
  <2>1. ASSUME NEW a \in Aggregates, Emit(a) PROVE Bounded'
    BY <2>1, EmitBound
  <2>2. ASSUME NEW r \in Relays, NEW batch \in SUBSET Heads, Select(r, batch) PROVE Bounded'
    BY <2>2, SelectBound
  <2>3. ASSUME NEW r \in Relays, NEW e \in Events,
               Skip(r, e) \/ Publish(r, e) \/ PublishFails(r, e) \/ SendDetached(r, e)
        PROVE  Bounded'
    BY <2>3, SkipBound, PublishBound, PublishFailsBound, SendDetachedBound
  <2>4. ASSUME NEW r \in Relays, Commit(r) PROVE Bounded'
    BY <2>4, CommitBound
  <2>5. ASSUME NEW r \in Relays, Crash(r) \/ Rollback(r) \/ \E e \in Events : Detach(r, e)
        PROVE  Bounded'
    BY <2>5, DropBound
  <2>6. ASSUME NEW r \in Relays, NEW e \in Events, BackoffEnds(r, e) PROVE Bounded'
    BY <2>6, RestBound DEF BackoffEnds
  <2>7. CASE UNCHANGED vars
    BY <2>7, RestBound DEF vars
  <2> QED
    BY <2>1, <2>2, <2>3, <2>4, <2>5, <2>6, <2>7 DEF Next, Step
<1> QED
  BY <1>1, <1>2, Invariance, BoundExplains, PTL DEF Spec

=============================================================================
