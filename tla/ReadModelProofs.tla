-------------------------- MODULE ReadModelProofs --------------------------
(***************************************************************************)
(* Theorems about ReadModel, for any number of servers and fields and any  *)
(* history of the object: no event is lost, no update is lost, and the row *)
(* never goes back.                                                        *)
(***************************************************************************)
EXTENDS ReadModel, FiniteSetTheorems, SequenceTheorems, TLAPS

(* The message is on the sequence.                                         *)
OnIt(e, q) == \E i \in DOMAIN q : q[i] = e

(* A row that a server may put in the place of the committed one.          *)
Above(w) ==
  /\ row.version <= w.version /\ row.status <= w.status
  /\ w.status <= w.version
  /\ \A f \in Fields : row.fields[f] <= w.fields[f]

(* What a server remembers is done with, or what it is at.                 *)
Remembers(s) ==
  /\ \A e \in registry[s] :
       \/ e \in consumed \cup uncommitted
       \/ tx[s].pc \in {"checked", "projected"} /\ e = Current(s)
  /\ tx[s].pc = "done" => Current(s) \in consumed

(* A server that writes the row has it for itself and writes no older one. *)
Writes(s) ==
  tx[s].write # NoRow =>
    /\ tx[s].pc = "projected"
    /\ Above(tx[s].write)
    /\ \A q \in Servers \ {s} : tx[q].write = NoRow

(* The inductive invariant.                                                *)
Inv ==
  /\ TypeOK
  /\ row.status <= row.version
  /\ \A s \in Servers : Remembers(s) /\ Writes(s)
  /\ NothingLost

-----------------------------------------------------------------------------
(* Sequences of messages.                                                  *)

(* A message appended is on the sequence, after those that were.          *)
LEMMA AppendOnIt ==
  ASSUME NEW q \in Seq(Event), NEW x \in Event
  PROVE  /\ Append(q, x) \in Seq(Event)
         /\ Append(q, x) # << >>
         /\ q # << >> => Head(Append(q, x)) = Head(q)
         /\ OnIt(x, Append(q, x))
         /\ \A e : OnIt(e, q) => OnIt(e, Append(q, x))
BY DEF OnIt

(* What Tail leaves out is the head.                                       *)
LEMMA TailOnIt ==
  ASSUME NEW q \in Seq(Event), q # << >>
  PROVE  /\ Tail(q) \in Seq(Event)
         /\ Head(q) \in Event
         /\ OnIt(Head(q), q)
         /\ \A e : OnIt(e, q) => e = Head(q) \/ OnIt(e, Tail(q))
<1>1. Tail(q) \in Seq(Event) /\ Head(q) \in Event
  OBVIOUS
<1>2. Len(q) \in Nat /\ Len(q) >= 1 /\ Head(q) = q[1]
  OBVIOUS
<1>3. OnIt(Head(q), q)
  BY <1>2 DEF OnIt
<1>4. ASSUME NEW e, NEW i \in DOMAIN q, q[i] = e, e # Head(q) PROVE OnIt(e, Tail(q))
  <2>1. i - 1 \in DOMAIN Tail(q) /\ Tail(q)[i - 1] = q[i]
    BY <1>2, <1>4
  <2> QED BY <2>1, <1>4 DEF OnIt
<1> QED BY <1>1, <1>3, <1>4 DEF OnIt

(* Both parts are on a concatenation.                                      *)
LEMMA ConcatOnIt ==
  ASSUME NEW q \in Seq(Event), NEW r \in Seq(Event)
  PROVE  /\ q \o r \in Seq(Event)
         /\ \A e : OnIt(e, q) \/ OnIt(e, r) => OnIt(e, q \o r)
<1>1. q \o r \in Seq(Event) /\ Len(q \o r) = Len(q) + Len(r)
  BY ConcatProperties
<1>2. ASSUME NEW i \in DOMAIN q PROVE i \in DOMAIN (q \o r) /\ (q \o r)[i] = q[i]
  BY <1>2, ConcatProperties
<1>3. ASSUME NEW i \in DOMAIN r
      PROVE  i + Len(q) \in DOMAIN (q \o r) /\ (q \o r)[i + Len(q)] = r[i]
  BY <1>3, ConcatProperties
<1> QED BY <1>1, <1>2, <1>3 DEF OnIt

(* Underway, by OnIt.                                                      *)
LEMMA UnderwayMeans ==
  ASSUME NEW e
  PROVE  Underway(e) <=> OnIt(e, queue) \/ \E s \in Servers : OnIt(e, inbox[s])
BY DEF Underway, OnIt

(* The events of the history are events.                                   *)
LEMMA HistoryGivesEvents ==
  ASSUME commands \in Histories, NEW a \in Aggregates
  PROVE  /\ Count(a) \in Nat
         /\ \A n \in 1 .. Count(a) : EventOf(a, n) \in Event
<1>1. commands \in Seq(Command)
  BY ParametersValid DEF WellFormed
<1>2. DOMAIN commands = 1 .. Len(commands) /\ Len(commands) \in Nat
  BY <1>1
<1>3. IsFiniteSet(DOMAIN commands) /\ Cardinality(DOMAIN commands) = Len(commands)
  <2>1. IsFiniteSet(1 .. Len(commands))
    BY <1>2, FS_Interval
  <2>2. Cardinality(1 .. Len(commands)) = IF 1 > Len(commands) THEN 0 ELSE Len(commands) - 1 + 1
    <3>1. 1 \in Int /\ Len(commands) \in Int
      BY <1>2
    <3> QED BY ONLY <3>1, FS_Interval, Zenon
  <2>3. Cardinality(1 .. Len(commands)) = Len(commands)
    BY <1>2, <2>2
  <2> QED BY <1>2, <2>1, <2>3
<1>4. Changes(a) \subseteq DOMAIN commands
  BY DEF Changes
<1>5. IsFiniteSet(Changes(a))
  BY <1>3, <1>4, FS_Subset
<1>6. Count(a) \in Nat
  BY <1>5, FS_CardinalityType DEF Count
<1>7. ASSUME NEW n \in 1 .. Count(a) PROVE EventOf(a, n) \in Event
  <2>1. n \in Nat \ {0}
    BY <1>6
  <2>2. CASE a = Object
    <3>1. Changes(a) = DOMAIN commands
      BY <2>2 DEF Changes
    <3>2. n \in DOMAIN commands
      BY <3>1, <1>2, <1>3, <1>7 DEF Count
    <3>3. commands[n] \in Command
      BY <3>2, <1>1, <1>2
    <3>4. commands[n].kind \in Kinds
      BY <3>3 DEF Command, Kinds
    <3> QED BY <2>1, <2>2, <3>4 DEF EventOf, Event
  <2>3. CASE a # Object
    BY <2>1, <2>3 DEF EventOf, Event, Kinds
  <2> QED BY <2>2, <2>3
<1> QED BY <1>6, <1>7

(* A consumer at work has a message, and it is an event.                   *)
LEMMA CurrentIsEvent ==
  ASSUME TypeOK, NEW s \in Servers, inbox[s] # << >>
  PROVE  /\ inbox[s] \in Seq(Event)
         /\ Current(s) \in Event
         /\ Tail(inbox[s]) \in Seq(Event)
<1>1. inbox[s] \in Seq(Event)
  BY DEF TypeOK
<1> QED BY <1>1, TailOnIt DEF Current

(* What was waiting may go only when it is done with.                      *)
LEMMA StillThere ==
  ASSUME NothingLost, UNCHANGED << commands, sent >>,
         consumed \subseteq consumed', uncommitted \subseteq uncommitted',
         \A e : Underway(e) => e \in consumed' \cup uncommitted' \/ Underway(e)'
  PROVE  NothingLost'
<1> SUFFICES ASSUME NEW a \in Aggregates, NEW n \in 1 .. sent'[a]
             PROVE  (EventOf(a, n) \in consumed \cup uncommitted \/ Underway(EventOf(a, n)))'
  BY DEF NothingLost
<1>1. PICK e : e = EventOf(a, n)
  OBVIOUS
<1>2. e = EventOf(a, n)'
  BY <1>1 DEF EventOf
<1>3. e \in consumed \cup uncommitted \/ Underway(e)
  BY <1>1 DEF NothingLost
<1>4. e \in consumed' \cup uncommitted' \/ Underway(e)'
  BY <1>3
<1>5. Underway(e)' => Underway(EventOf(a, n))'
  BY <1>2 DEF Underway
<1> QED BY <1>2, <1>4, <1>5

(* A server whose part of the state stays remembers what it did.           *)
LEMMA StillRemembers ==
  ASSUME NEW q \in Servers, Remembers(q), tx'[q] = tx[q], registry'[q] = registry[q],
         tx[q].pc # "idle" => Current(q)' = Current(q),
         consumed \subseteq consumed', uncommitted \subseteq uncommitted'
  PROVE  Remembers(q)'
BY DEF Remembers

(* While nobody begins to write and nobody commits, the writer stays.      *)
LEMMA StillWrites ==
  ASSUME \A q \in Servers : Writes(q), row' = row,
         \A q \in Servers : tx'[q] = tx[q] \/ tx'[q].write = NoRow
  PROVE  \A q \in Servers : Writes(q)'
<1> SUFFICES ASSUME NEW q \in Servers, tx'[q].write # NoRow
             PROVE  /\ tx'[q].pc = "projected"
                    /\ Above(tx[q].write)
                    /\ tx'[q] = tx[q]
                    /\ \A p \in Servers \ {q} : tx'[p].write = NoRow
  BY DEF Writes, Above, NoRow
<1> QED BY DEF Writes

(* An empty-handed transaction is of its type.                             *)
LEMMA IdleIsTx ==
  /\ Idle \in Tx /\ Idle.pc = "idle" /\ Idle.write = NoRow
  /\ [Idle EXCEPT !.pc = "done"] \in Tx
  /\ [Idle EXCEPT !.pc = "done"].pc = "done"
  /\ [Idle EXCEPT !.pc = "done"].write = NoRow
BY DEF Idle, Tx, PCs, NoRow, Row

-----------------------------------------------------------------------------
(* The actions.                                                            *)

(* A message comes into the queue, from the relay.                         *)
LEMMA QueueGrows ==
  ASSUME Inv, NEW x \in Event, queue' = Append(queue, x),
         UNCHANGED << commands, inbox, tx, registry, tables, uncommitted >>
  PROVE  /\ queue' \in Seq(Event)
         /\ \A s \in Servers : Remembers(s)' /\ Writes(s)'
         /\ \A e : Underway(e) => Underway(e)'
         /\ Underway(x)'
<1>1. queue \in Seq(Event)
  BY DEF Inv, TypeOK
<1>2. queue' \in Seq(Event) /\ OnIt(x, queue') /\ \A e : OnIt(e, queue) => OnIt(e, queue')
  BY <1>1, AppendOnIt
<1>3. ASSUME NEW s \in Servers PROVE Remembers(s)'
  BY StillRemembers DEF Inv, Current, tables
<1>4. \A s \in Servers : Writes(s)'
  BY StillWrites DEF Inv, tables
<1>5. ASSUME NEW e, Underway(e) \/ e = x PROVE Underway(e)'
  BY <1>2, <1>5 DEF Underway, OnIt
<1> QED BY <1>2, <1>3, <1>4, <1>5

(* The relay sends the next event of an aggregate.                         *)
LEMMA SendKeeps == ASSUME Inv, NEW a \in Aggregates, Send(a) PROVE Inv'
<1>1. commands \in Histories /\ sent[a] \in Nat /\ sent[a] < Count(a)
  BY DEF Inv, TypeOK, Send
<1>2. Count(a) \in Nat /\ EventOf(a, sent[a] + 1) \in Event
  <2>1. Count(a) \in Nat /\ \A n \in 1 .. Count(a) : EventOf(a, n) \in Event
    BY <1>1, HistoryGivesEvents
  <2>2. sent[a] + 1 \in 1 .. Count(a)
    BY <1>1, <2>1
  <2> QED BY <2>1, <2>2
<1>3. PICK x \in Event : x = EventOf(a, sent[a] + 1)
  BY <1>2
<1>4. /\ queue' = Append(queue, x)
      /\ UNCHANGED << commands, inbox, tx, registry, tables, uncommitted >>
  BY <1>3 DEF Send, counts
<1>5. /\ queue' \in Seq(Event)
      /\ \A s \in Servers : Remembers(s)' /\ Writes(s)'
      /\ \A e : Underway(e) => Underway(e)'
      /\ Underway(x)'
  BY <1>4, QueueGrows
<1>6. TypeOK'
  <2>1. \A b \in Aggregates : sent'[b] <= Count(b)'
    <3>1. ASSUME NEW b \in Aggregates PROVE Count(b)' = Count(b)
      BY <1>4 DEF Count, Changes
    <3>2. ASSUME NEW b \in Aggregates PROVE sent'[b] <= Count(b)
      <4>1. CASE b = a
        BY <4>1, <1>1, <1>2 DEF Inv, TypeOK, Send
      <4>2. CASE b # a
        BY <4>2 DEF Inv, TypeOK, Send
      <4> QED BY <4>1, <4>2
    <3> QED BY <3>1, <3>2
  <2>2. sent' \in [Aggregates -> Nat]
    BY DEF Inv, TypeOK, Send
  <2> QED BY <1>5, <2>1, <2>2 DEF Inv, TypeOK, Send, tables, counts
<1>7. ASSUME NEW b \in Aggregates, NEW n \in 1 .. sent'[b]
      PROVE  (EventOf(b, n) \in consumed \cup uncommitted \/ Underway(EventOf(b, n)))'
  <2>1. PICK e : e = EventOf(b, n)
    OBVIOUS
  <2>2. e = EventOf(b, n)'
    BY <2>1, <1>4 DEF EventOf
  <2>3. e \in consumed' \cup uncommitted' \/ Underway(e)'
    <3>1. CASE n \in 1 .. sent[b]
      <4>1. e \in consumed \cup uncommitted \/ Underway(e)
        BY <3>1, <2>1 DEF Inv, NothingLost
      <4> QED BY <4>1, <1>4, <1>5 DEF tables
    <3>2. CASE n \notin 1 .. sent[b]
      <4>1. b = a /\ n = sent[a] + 1
        BY <3>2, <1>1, <1>7 DEF Inv, TypeOK, Send
      <4>2. e = x
        BY <4>1, <2>1, <1>3
      <4> QED BY <4>2, <1>5
    <3> QED BY <3>1, <3>2
  <2> QED BY <2>2, <2>3 DEF Underway
<1>8. row'.status <= row'.version
  BY <1>4 DEF Inv, tables
<1> QED BY <1>5, <1>6, <1>7, <1>8 DEF Inv, NothingLost

(* The relay sends an event again.                                         *)
LEMMA ResendKeeps ==
  ASSUME Inv, NEW a \in Aggregates, NEW i \in 1 .. sent[a], Resend(a, i)
  PROVE  Inv'
<1>1. EventOf(a, i) \in Event
  <2>1. commands \in Histories /\ sent[a] \in Nat /\ sent[a] <= Count(a)
    BY DEF Inv, TypeOK
  <2>2. Count(a) \in Nat /\ \A n \in 1 .. Count(a) : EventOf(a, n) \in Event
    BY <2>1, HistoryGivesEvents
  <2> QED BY <2>1, <2>2
<1>2. PICK x \in Event : x = EventOf(a, i)
  BY <1>1
<1>3. /\ queue' = Append(queue, x)
      /\ UNCHANGED << commands, sent, inbox, tx, registry, tables, uncommitted >>
  BY <1>2 DEF Resend
<1>4. /\ queue' \in Seq(Event)
      /\ \A s \in Servers : Remembers(s)' /\ Writes(s)'
      /\ \A e : Underway(e) => Underway(e)'
  BY <1>3, QueueGrows
<1>5. TypeOK'
  <2>1. troubles' \in 0 .. MaxTroubles
    BY ParametersValid DEF Inv, TypeOK, Resend
  <2>2. \A b \in Aggregates : sent'[b] <= Count(b)'
    BY <1>3 DEF Inv, TypeOK, Count, Changes
  <2> QED BY <1>3, <1>4, <2>1, <2>2 DEF Inv, TypeOK, tables
<1>6. NothingLost'
  BY <1>3, <1>4, StillThere DEF Inv, tables
<1>7. row'.status <= row'.version
  BY <1>3 DEF Inv, tables
<1> QED BY <1>4, <1>5, <1>6, <1>7 DEF Inv

(***************************************************************************)
(* A step of a server moves its messages, forgets or remembers, and leaves *)
(* the row and the other servers alone.                                    *)
(***************************************************************************)
LEMMA ServerSteps ==
  ASSUME Inv, NEW s \in Servers, NEW d \in Tx,
         tx' = [tx EXCEPT ![s] = d], d.write = NoRow \/ d = tx[s],
         inbox' = [inbox EXCEPT ![s] = inbox'[s]],
         registry' = [registry EXCEPT ![s] = registry'[s]],
         queue' \in Seq(Event), inbox'[s] \in Seq(Event),
         d.pc # "idle" => inbox'[s] # << >>,
         registry'[s] \subseteq Event,
         consumed \subseteq consumed', consumed' \subseteq Event,
         uncommitted \subseteq uncommitted', uncommitted' \subseteq Event,
         troubles' \in 0 .. MaxTroubles,
         UNCHANGED << commands, sent, row, missed >>,
         Remembers(s)',
         \A e : OnIt(e, queue) \/ OnIt(e, inbox[s]) =>
           e \in consumed' \cup uncommitted' \/ OnIt(e, queue') \/ OnIt(e, inbox'[s])
  PROVE  Inv'
<1>1. ASSUME NEW q \in Servers \ {s}
      PROVE  tx'[q] = tx[q] /\ registry'[q] = registry[q] /\ inbox'[q] = inbox[q]
  BY DEF Inv, TypeOK
<1>2. tx'[s] = d
  BY DEF Inv, TypeOK
<1>3. TypeOK'
  <2>1. \A b \in Aggregates : sent'[b] <= Count(b)'
    BY DEF Inv, TypeOK, Count, Changes
  <2>2. inbox' \in [Servers -> Seq(Event)] /\ registry' \in [Servers -> SUBSET Event]
    BY DEF Inv, TypeOK
  <2>3. tx' \in [Servers -> Tx] /\ \A q \in Servers : tx'[q].pc # "idle" => inbox'[q] # << >>
    BY <1>1, <1>2 DEF Inv, TypeOK
  <2> QED BY <2>1, <2>2, <2>3 DEF Inv, TypeOK
<1>4. \A q \in Servers : Writes(q)'
  <2>1. \A q \in Servers : tx'[q] = tx[q] \/ tx'[q].write = NoRow
    BY <1>1, <1>2
  <2> QED BY <2>1, StillWrites DEF Inv
<1>5. ASSUME NEW q \in Servers PROVE Remembers(q)'
  <2>1. CASE q # s
    BY <2>1, <1>1, StillRemembers DEF Inv, Current
  <2> QED BY <2>1
<1>6. ASSUME NEW e, Underway(e)
      PROVE  e \in consumed' \cup uncommitted' \/ Underway(e)'
  <2>1. OnIt(e, queue) \/ \E q \in Servers : OnIt(e, inbox[q])
    BY <1>6, UnderwayMeans
  <2>2. \/ e \in consumed' \cup uncommitted'
        \/ OnIt(e, queue') \/ \E q \in Servers : OnIt(e, inbox'[q])
    BY <2>1, <1>1
  <2> QED BY <2>2 DEF Underway, OnIt
<1>7. NothingLost'
  BY <1>6, StillThere DEF Inv
<1> QED BY <1>3, <1>4, <1>5, <1>7 DEF Inv

(* A message moves from the queue to a server.                             *)
LEMMA DeliverKeeps == ASSUME Inv, NEW s \in Servers, Deliver(s) PROVE Inv'
<1>1. queue \in Seq(Event) /\ inbox[s] \in Seq(Event) /\ queue # << >> /\ tx[s] \in Tx
  BY DEF Inv, TypeOK, Deliver
<1>2. /\ Tail(queue) \in Seq(Event) /\ Head(queue) \in Event
      /\ \A e : OnIt(e, queue) => e = Head(queue) \/ OnIt(e, Tail(queue))
  BY <1>1, TailOnIt
<1>3. PICK x \in Event : x = Head(queue)
  BY <1>2
<1>4. /\ Append(inbox[s], x) \in Seq(Event) /\ Append(inbox[s], x) # << >>
      /\ inbox[s] # << >> => Head(Append(inbox[s], x)) = Head(inbox[s])
      /\ OnIt(x, Append(inbox[s], x))
      /\ \A e : OnIt(e, inbox[s]) => OnIt(e, Append(inbox[s], x))
  BY <1>1, AppendOnIt
<1>5. /\ queue' = Tail(queue) /\ inbox'[s] = Append(inbox[s], x)
      /\ inbox' = [inbox EXCEPT ![s] = inbox'[s]]
      /\ UNCHANGED << commands, sent, tx, registry, tables, counts >>
  BY <1>3 DEF Deliver, Inv, TypeOK
<1>6. tx' = [tx EXCEPT ![s] = tx[s]] /\ registry' = [registry EXCEPT ![s] = registry'[s]]
  BY <1>5 DEF Inv, TypeOK
<1>7. Remembers(s)'
  <2>1. tx[s].pc # "idle" => Current(s)' = Current(s)
    BY <1>4, <1>5 DEF Current, Inv, TypeOK
  <2> QED BY <2>1, <1>5, StillRemembers DEF Inv, tables, counts
<1>8. \A e : OnIt(e, queue) \/ OnIt(e, inbox[s]) => OnIt(e, queue') \/ OnIt(e, inbox'[s])
  BY <1>2, <1>3, <1>4, <1>5
<1>9. /\ registry'[s] \subseteq Event
      /\ consumed \subseteq consumed' /\ consumed' \subseteq Event
      /\ uncommitted \subseteq uncommitted' /\ uncommitted' \subseteq Event
      /\ troubles' \in 0 .. MaxTroubles /\ UNCHANGED << commands, sent, row, missed >>
  BY <1>5 DEF Inv, TypeOK, tables, counts
<1>10. queue' \in Seq(Event) /\ inbox'[s] \in Seq(Event) /\ inbox'[s] # << >>
  BY <1>2, <1>4, <1>5
<1> QED BY <1>1, <1>5, <1>6, <1>7, <1>8, <1>9, <1>10, ServerSteps

(* A message leaves a server that is done with it.                         *)
LEMMA MessageLeaves ==
  ASSUME Inv, NEW s \in Servers, inbox[s] # << >>, Current(s) \in consumed \cup uncommitted,
         inbox' = [inbox EXCEPT ![s] = Tail(@)], NEW d \in Tx, d.pc = "idle",
         tx' = [tx EXCEPT ![s] = d], d.write = NoRow \/ d = tx[s],
         \A e \in registry[s] : e \in consumed \cup uncommitted,
         UNCHANGED << commands, sent, queue, registry, tables, counts >>
  PROVE  Inv'
<1>1. inbox[s] \in Seq(Event) /\ Tail(inbox[s]) \in Seq(Event)
  BY CurrentIsEvent DEF Inv
<1>2. \A e : OnIt(e, inbox[s]) => e = Current(s) \/ OnIt(e, Tail(inbox[s]))
  BY <1>1, TailOnIt DEF Current
<1>3. inbox'[s] = Tail(inbox[s]) /\ inbox' = [inbox EXCEPT ![s] = inbox'[s]]
  BY DEF Inv, TypeOK
<1>4. registry' = [registry EXCEPT ![s] = registry'[s]] /\ tx'[s] = d
  BY DEF Inv, TypeOK
<1>5. Remembers(s)'
  BY <1>4 DEF Remembers, tables, counts
<1>6. /\ registry'[s] \subseteq Event /\ queue' \in Seq(Event)
      /\ consumed \subseteq consumed' /\ consumed' \subseteq Event
      /\ uncommitted \subseteq uncommitted' /\ uncommitted' \subseteq Event
      /\ troubles' \in 0 .. MaxTroubles /\ UNCHANGED << commands, sent, row, missed >>
  BY DEF Inv, TypeOK, tables, counts
<1>7. \A e : OnIt(e, queue) \/ OnIt(e, inbox[s]) =>
        e \in consumed' \cup uncommitted' \/ OnIt(e, queue') \/ OnIt(e, inbox'[s])
  BY <1>2, <1>3 DEF tables, counts
<1> QED BY <1>1, <1>3, <1>4, <1>5, <1>6, <1>7, ServerSteps

(* What a server has seen is consumed, or its commit failed.               *)
LEMMA SkipKeeps == ASSUME Inv, NEW s \in Servers, Skip(s) PROVE Inv'
<1>1. tx[s] \in Tx /\ tx[s].pc = "idle" /\ inbox[s] # << >>
  BY DEF Inv, TypeOK, Skip
<1>2. \A e \in registry[s] : e \in consumed \cup uncommitted
  BY <1>1 DEF Inv, Remembers
<1>3. Current(s) \in consumed \cup uncommitted
  BY <1>2 DEF Skip, Seen
<1>4. tx' = [tx EXCEPT ![s] = tx[s]]
  BY DEF Skip, Inv, TypeOK
<1> QED BY <1>1, <1>2, <1>3, <1>4, MessageLeaves DEF Skip

(* What is acknowledged is consumed.                                       *)
LEMMA AckKeeps == ASSUME Inv, NEW s \in Servers, Ack(s) PROVE Inv'
<1>1. tx[s].pc = "done" /\ inbox[s] # << >>
  BY DEF Inv, TypeOK, Ack
<1>2. \A e \in registry[s] : e \in consumed \cup uncommitted
  BY <1>1 DEF Inv, Remembers
<1>3. Current(s) \in consumed \cup uncommitted
  BY <1>1 DEF Inv, Remembers
<1> QED BY <1>1, <1>2, <1>3, IdleIsTx, MessageLeaves DEF Ack

(* A server remembers the message it takes up.                             *)
LEMMA TakeKeeps == ASSUME Inv, NEW s \in Servers, Take(s) PROVE Inv'
<1>1. tx[s] \in Tx /\ tx[s].pc = "idle" /\ inbox[s] # << >> /\ tx[s].write = NoRow
  BY DEF Inv, TypeOK, Take, Writes
<1>2. Current(s) \in Event /\ inbox[s] \in Seq(Event)
  BY <1>1, CurrentIsEvent DEF Inv
<1>3. PICK d \in Tx : d = [tx[s] EXCEPT !.pc = "checked"]
  BY <1>1 DEF Tx, PCs
<1>4. d.pc = "checked" /\ d.write = NoRow
  BY <1>1, <1>3 DEF Tx
<1>5. tx' = [tx EXCEPT ![s] = d] /\ tx'[s] = d
  BY <1>3 DEF Take, Inv, TypeOK
<1>6. /\ registry'[s] = registry[s] \cup {Current(s)}
      /\ registry' = [registry EXCEPT ![s] = registry'[s]]
      /\ registry'[s] \subseteq Event
  BY <1>2 DEF Take, Inv, TypeOK
<1>7. /\ inbox'[s] = inbox[s] /\ inbox' = [inbox EXCEPT ![s] = inbox'[s]]
      /\ queue' = queue /\ queue' \in Seq(Event)
      /\ consumed \subseteq consumed' /\ consumed' \subseteq Event
      /\ uncommitted \subseteq uncommitted' /\ uncommitted' \subseteq Event
      /\ troubles' \in 0 .. MaxTroubles /\ UNCHANGED << commands, sent, row, missed >>
  BY DEF Inv, TypeOK, Take, delivery, tables, counts
<1>8. Remembers(s)'
  <2>1. Current(s)' = Current(s)
    BY <1>7 DEF Current
  <2>2. \A e \in registry[s] : e \in consumed \cup uncommitted
    BY <1>1 DEF Inv, Remembers
  <2> QED BY <2>1, <2>2, <1>4, <1>5, <1>6, <1>7 DEF Remembers
<1> QED BY <1>1, <1>2, <1>4, <1>5, <1>6, <1>7, <1>8, ServerSteps

(* The messages ms go back to the head of the queue, rest stays.           *)
LEMMA MessagesReturn ==
  ASSUME Inv, NEW s \in Servers, NEW ms \in Seq(Event), NEW rest \in Seq(Event),
         \A e : OnIt(e, inbox[s]) => OnIt(e, ms) \/ OnIt(e, rest),
         queue' = ms \o queue,
         inbox' = [inbox EXCEPT ![s] = rest], tx' = [tx EXCEPT ![s] = Idle],
         registry' = [registry EXCEPT ![s] = registry'[s]], registry'[s] \subseteq Event,
         \A e \in registry'[s] : e \in consumed \cup uncommitted',
         uncommitted \subseteq uncommitted', uncommitted' \subseteq Event,
         troubles < MaxTroubles, troubles' = troubles + 1,
         UNCHANGED << commands, sent, tables >>
  PROVE  Inv'
<1>1. queue \in Seq(Event)
  BY DEF Inv, TypeOK
<1>2. /\ ms \o queue \in Seq(Event)
      /\ \A e : OnIt(e, ms) \/ OnIt(e, queue) => OnIt(e, ms \o queue)
  BY <1>1, ConcatOnIt
<1>3. /\ inbox'[s] = rest /\ inbox' = [inbox EXCEPT ![s] = inbox'[s]]
      /\ tx'[s] = Idle
  BY DEF Inv, TypeOK
<1>4. /\ consumed \subseteq consumed' /\ consumed' \subseteq Event
      /\ UNCHANGED << commands, sent, row, missed >>
  BY DEF Inv, TypeOK, tables
<1>5. troubles' \in 0 .. MaxTroubles
  BY ParametersValid DEF Inv, TypeOK
<1>6. Remembers(s)'
  BY <1>3, <1>4, IdleIsTx DEF Remembers, tables
<1>7. \A e : OnIt(e, queue) \/ OnIt(e, inbox[s]) => OnIt(e, queue') \/ OnIt(e, inbox'[s])
  BY <1>2, <1>3
<1>8. queue' \in Seq(Event) /\ inbox'[s] \in Seq(Event)
  BY <1>2, <1>3
<1> QED BY <1>3, <1>4, <1>5, <1>6, <1>7, <1>8, IdleIsTx, ServerSteps

(* A message whose projection failed returns.                              *)
LEMMA RequeueKeeps ==
  ASSUME Inv, NEW s \in Servers, Fail(s) \/ CommitFails(s)
  PROVE  Inv'
<1>1. tx[s].pc \in {"checked", "projected"} /\ Requeue(s)
      /\ troubles < MaxTroubles /\ troubles' = troubles + 1
      /\ UNCHANGED << commands, sent, tables >>
  BY DEF Fail, CommitFails
<1>2. inbox[s] # << >>
  BY <1>1 DEF Inv, TypeOK
<1>3. PICK x \in Event : x = Current(s)
  BY <1>2, CurrentIsEvent DEF Inv
<1>4. /\ inbox[s] \in Seq(Event) /\ Tail(inbox[s]) \in Seq(Event)
      /\ \A e : OnIt(e, inbox[s]) => e = x \/ OnIt(e, Tail(inbox[s]))
  BY <1>2, <1>3, CurrentIsEvent, TailOnIt DEF Inv, Current
<1>5. << x >> \in Seq(Event) /\ OnIt(x, << x >>)
  BY DEF OnIt
<1>6. /\ queue' = << x >> \o queue
      /\ inbox' = [inbox EXCEPT ![s] = Tail(inbox[s])]
      /\ tx' = [tx EXCEPT ![s] = Idle]
  BY <1>1, <1>3 DEF Requeue
<1>7. \A e \in registry[s] : e \in consumed \cup uncommitted \/ e = x
  BY <1>3 DEF Inv, Remembers
<1>8. /\ registry' = [registry EXCEPT ![s] = registry'[s]] /\ registry'[s] \subseteq Event
      /\ \A e \in registry'[s] : e \in consumed \cup uncommitted'
      /\ uncommitted \subseteq uncommitted' /\ uncommitted' \subseteq Event
  <2>1. CASE Fail(s)
    BY <2>1, <1>3, <1>7 DEF Fail, Inv, TypeOK
  <2>2. CASE CommitFails(s)
    BY <2>2, <1>3, <1>7 DEF CommitFails, Inv, TypeOK
  <2> QED BY <2>1, <2>2
<1>9. \A e : OnIt(e, inbox[s]) => OnIt(e, << x >>) \/ OnIt(e, Tail(inbox[s]))
  BY <1>4, <1>5
<1> QED BY <1>1, <1>4, <1>5, <1>6, <1>8, <1>9, MessagesReturn

(* All the messages of a server that dies return.                          *)
LEMMA CrashKeeps == ASSUME Inv, NEW s \in Servers, Crash(s) PROVE Inv'
<1>1. inbox[s] \in Seq(Event) /\ << >> \in Seq(Event)
  BY DEF Inv, TypeOK
<1>2. /\ registry' = [registry EXCEPT ![s] = registry'[s]] /\ registry'[s] = {}
      /\ uncommitted' = uncommitted /\ uncommitted \subseteq Event
      /\ queue' = inbox[s] \o queue
      /\ inbox' = [inbox EXCEPT ![s] = << >>] /\ tx' = [tx EXCEPT ![s] = Idle]
      /\ troubles < MaxTroubles /\ troubles' = troubles + 1
      /\ UNCHANGED << commands, sent, tables >>
  BY DEF Crash, Inv, TypeOK
<1> QED BY <1>1, <1>2, MessagesReturn

-----------------------------------------------------------------------------
(* The row.                                                                *)

(* A statement that matches writes a row that is above the committed one.  *)
LEMMA WrittenIsAbove ==
  ASSUME Inv, NEW e \in Event, Matches(e)
  PROVE  Written(e) \in Row /\ Above(Written(e))
<1>1. /\ row.version \in Nat /\ row.status \in Nat /\ row.status <= row.version
      /\ row.fields \in [Fields -> Nat] /\ row \in Row
      /\ \A f \in Fields : row.fields[f] \in Nat
  BY DEF Inv, TypeOK, Row
<1>2. e.seq \in Nat /\ e.agg \in Aggregates /\ e.kind \in Kinds
  BY DEF Event
<1>3. CASE e.kind = "FieldChanged"
  <2>1. Written(e) = [row EXCEPT !.fields[e.agg] = e.seq] /\ row.fields[e.agg] < e.seq
    BY <1>3 DEF Written, Matches
  <2>2. /\ Written(e).version = row.version /\ Written(e).status = row.status
        /\ Written(e).fields = [row.fields EXCEPT ![e.agg] = e.seq]
    BY <2>1, <1>1 DEF Row
  <2>3. Written(e) \in Row
    BY <2>1, <1>1, <1>2 DEF Row
  <2>4. \A f \in Fields : row.fields[f] <= Written(e).fields[f]
    BY <2>1, <2>2, <1>1, <1>2
  <2> QED BY <2>2, <2>3, <2>4, <1>1 DEF Above
<1>4. CASE e.kind = "ObjectUpdated"
  BY <1>1, <1>2, <1>4 DEF Written, Above, Row
<1>5. CASE e.kind \in {"ObjectCreated", "StateChanged"}
  <2>1. row.version <= e.seq
    BY <1>1, <1>2, <1>5 DEF Matches, NoRow
  <2>2. Written(e) = [row EXCEPT !.version = e.seq, !.status = e.seq]
    BY <1>5 DEF Written
  <2>3. /\ Written(e).version = e.seq /\ Written(e).status = e.seq
        /\ Written(e).fields = row.fields /\ Written(e) \in Row
    BY <2>2, <1>1, <1>2 DEF Row
  <2>4. row.status <= e.seq
    BY <2>1, <1>1, <1>2
  <2> QED BY <2>1, <2>3, <2>4, <1>1, <1>2 DEF Above
<1> QED BY <1>2, <1>3, <1>4, <1>5 DEF Kinds

(* A statement that matches makes its server the only writer.              *)
LEMMA ProjectKeeps == ASSUME Inv, NEW s \in Servers, Project(s) PROVE Inv'
<1>1. tx[s].pc = "checked" /\ inbox[s] # << >> /\ tx[s].write = NoRow
  BY DEF Inv, TypeOK, Project, Writes
<1>2. PICK e \in Event : e = Current(s)
  BY <1>1, CurrentIsEvent DEF Inv
<1>3. PICK w : w = IF Matches(e) THEN Written(e) ELSE NoRow
  OBVIOUS
<1>4. w \in Row /\ (Matches(e) => Above(w))
  <2>1. NoRow \in Row
    BY DEF NoRow, Row
  <2> QED BY <2>1, <1>3, WrittenIsAbove
<1>5. /\ tx'[s].pc = "projected" /\ tx'[s].write = w /\ tx'[s] \in Tx
      /\ \A q \in Servers \ {s} : tx'[q] = tx[q]
      /\ tx' \in [Servers -> Tx]
  <2>1. PICK d : d = [pc |-> "projected", found |-> row # NoRow, write |-> w]
    OBVIOUS
  <2>2. d \in Tx /\ d.pc = "projected" /\ d.write = w
    BY <2>1, <1>4 DEF Tx, PCs
  <2>3. tx' = [tx EXCEPT ![s] = d]
    BY <2>1, <1>2, <1>3 DEF Project
  <2> QED BY <2>2, <2>3 DEF Inv, TypeOK
<1>6. UNCHANGED << commands, sent, queue, inbox, registry, consumed, row, missed, troubles, uncommitted >>
  BY DEF Project, delivery, tables, counts
<1>7. TypeOK'
  <2>1. \A a \in Aggregates : sent'[a] <= Count(a)'
    BY <1>6 DEF Inv, TypeOK, Count, Changes
  <2>2. \A q \in Servers : tx'[q].pc # "idle" => inbox'[q] # << >>
    BY <1>1, <1>5, <1>6 DEF Inv, TypeOK
  <2> QED BY <1>5, <1>6, <2>1, <2>2 DEF Inv, TypeOK
<1>8. ASSUME NEW q \in Servers PROVE Remembers(q)'
  <2>1. Current(q)' = Current(q)
    BY <1>6 DEF Current
  <2>2. CASE q = s
    BY <2>1, <2>2, <1>1, <1>5, <1>6 DEF Inv, Remembers
  <2>3. CASE q # s
    BY <2>1, <2>3, <1>5, <1>6, StillRemembers DEF Inv
  <2> QED BY <2>2, <2>3
<1>9. ASSUME NEW q \in Servers PROVE Writes(q)'
  <2>1. CASE w = NoRow
    <3>1. \A p \in Servers : tx'[p] = tx[p] \/ tx'[p].write = NoRow
      BY <2>1, <1>5
    <3> QED BY <3>1, <1>6, StillWrites DEF Inv
  <2>2. CASE w # NoRow
    <3>1. Matches(e) /\ \A p \in Servers \ {s} : tx[p].write = NoRow
      BY <2>2, <1>2, <1>3 DEF Project, RowLocked
    <3>2. \A p \in Servers \ {s} : tx'[p].write = NoRow
      BY <3>1, <1>5
    <3>3. Above(w)
      BY <3>1, <1>4
    <3>4. CASE q = s
      BY <3>2, <3>3, <3>4, <1>5, <1>6 DEF Writes, Above
    <3>5. CASE q # s
      BY <3>2, <3>5 DEF Writes, NoRow
    <3> QED BY <3>4, <3>5
  <2> QED BY <2>1, <2>2
<1>10. NothingLost'
  <2>1. \A f : Underway(f) => Underway(f)'
    BY <1>6 DEF Underway
  <2> QED BY <2>1, <1>6, StillThere DEF Inv
<1>11. row'.status <= row'.version
  BY <1>6 DEF Inv
<1> QED BY <1>7, <1>8, <1>9, <1>10, <1>11 DEF Inv

(* A commit puts a row in place that is above the one before.              *)
LEMMA CommitRaises ==
  ASSUME Inv, NEW s \in Servers, CommitApply(s)
  PROVE  row' \in Row /\ Above(row')
<1>1. /\ row \in Row /\ row.version \in Nat /\ row.status \in Nat
      /\ row.status <= row.version /\ \A f \in Fields : row.fields[f] \in Nat
      /\ tx[s].write \in Row
  BY DEF Inv, TypeOK, Row, Tx
<1>2. Above(row)
  BY <1>1 DEF Above
<1>3. CASE tx[s].write = NoRow
  <2>1. row' = row
    BY <1>3 DEF CommitApply
  <2>2. Above(row')
    BY <2>1, <1>2 DEF Above
  <2> QED BY <2>1, <2>2, <1>1
<1>4. CASE tx[s].write # NoRow
  <2>1. row' = tx[s].write
    BY <1>4 DEF CommitApply
  <2>2. Above(tx[s].write)
    BY <1>4 DEF Inv, Writes
  <2> QED BY <2>1, <2>2, <1>1 DEF Above
<1> QED BY <1>3, <1>4

(* The commit releases the row.                                            *)
LEMMA CommitKeeps == ASSUME Inv, NEW s \in Servers, CommitApply(s) PROVE Inv'
<1>1. tx[s].pc = "projected" /\ inbox[s] # << >>
  BY DEF Inv, TypeOK, CommitApply
<1>2. PICK e \in Event : e = Current(s)
  BY <1>1, CurrentIsEvent DEF Inv
<1>3. /\ consumed' = consumed \cup {e} /\ missed' \subseteq Event
      /\ UNCHANGED << commands, sent, queue, inbox, registry, troubles, uncommitted >>
  BY <1>2 DEF CommitApply, delivery, counts, Inv, TypeOK
<1>4. /\ tx'[s].pc = "done" /\ tx'[s].write = NoRow
      /\ \A q \in Servers \ {s} : tx'[q] = tx[q]
      /\ tx' \in [Servers -> Tx]
  BY IdleIsTx DEF CommitApply, Inv, TypeOK
<1>5. row' \in Row /\ row'.status <= row'.version
  BY CommitRaises DEF Above
<1>6. TypeOK'
  <2>1. \A a \in Aggregates : sent'[a] <= Count(a)'
    BY <1>3 DEF Inv, TypeOK, Count, Changes
  <2>2. \A q \in Servers : tx'[q].pc # "idle" => inbox'[q] # << >>
    BY <1>1, <1>3, <1>4 DEF Inv, TypeOK
  <2> QED BY <1>3, <1>4, <1>5, <2>1, <2>2 DEF Inv, TypeOK
<1>7. ASSUME NEW q \in Servers PROVE Remembers(q)'
  <2>1. Current(q)' = Current(q)
    BY <1>3 DEF Current
  <2>2. CASE q = s
    BY <2>1, <2>2, <1>1, <1>2, <1>3, <1>4 DEF Inv, Remembers
  <2>3. CASE q # s
    BY <2>1, <2>3, <1>3, <1>4, StillRemembers DEF Inv
  <2> QED BY <2>2, <2>3
<1>8. ASSUME NEW q \in Servers PROVE Writes(q)'
  <2>1. CASE tx[s].write = NoRow
    <3>1. row' = row
      BY <2>1 DEF CommitApply
    <3>2. \A p \in Servers : tx'[p] = tx[p] \/ tx'[p].write = NoRow
      BY <1>4
    <3> QED BY <3>1, <3>2, StillWrites DEF Inv
  <2>2. CASE tx[s].write # NoRow
    <3>1. \A p \in Servers : tx'[p].write = NoRow
      BY <2>2, <1>4 DEF Inv, Writes
    <3> QED BY <3>1 DEF Writes, NoRow
  <2> QED BY <2>1, <2>2
<1>9. NothingLost'
  <2>1. \A f : Underway(f) => Underway(f)'
    BY <1>3 DEF Underway
  <2> QED BY <2>1, <1>3, StillThere DEF Inv
<1> QED BY <1>5, <1>6, <1>7, <1>8, <1>9 DEF Inv

-----------------------------------------------------------------------------
(* Inv holds of every behaviour: one lemma per action.                     *)
THEOREM Invariance == Spec => []Inv
<1>1. Init => Inv
  <2> SUFFICES ASSUME Init PROVE Inv
    OBVIOUS
  <2>1. \A a \in Aggregates : Count(a) \in Nat
    BY HistoryGivesEvents DEF Init
  <2>2. NoRow \in Row /\ NoRow.status <= NoRow.version
    BY DEF NoRow, Row
  <2>3. TypeOK
    BY <2>1, <2>2, IdleIsTx, ParametersValid DEF Init, TypeOK
  <2>4. \A s \in Servers : Remembers(s) /\ Writes(s)
    BY IdleIsTx DEF Init, Remembers, Writes
  <2>5. NothingLost
    BY DEF Init, NothingLost
  <2> QED BY <2>2, <2>3, <2>4, <2>5 DEF Init, Inv
<1>2. Inv /\ [Next]_vars => Inv'
  <2> SUFFICES ASSUME Inv, [Next]_vars PROVE Inv'
    OBVIOUS
  <2>1. ASSUME NEW a \in Aggregates, Send(a) PROVE Inv'
    BY <2>1, SendKeeps
  <2>2. ASSUME NEW a \in Aggregates, NEW i \in 1 .. sent[a], Resend(a, i) PROVE Inv'
    BY <2>2, ResendKeeps
  <2>3. ASSUME NEW s \in Servers, Deliver(s) PROVE Inv'
    BY <2>3, DeliverKeeps
  <2>4. ASSUME NEW s \in Servers, Consume(s) PROVE Inv'
    BY <2>4, SkipKeeps, TakeKeeps, ProjectKeeps, CommitKeeps, AckKeeps DEF Consume
  <2>5. ASSUME NEW s \in Servers, Fail(s) \/ CommitFails(s) PROVE Inv'
    BY <2>5, RequeueKeeps
  <2>6. ASSUME NEW s \in Servers, Crash(s) PROVE Inv'
    BY <2>6, CrashKeeps
  <2>7. CASE UNCHANGED vars
    <3>1. UNCHANGED << commands, sent, queue, inbox, tx, registry, consumed, row, missed,
                       troubles, uncommitted >>
      BY <2>7 DEF vars, delivery, tables, counts
    <3>2. TypeOK'
      BY <3>1 DEF Inv, TypeOK, Count, Changes
    <3>3. \A s \in Servers : Remembers(s)' /\ Writes(s)'
      BY <3>1 DEF Inv, Remembers, Writes, Above, Current
    <3>4. NothingLost'
      <4>1. \A e : Underway(e) => Underway(e)'
        BY <3>1 DEF Underway
      <4> QED BY <4>1, <3>1, StillThere DEF Inv
    <3> QED BY <3>1, <3>2, <3>3, <3>4 DEF Inv
  <2> QED BY <2>1, <2>2, <2>3, <2>4, <2>5, <2>6, <2>7 DEF Next
<1> QED BY <1>1, <1>2, PTL DEF Spec

(* TypeOK: queue, inboxes, transactions and tables keep their types.       *)
THEOREM ProjectionTypeOK == Spec => []TypeOK
BY Invariance, PTL DEF Inv

(***************************************************************************)
(* NothingLost: through failures, crashes and repeats an event the queue   *)
(* took is waiting, handed out or consumed, unless its own commit failed.  *)
(***************************************************************************)
THEOREM AtLeastOnce == Spec => []NothingLost
BY Invariance, PTL DEF Inv

(***************************************************************************)
(* RowNeverGoesBack: no order of messages and no race of the servers sets  *)
(* a version, a status or a field of the row back.                         *)
(***************************************************************************)
THEOREM RowMovesForward == Spec => RowNeverGoesBack
<1>1. Inv /\ [Next]_vars =>
        [ /\ row.version <= row'.version /\ row.status <= row'.status
          /\ \A f \in Fields : row.fields[f] <= row'.fields[f] ]_row
  <2> SUFFICES ASSUME Inv, Next, row' # row PROVE Above(row')
    BY DEF Above, vars, tables
  <2>1. PICK s \in Servers : CommitApply(s)
    BY DEF Next, Consume, Send, Resend, Deliver, Skip, Take, Project, Ack, Fail,
           CommitFails, Crash, tables
  <2> QED BY <2>1, CommitRaises
<1> QED BY <1>1, Invariance, PTL DEF Spec, RowNeverGoesBack

-----------------------------------------------------------------------------
(***************************************************************************)
(* What is consumed shows.  The row's version is its status's version, or  *)
(* a later ObjectUpdated raised it: so a StateChanged that is not above    *)
(* the version is either shown or outrun.                                  *)
(***************************************************************************)

(* The message says of the history what is so.                             *)
Genuine(e) ==
  /\ e.kind = "ObjectCreated" => e.seq = 1
  /\ IF e.kind = "FieldChanged" THEN e.agg \in Fields ELSE commands[e.seq].kind = e.kind

RowTrue(w) ==
  w # NoRow =>
    /\ w.status >= 1
    /\ \/ w.status = w.version
       \/ w.status < w.version /\ commands[w.version].kind = "ObjectUpdated"

(* Shown, of a row that may not be committed yet.                          *)
ShownIn(w, e) ==
  CASE e.kind = "FieldChanged"  -> w.fields[e.agg] >= e.seq
    [] e.kind = "ObjectUpdated" -> w.version >= e.seq
    [] OTHER                    -> w.status >= e.seq /\ w.version >= e.seq

Settles(e) == Shown(e) \/ Outrun(e)

(* What a server is about to commit shows its event, or the row does.      *)
Tells(s) ==
  tx[s].pc = "projected" =>
    /\ tx[s].write # NoRow => RowTrue(tx[s].write) /\ ShownIn(tx[s].write, Current(s))
    /\ tx[s].write = NoRow /\ (tx[s].found \/ Current(s).kind = "ObjectCreated")
         => Settles(Current(s))

(* The invariant of what the row shows, beside Inv.                        *)
Consistent ==
  /\ \A e \in Event : Underway(e) \/ e \in consumed => Genuine(e)
  /\ RowTrue(row)
  /\ \A s \in Servers : Tells(s)
  /\ ConsumedShows

(* Once settled, an event stays settled while the row is raised truly.     *)
LEMMA StaysSettled ==
  ASSUME Inv, row' \in Row, Above(row'), RowTrue(row'), commands' = commands,
         NEW e \in Event, Genuine(e), Settles(e)
  PROVE  Settles(e)'
<1>1. /\ row.version \in Nat /\ row.status \in Nat /\ row'.version \in Nat /\ row'.status \in Nat
      /\ \A f \in Fields : row.fields[f] \in Nat /\ row'.fields[f] \in Nat
      /\ e.seq \in Nat
  BY DEF Inv, TypeOK, Row, Event
<1>2. CASE Shown(e)
  <2>1. Shown(e)'
    BY <1>1, <1>2 DEF Shown, Above, Genuine
  <2> QED BY <2>1 DEF Settles
<1>3. CASE Outrun(e)
  <2>1. e.kind = "StateChanged" /\ e.seq < row'.version
    BY <1>1, <1>3 DEF Outrun, Above
  <2>2. CASE row'.status = row'.version
    BY <2>1, <2>2, <1>1 DEF Settles, Shown
  <2>3. CASE commands[row'.version].kind = "ObjectUpdated"
    BY <2>1, <2>3, <1>1 DEF Settles, Outrun
  <2>4. row' # NoRow
    BY <2>1, <1>1 DEF NoRow
  <2> QED BY <2>2, <2>3, <2>4 DEF RowTrue
<1> QED BY <1>2, <1>3 DEF Settles

(* The statement, when it matches and when it does not.                    *)
LEMMA StatementTells ==
  ASSUME Inv, RowTrue(row), NEW e \in Event, Genuine(e)
  PROVE  /\ Matches(e) => RowTrue(Written(e)) /\ ShownIn(Written(e), e) /\ Written(e) # NoRow
         /\ ~Matches(e) /\ (row # NoRow \/ e.kind = "ObjectCreated") => Settles(e)
<1>1. /\ row.version \in Nat /\ row.status \in Nat /\ row.status <= row.version
      /\ row.fields \in [Fields -> Nat] /\ row \in Row
      /\ \A f \in Fields : row.fields[f] \in Nat
  BY DEF Inv, TypeOK, Row
<1>2. e.seq \in Nat /\ e.seq >= 1 /\ e.kind \in Kinds
  BY DEF Event
<1>3. CASE e.kind = "FieldChanged"
  <2>1. e.agg \in Fields
    BY <1>3 DEF Genuine
  <2>2. Written(e) = [row EXCEPT !.fields[e.agg] = e.seq]
    BY <1>3 DEF Written
  <2>3. /\ Written(e).version = row.version /\ Written(e).status = row.status
        /\ Written(e).fields = [row.fields EXCEPT ![e.agg] = e.seq]
    BY <2>2, <1>1 DEF Row
  <2>4. Written(e).fields[e.agg] = e.seq
    BY <2>1, <2>3, <1>1
  <2>5. Matches(e) => RowTrue(Written(e))
    BY <2>3, <1>3 DEF RowTrue, Matches
  <2>6. ShownIn(Written(e), e)
    BY <2>4, <1>2, <1>3 DEF ShownIn
  <2>7. Written(e) # NoRow
    BY <2>1, <2>4, <1>2 DEF NoRow
  <2>8. ~Matches(e) /\ row # NoRow => Shown(e)
    BY <2>1, <1>1, <1>2, <1>3 DEF Matches, Shown
  <2> QED BY <2>5, <2>6, <2>7, <2>8, <1>3 DEF Settles
<1>4. CASE e.kind = "ObjectUpdated"
  <2>1. commands[e.seq].kind = "ObjectUpdated"
    BY <1>4 DEF Genuine
  <2>2. Written(e) = [row EXCEPT !.version = IF row.version < e.seq THEN e.seq ELSE row.version]
    BY <1>4 DEF Written
  <2>3. /\ Written(e).status = row.status
        /\ Written(e).version = IF row.version < e.seq THEN e.seq ELSE row.version
    BY <2>2, <1>1 DEF Row
  <2>4. Matches(e) => RowTrue(Written(e))
    BY <2>1, <2>3, <1>1, <1>2, <1>4 DEF RowTrue, Matches
  <2>5. ShownIn(Written(e), e)
    BY <2>3, <1>1, <1>2, <1>4 DEF ShownIn
  <2>6. Written(e) # NoRow
    BY <2>3, <1>1, <1>2 DEF NoRow
  <2>7. Matches(e) \/ row = NoRow
    BY <1>4 DEF Matches
  <2> QED BY <2>4, <2>5, <2>6, <2>7, <1>4
<1>5. CASE e.kind \in {"ObjectCreated", "StateChanged"}
  <2>1. commands[e.seq].kind # "ObjectUpdated"
    BY <1>5 DEF Genuine
  <2>2. Written(e) = [row EXCEPT !.version = e.seq, !.status = e.seq]
    BY <1>5 DEF Written
  <2>3. Written(e).version = e.seq /\ Written(e).status = e.seq
    BY <2>2, <1>1 DEF Row
  <2>4. RowTrue(Written(e))
    BY <2>3, <1>2 DEF RowTrue
  <2>5. ShownIn(Written(e), e)
    BY <2>3, <1>2, <1>5 DEF ShownIn
  <2>6. Written(e) # NoRow
    BY <2>3, <1>2 DEF NoRow
  <2>7. ASSUME ~Matches(e), row # NoRow, e.kind = "StateChanged" PROVE Settles(e)
    <3>1. e.seq <= row.version
      BY <2>7, <1>1, <1>2 DEF Matches
    <3>2. CASE row.status = row.version
      BY <2>7, <3>1, <3>2, <1>1, <1>2 DEF Settles, Shown
    <3>3. CASE commands[row.version].kind = "ObjectUpdated"
      <4>1. e.seq < row.version
        BY <2>1, <3>1, <3>3, <1>1, <1>2
      <4> QED BY <2>7, <3>3, <4>1, <1>1, <1>2 DEF Settles, Outrun
    <3> QED BY <2>7, <3>2, <3>3 DEF RowTrue
  <2>8. ASSUME ~Matches(e), e.kind = "ObjectCreated" PROVE Settles(e)
    <3>1. row # NoRow /\ e.seq = 1
      BY <2>8 DEF Matches, Genuine
    <3>2. row.status >= 1
      BY <3>1 DEF RowTrue
    <3> QED BY <2>8, <3>1, <3>2, <1>1 DEF Settles, Shown
  <2> QED BY <2>4, <2>5, <2>6, <2>7, <2>8, <1>5
<1> QED BY <1>2, <1>3, <1>4, <1>5 DEF Kinds

(* The relay sends what the history says.                                  *)
LEMMA HistoryIsGenuine ==
  ASSUME commands \in Histories, NEW a \in Aggregates, NEW n \in 1 .. Count(a)
  PROVE  Genuine(EventOf(a, n))
<1>1. /\ commands \in Seq(Command)
      /\ \A v \in DOMAIN commands : (commands[v].kind = "ObjectCreated") = (v = 1)
  BY ParametersValid DEF WellFormed
<1>2. CASE a = Object
  <2>1. DOMAIN commands = 1 .. Len(commands) /\ Len(commands) \in Nat
    BY <1>1
  <2>2. Changes(a) = 1 .. Len(commands)
    BY <1>2, <2>1 DEF Changes
  <2>3. Count(a) = Len(commands)
    <3>1. 1 \in Int /\ Len(commands) \in Int
      BY <2>1
    <3>2. Cardinality(1 .. Len(commands)) = IF 1 > Len(commands) THEN 0 ELSE Len(commands) - 1 + 1
      BY ONLY <3>1, FS_Interval, Zenon
    <3> QED BY <2>1, <2>2, <3>2 DEF Count
  <2>4. n \in DOMAIN commands
    BY <2>1, <2>3
  <2>5. commands[n] \in Command
    BY <1>1, <2>1, <2>4
  <2>6. commands[n].kind # "FieldChanged"
    BY <2>5 DEF Command
  <2>7. EventOf(a, n).kind = commands[n].kind /\ EventOf(a, n).seq = n
    BY <1>2 DEF EventOf
  <2> QED BY <1>1, <2>4, <2>6, <2>7 DEF Genuine
<1>3. CASE a # Object
  BY <1>3 DEF Genuine, EventOf, Aggregates
<1> QED BY <1>2, <1>3

(* The message a server is at is underway.                                 *)
LEMMA CurrentIsUnderway ==
  ASSUME Inv, NEW s \in Servers, inbox[s] # << >>
  PROVE  Current(s) \in Event /\ Underway(Current(s))
<1>1. inbox[s] \in Seq(Event) /\ OnIt(Current(s), inbox[s])
  BY TailOnIt DEF Inv, TypeOK, Current
<1>2. Current(s) \in Event
  BY CurrentIsEvent DEF Inv
<1> QED BY <1>1, <1>2, UnderwayMeans

(* Messages move, but only the relay brings new ones: Tail brings none.    *)
LEMMA TailIsOld ==
  ASSUME NEW q \in Seq(Event), q # << >>, NEW e, OnIt(e, Tail(q))
  PROVE  OnIt(e, q)
<1>1. PICK i \in DOMAIN Tail(q) : Tail(q)[i] = e
  BY DEF OnIt
<1>2. i + 1 \in DOMAIN q /\ q[i + 1] = e
  BY <1>1
<1> QED BY <1>2 DEF OnIt

(* An append brings the one message.                                       *)
LEMMA AppendIsOld ==
  ASSUME NEW q \in Seq(Event), NEW x \in Event, NEW e, OnIt(e, Append(q, x))
  PROVE  OnIt(e, q) \/ e = x
<1>1. PICK i \in DOMAIN Append(q, x) : Append(q, x)[i] = e
  BY DEF OnIt
<1>2. (i \in DOMAIN q /\ q[i] = e) \/ e = x
  BY <1>1
<1> QED BY <1>2 DEF OnIt

(* A concatenation brings none.                                            *)
LEMMA ConcatIsOld ==
  ASSUME NEW q \in Seq(Event), NEW r \in Seq(Event), NEW e, OnIt(e, q \o r)
  PROVE  OnIt(e, q) \/ OnIt(e, r)
<1>1. PICK i \in DOMAIN (q \o r) : (q \o r)[i] = e
  BY DEF OnIt
<1>2. q \o r \in Seq(Event) /\ Len(q \o r) = Len(q) + Len(r)
  BY ConcatProperties
<1>3. i \in 1 .. (Len(q) + Len(r)) /\ Len(q) \in Nat /\ Len(r) \in Nat
  BY <1>1, <1>2
<1>4. CASE i <= Len(q)
  <2>1. (q \o r)[i] = q[i]
    BY <1>3, <1>4, ConcatProperties
  <2> QED BY <1>1, <1>3, <1>4, <2>1 DEF OnIt
<1>5. CASE i > Len(q)
  <2>1. (q \o r)[i] = r[i - Len(q)]
    BY <1>3, <1>5, ConcatProperties
  <2>2. i - Len(q) \in DOMAIN r
    BY <1>3, <1>5
  <2> QED BY <1>1, <2>1, <2>2 DEF OnIt
<1> QED BY <1>3, <1>4, <1>5

(* Deliveries, acknowledgements and failures bring none.                   *)
LEMMA NoNewMessages ==
  ASSUME Inv, NEW s \in Servers,
         Deliver(s) \/ Skip(s) \/ Ack(s) \/ Fail(s) \/ CommitFails(s) \/ Crash(s),
         NEW e, Underway(e)'
  PROVE  Underway(e)
<1>1. queue \in Seq(Event) /\ inbox \in [Servers -> Seq(Event)] /\ inbox[s] \in Seq(Event)
  BY DEF Inv, TypeOK
<1>2. OnIt(e, queue') \/ \E q \in Servers : OnIt(e, inbox'[q])
  BY DEF Underway, OnIt
<1>3. ASSUME /\ OnIt(e, queue') => OnIt(e, queue) \/ OnIt(e, inbox[s])
             /\ OnIt(e, inbox'[s]) => OnIt(e, queue) \/ OnIt(e, inbox[s])
             /\ \A q \in Servers \ {s} : inbox'[q] = inbox[q]
      PROVE  Underway(e)
  <2>1. OnIt(e, queue) \/ \E q \in Servers : OnIt(e, inbox[q])
    BY <1>2, <1>3
  <2> QED BY <2>1, UnderwayMeans
<1>4. CASE Deliver(s)
  <2>1. /\ queue # << >> /\ queue' = Tail(queue)
        /\ inbox'[s] = Append(inbox[s], Head(queue))
        /\ \A q \in Servers \ {s} : inbox'[q] = inbox[q]
    BY <1>1, <1>4 DEF Deliver
  <2>2. Head(queue) \in Event /\ OnIt(Head(queue), queue)
    BY <1>1, <2>1, TailOnIt
  <2>3. OnIt(e, queue') => OnIt(e, queue)
    BY <1>1, <2>1, TailIsOld
  <2>4. OnIt(e, inbox'[s]) => OnIt(e, inbox[s]) \/ OnIt(e, queue)
    BY <1>1, <2>1, <2>2, AppendIsOld
  <2> QED BY <1>3, <2>1, <2>3, <2>4
<1>5. CASE Skip(s) \/ Ack(s)
  <2>1. /\ inbox[s] # << >> /\ queue' = queue /\ inbox'[s] = Tail(inbox[s])
        /\ \A q \in Servers \ {s} : inbox'[q] = inbox[q]
    BY <1>1, <1>5 DEF Skip, Ack, Inv, TypeOK
  <2>2. OnIt(e, inbox'[s]) => OnIt(e, inbox[s])
    BY <1>1, <2>1, TailIsOld
  <2> QED BY <1>3, <2>1, <2>2
<1>6. CASE Fail(s) \/ CommitFails(s)
  <2>1. /\ inbox[s] # << >> /\ queue' = << Current(s) >> \o queue /\ inbox'[s] = Tail(inbox[s])
        /\ \A q \in Servers \ {s} : inbox'[q] = inbox[q]
    BY <1>1, <1>6 DEF Fail, CommitFails, Requeue, Inv, TypeOK
  <2>2. OnIt(e, inbox'[s]) => OnIt(e, inbox[s])
    BY <1>1, <2>1, TailIsOld
  <2>3. PICK x \in Event : x = Current(s) /\ OnIt(x, inbox[s])
    BY <1>1, <2>1, TailOnIt DEF Current
  <2>4. << x >> \in Seq(Event) /\ (OnIt(e, << x >>) => e = x)
    BY DEF OnIt
  <2>5. OnIt(e, << x >> \o queue) => OnIt(e, << x >>) \/ OnIt(e, queue)
    BY <1>1, <2>4, ConcatIsOld
  <2> QED BY <1>3, <2>1, <2>2, <2>3, <2>4, <2>5
<1>7. CASE Crash(s)
  <2>1. /\ queue' = inbox[s] \o queue /\ inbox'[s] = << >>
        /\ \A q \in Servers \ {s} : inbox'[q] = inbox[q]
    BY <1>1, <1>7 DEF Crash
  <2>2. ~OnIt(e, inbox'[s])
    BY <2>1 DEF OnIt
  <2>3. OnIt(e, queue') => OnIt(e, inbox[s]) \/ OnIt(e, queue)
    BY <1>1, <2>1, ConcatIsOld
  <2> QED BY <1>3, <2>1, <2>2, <2>3
<1> QED BY <1>4, <1>5, <1>6, <1>7

(* Steps that leave the row alone and project nothing keep what is told.   *)
LEMMA QuietSteps ==
  ASSUME Inv, Consistent, UNCHANGED << commands, row, consumed, missed >>,
         \A q \in Servers : tx'[q].pc = "projected" => tx'[q] = tx[q] /\ Current(q)' = Current(q),
         \A e \in Event : Underway(e)' => Underway(e) \/ Genuine(e)
  PROVE  Consistent'
<1>1. \A e \in Event : (Underway(e) \/ e \in consumed)' => Genuine(e)'
  BY DEF Consistent, Genuine
<1>2. RowTrue(row)'
  BY DEF Consistent, RowTrue
<1>3. \A q \in Servers : Tells(q)'
  BY DEF Consistent, Tells, RowTrue, ShownIn, Settles, Shown, Outrun
<1>4. ConsumedShows'
  BY DEF Consistent, ConsumedShows, Shown, Outrun
<1> QED BY <1>1, <1>2, <1>3, <1>4 DEF Consistent

(* What the relay sends is genuine.                                        *)
LEMMA RelayTells ==
  ASSUME Inv, Consistent, NEW a \in Aggregates,
         Send(a) \/ \E i \in 1 .. sent[a] : Resend(a, i)
  PROVE  Consistent'
<1>1. commands \in Histories /\ queue \in Seq(Event) /\ sent[a] \in Nat /\ sent[a] <= Count(a)
  BY DEF Inv, TypeOK
<1>2. Count(a) \in Nat /\ \A n \in 1 .. Count(a) : EventOf(a, n) \in Event
  BY <1>1, HistoryGivesEvents
<1>3. PICK n \in 1 .. Count(a) : queue' = Append(queue, EventOf(a, n))
  <2>1. CASE Send(a)
    <3>1. sent[a] + 1 \in 1 .. Count(a) /\ queue' = Append(queue, EventOf(a, sent[a] + 1))
      BY <1>1, <1>2, <2>1 DEF Send
    <3> QED BY <3>1
  <2>2. ASSUME NEW i \in 1 .. sent[a], Resend(a, i)
        PROVE  i \in 1 .. Count(a) /\ queue' = Append(queue, EventOf(a, i))
    BY <1>1, <1>2, <2>2 DEF Resend
  <2> QED BY <2>1, <2>2
<1>4. PICK x \in Event : x = EventOf(a, n) /\ Genuine(x)
  <2>1. Genuine(EventOf(a, n)) /\ EventOf(a, n) \in Event
    BY <1>1, <1>2, HistoryIsGenuine
  <2> QED BY <2>1
<1>5. queue' = Append(queue, x) /\ UNCHANGED << commands, inbox, tx, row, consumed, missed >>
  BY <1>3, <1>4 DEF Send, Resend, tables
<1>6. ASSUME NEW e \in Event, Underway(e)' PROVE Underway(e) \/ Genuine(e)
  <2>1. OnIt(e, queue') \/ \E q \in Servers : OnIt(e, inbox[q])
    BY <1>5, <1>6 DEF Underway, OnIt
  <2>2. OnIt(e, queue') => OnIt(e, queue) \/ e = x
    BY <1>1, <1>5, AppendIsOld
  <2> QED BY <1>4, <2>1, <2>2, UnderwayMeans
<1>7. \A q \in Servers : tx'[q] = tx[q] /\ Current(q)' = Current(q)
  BY <1>5 DEF Current
<1> QED BY <1>5, <1>6, <1>7, QuietSteps

(* Messages that move tell nothing new.                                    *)
LEMMA MovesTell ==
  ASSUME Inv, Consistent, NEW s \in Servers,
         Deliver(s) \/ Skip(s) \/ Ack(s) \/ Fail(s) \/ CommitFails(s) \/ Crash(s)
  PROVE  Consistent'
<1>1. UNCHANGED << commands, row, consumed, missed >>
  BY DEF Deliver, Skip, Ack, Fail, CommitFails, Crash, tables
<1>2. \A e \in Event : Underway(e)' => Underway(e)
  BY NoNewMessages
<1>3. ASSUME NEW q \in Servers \ {s}
      PROVE  tx'[q] = tx[q] /\ Current(q)' = Current(q)
  BY DEF Deliver, Skip, Ack, Fail, CommitFails, Crash, Requeue, Current, Inv, TypeOK
<1>4. ASSUME tx'[s].pc = "projected"
      PROVE  tx'[s] = tx[s] /\ Current(s)' = Current(s)
  <2>1. CASE Deliver(s)
    <3>1. tx'[s] = tx[s] /\ tx[s].pc # "idle"
      BY <2>1, <1>4 DEF Deliver
    <3>2. inbox[s] # << >> /\ inbox[s] \in Seq(Event) /\ queue \in Seq(Event) /\ queue # << >>
      BY <2>1, <3>1 DEF Deliver, Inv, TypeOK
    <3>3. PICK x \in Event : x = Head(queue)
      BY <3>2, TailOnIt
    <3>4. inbox'[s] = Append(inbox[s], x)
      BY <2>1, <3>3 DEF Deliver, Inv, TypeOK
    <3>5. Head(inbox'[s]) = Head(inbox[s])
      BY <3>2, <3>4, AppendOnIt
    <3> QED BY <3>1, <3>5 DEF Current
  <2>2. CASE Skip(s)
    BY <2>2, <1>4 DEF Skip
  <2>3. CASE Ack(s) \/ Fail(s) \/ CommitFails(s) \/ Crash(s)
    <3>1. tx'[s] = Idle
      BY <2>3 DEF Ack, Fail, CommitFails, Crash, Requeue, Inv, TypeOK
    <3> QED BY <3>1, <1>4, IdleIsTx
  <2> QED BY <2>1, <2>2, <2>3
<1> QED BY <1>1, <1>2, <1>3, <1>4, QuietSteps

(* A message taken up changes nothing yet.                                 *)
LEMMA TakeTells ==
  ASSUME Inv, Consistent, NEW s \in Servers, Take(s) PROVE Consistent'
<1>1. UNCHANGED << commands, queue, inbox, row, consumed, missed >>
  BY DEF Take, delivery, tables
<1>2. \A e \in Event : Underway(e)' => Underway(e)
  BY <1>1 DEF Underway
<1>3. \A q \in Servers \ {s} : tx'[q] = tx[q]
  BY DEF Take, Inv, TypeOK
<1>4. tx'[s].pc = "checked"
  BY DEF Take, Inv, TypeOK, Tx
<1>5. \A q \in Servers : Current(q)' = Current(q)
  BY <1>1 DEF Current
<1> QED BY <1>1, <1>2, <1>3, <1>4, <1>5, QuietSteps

(* The row a statement writes shows its event; one that writes none had it. *)
LEMMA ProjectTells ==
  ASSUME Inv, Consistent, NEW s \in Servers, Project(s) PROVE Consistent'
<1>1. tx[s].pc = "checked" /\ inbox[s] # << >>
  BY DEF Inv, TypeOK, Project
<1>2. PICK e \in Event : e = Current(s) /\ Genuine(e)
  <2>1. Current(s) \in Event /\ Underway(Current(s))
    BY <1>1, CurrentIsUnderway
  <2> QED BY <2>1 DEF Consistent
<1>3. UNCHANGED << commands, queue, inbox, row, consumed, missed >>
  BY DEF Project, delivery, tables
<1>4. PICK w : w = IF Matches(e) THEN Written(e) ELSE NoRow
  OBVIOUS
<1>5. /\ tx'[s].found = (row # NoRow) /\ tx'[s].write = w
      /\ \A q \in Servers \ {s} : tx'[q] = tx[q]
  BY <1>2, <1>4 DEF Project, Inv, TypeOK
<1>6. /\ Matches(e) => RowTrue(Written(e)) /\ ShownIn(Written(e), e) /\ Written(e) # NoRow
      /\ ~Matches(e) /\ (row # NoRow \/ e.kind = "ObjectCreated") => Settles(e)
  BY <1>2, StatementTells DEF Consistent
<1>7. /\ w # NoRow => RowTrue(w) /\ ShownIn(w, e)
      /\ w = NoRow /\ (row # NoRow \/ e.kind = "ObjectCreated") => Settles(e)
  BY <1>4, <1>6
<1>8. ASSUME NEW q \in Servers PROVE Tells(q)'
  <2>1. Current(q)' = Current(q)
    BY <1>3 DEF Current
  <2>2. CASE q = s
    <3>1. Settles(e) => Settles(e)'
      BY <1>3 DEF Settles, Shown, Outrun
    <3>2. Current(s)' = e
      BY <2>1, <2>2, <1>2
    <3>3. RowTrue(w) => RowTrue(w)'
      BY <1>3 DEF RowTrue
    <3>4. /\ tx'[s].write # NoRow => RowTrue(tx[s].write)' /\ ShownIn(tx[s].write, e)'
          /\ tx'[s].write = NoRow /\ (tx'[s].found \/ e.kind = "ObjectCreated") => Settles(e)'
      BY <1>3, <1>5, <1>7, <3>1, <3>3 DEF RowTrue, ShownIn
    <3>5. ShownIn(tx[s].write, e)' => ShownIn(tx[s].write, Current(s))'
      BY <3>2 DEF ShownIn
    <3>6. Settles(e)' => Settles(Current(s))'
      BY <3>2 DEF Settles, Shown, Outrun
    <3> QED BY <2>2, <3>2, <3>4, <3>5, <3>6 DEF Tells
  <2>3. CASE q # s
    BY <2>1, <2>3, <1>3, <1>5 DEF Consistent, Tells, RowTrue, ShownIn, Settles, Shown, Outrun
  <2> QED BY <2>2, <2>3
<1>9. \A f \in Event : (Underway(f) \/ f \in consumed)' => Genuine(f)'
  BY <1>3 DEF Consistent, Underway, Genuine
<1>10. RowTrue(row)' /\ ConsumedShows'
  BY <1>3 DEF Consistent, RowTrue, ConsumedShows, Shown, Outrun
<1> QED BY <1>8, <1>9, <1>10 DEF Consistent

(* The commit shows the event, or finds it missed.                         *)
LEMMA CommitTells ==
  ASSUME Inv, Consistent, NEW s \in Servers, CommitApply(s) PROVE Consistent'
<1>1. tx[s].pc = "projected" /\ inbox[s] # << >>
  BY DEF Inv, TypeOK, CommitApply
<1>2. PICK e \in Event : e = Current(s) /\ Genuine(e)
  <2>1. Current(s) \in Event /\ Underway(Current(s))
    BY <1>1, CurrentIsUnderway
  <2> QED BY <2>1 DEF Consistent
<1>3. /\ UNCHANGED << commands, queue, inbox >>
      /\ consumed' = consumed \cup {e}
      /\ row' = IF tx[s].write = NoRow THEN row ELSE tx[s].write
      /\ missed' = IF tx[s].found \/ e.kind = "ObjectCreated" THEN missed ELSE missed \cup {e}
  BY <1>2 DEF CommitApply, delivery
<1>4. /\ tx'[s].pc = "done"
      /\ \A q \in Servers \ {s} : tx'[q] = tx[q]
  BY IdleIsTx DEF CommitApply, Inv, TypeOK
<1>5. /\ tx[s].write # NoRow => RowTrue(tx[s].write) /\ ShownIn(tx[s].write, e)
      /\ tx[s].write = NoRow /\ (tx[s].found \/ e.kind = "ObjectCreated") => Settles(e)
  BY <1>1, <1>2 DEF Consistent, Tells
<1>6. row' \in Row /\ Above(row') /\ RowTrue(row')
  BY <1>3, <1>5, CommitRaises DEF Consistent
<1>7. ASSUME NEW f \in Event, Genuine(f), Settles(f) PROVE Settles(f)'
  BY <1>3, <1>6, <1>7, StaysSettled
<1>8. \A f \in Event : (Underway(f) \/ f \in consumed)' => Genuine(f)'
  BY <1>2, <1>3 DEF Consistent, Underway, Genuine
<1>9. RowTrue(row)'
  BY <1>3, <1>6 DEF RowTrue
<1>10. ASSUME NEW q \in Servers PROVE Tells(q)'
  <2>1. CASE q = s
    BY <2>1, <1>4 DEF Tells
  <2>2. CASE q # s /\ tx[q].pc = "projected"
    <3>1. PICK f \in Event : f = Current(q) /\ Genuine(f)
      <4>1. inbox[q] # << >>
        BY <2>2 DEF Inv, TypeOK
      <4>2. Current(q) \in Event /\ Underway(Current(q))
        BY <4>1, CurrentIsUnderway
      <4> QED BY <4>2 DEF Consistent
    <3>2. Current(q)' = f
      BY <3>1, <1>3 DEF Current
    <3>3. /\ tx[q].write # NoRow => RowTrue(tx[q].write) /\ ShownIn(tx[q].write, f)
          /\ tx[q].write = NoRow /\ (tx[q].found \/ f.kind = "ObjectCreated") => Settles(f)
      BY <2>2, <3>1 DEF Consistent, Tells
    <3>4. /\ tx[q].write # NoRow => RowTrue(tx[q].write)' /\ ShownIn(tx[q].write, f)'
          /\ tx[q].write = NoRow /\ (tx[q].found \/ f.kind = "ObjectCreated") => Settles(f)'
      <4>1. tx'[q] = tx[q]
        BY <2>2, <1>4
      <4>2. RowTrue(tx[q].write) => RowTrue(tx[q].write)'
        BY <4>1, <1>3 DEF RowTrue
      <4>3. ShownIn(tx[q].write, f) => ShownIn(tx[q].write, f)'
        BY <4>1 DEF ShownIn
      <4> QED BY <3>1, <3>3, <4>2, <4>3, <1>7
    <3>5. ShownIn(tx[q].write, f)' => ShownIn(tx[q].write, Current(q))'
      BY <3>2 DEF ShownIn
    <3>6. Settles(f)' => Settles(Current(q))'
      BY <3>2 DEF Settles, Shown, Outrun
    <3>7. tx'[q] = tx[q]
      BY <2>2, <1>4
    <3> QED BY <3>2, <3>4, <3>5, <3>6, <3>7 DEF Tells
  <2>3. CASE q # s /\ tx[q].pc # "projected"
    BY <2>3, <1>4 DEF Tells
  <2> QED BY <2>1, <2>2, <2>3
<1>11. ASSUME NEW f \in consumed' PROVE (Settles(f) \/ f \in missed)'
  <2>1. missed \subseteq missed'
    BY <1>3
  <2>2. CASE f \in consumed
    <3>1. f \in Event /\ Genuine(f)
      BY <2>2 DEF Inv, TypeOK, Consistent
    <3>2. Settles(f) \/ f \in missed
      BY <2>2 DEF Consistent, ConsumedShows, Settles
    <3> QED BY <2>1, <3>1, <3>2, <1>7
  <2>3. CASE f = e
    <3>1. CASE tx[s].write # NoRow
      <4>1. row' = tx[s].write /\ ShownIn(tx[s].write, e)
        BY <3>1, <1>3, <1>5
      <4>2. Shown(f)'
        BY <2>3, <4>1 DEF Shown, ShownIn
      <4> QED BY <4>2 DEF Settles
    <3>2. CASE tx[s].write = NoRow /\ (tx[s].found \/ e.kind = "ObjectCreated")
      BY <3>2, <2>3, <1>2, <1>5, <1>7
    <3>3. CASE ~(tx[s].found \/ e.kind = "ObjectCreated")
      BY <3>3, <2>3, <1>3
    <3> QED BY <3>1, <3>2, <3>3
  <2> QED BY <2>2, <2>3, <1>3
<1>12. ConsumedShows'
  BY <1>11 DEF ConsumedShows, Settles
<1> QED BY <1>8, <1>9, <1>10, <1>12 DEF Consistent

(***************************************************************************)
(* ConsumedShows: no interleaving of the servers loses an update: what is  *)
(* marked consumed shows in the row, but for an event that came before the *)
(* row and a status outrun by a later ObjectUpdated.                       *)
(***************************************************************************)
THEOREM NoLostUpdate == Spec => []ConsumedShows
<1>1. Init => Consistent
  <2> SUFFICES ASSUME Init PROVE Consistent
    OBVIOUS
  <2>1. \A e : ~Underway(e)
    BY DEF Init, Underway
  <2>2. RowTrue(row) /\ ConsumedShows /\ consumed = {}
    BY DEF Init, RowTrue, ConsumedShows
  <2>3. \A s \in Servers : Tells(s)
    BY IdleIsTx DEF Init, Tells
  <2> QED BY <2>1, <2>2, <2>3 DEF Consistent
<1>2. Inv /\ Consistent /\ [Next]_vars => Consistent'
  <2> SUFFICES ASSUME Inv, Consistent, [Next]_vars PROVE Consistent'
    OBVIOUS
  <2>1. ASSUME NEW a \in Aggregates, Send(a) \/ \E i \in 1 .. sent[a] : Resend(a, i)
        PROVE  Consistent'
    BY <2>1, RelayTells
  <2>2. ASSUME NEW s \in Servers, Deliver(s) \/ Fail(s) \/ CommitFails(s) \/ Crash(s)
        PROVE  Consistent'
    BY <2>2, MovesTell
  <2>3. ASSUME NEW s \in Servers, Consume(s) PROVE Consistent'
    BY <2>3, MovesTell, TakeTells, ProjectTells, CommitTells DEF Consume
  <2>4. CASE UNCHANGED vars
    <3>1. UNCHANGED << commands, queue, inbox, tx, consumed, row, missed >>
      BY <2>4 DEF vars, delivery, tables
    <3>2. \A e \in Event : Underway(e)' => Underway(e)
      BY <3>1 DEF Underway
    <3>3. \A q \in Servers : tx'[q] = tx[q] /\ Current(q)' = Current(q)
      BY <3>1 DEF Current
    <3> QED BY <3>1, <3>2, <3>3, QuietSteps
  <2> QED BY <2>1, <2>2, <2>3, <2>4 DEF Next
<1>3. Consistent => ConsumedShows
  BY DEF Consistent
<1> QED BY <1>1, <1>2, <1>3, Invariance, PTL DEF Spec

=============================================================================
