-------------------------- MODULE ChangeSetsProofs --------------------------
(***************************************************************************)
(* An item of a change set is written once, and only while the set is      *)
(* open; its status and the answers tell what was written: for any number  *)
(* of threads, sets, items, objects and commands.                          *)
(*                                                                         *)
(* The argument: the status of a set is read without a lock, and a         *)
(* rejection may commit in between.  What protects an item is the lock on  *)
(* the rows of its set: a confirmation reads the items again under it, and *)
(* until its commit the ones it picked stay PROPOSED, because whoever      *)
(* decides an item holds that lock.  An item that is decided is not        *)
(* PROPOSED again, so what was told of it stays true.                      *)
(***************************************************************************)
EXTENDS ChangeSets, FiniteSetTheorems, WellFoundedInduction, TLAPS

(* A confirmation that has picked its items.                               *)
Confirming(t) ==
  \/ tx[t].pc \in {"items", "version", "write"}
  \/ tx[t].pc = "commit" /\ tx[t].req.kind = "ConfirmAiChange"

(* Which command a thread is in the middle of.                             *)
Busy(t) ==
  tx[t].pc # "idle" =>
    /\ tx[t].req \in Requests
    /\ tx[t].reply = "none"
    /\ tx[t].pc \in {"status", "takeItems"} => tx[t].done = Nothing /\ tx[t].wrote = {}
    /\ tx[t].pc = "status" => tx[t].req.kind \in {"RejectAiChange", "ConfirmAiChange"}
    /\ tx[t].pc \in {"takeItems", "items", "version", "write"} => tx[t].req.kind = "ConfirmAiChange"
    /\ tx[t].pc \in {"takeSet", "rejectItems"} => tx[t].req.kind = "RejectAiChange"

Holding(t) ==
  tx[t].pc \in {"items", "version", "write", "commit"} => ItemsLock(tx[t].req.set) \in held[t]

(* The items a confirmation still has to do, and those it has done.        *)
Touched(t) == tx[t].todo \cup tx[t].done.applied \cup tx[t].done.skipped

Picked(t) ==
  Confirming(t) =>
    /\ \A q \in Touched(t) : /\ q \in Items(tx[t].req.set)
                             /\ itemStatus[<< tx[t].req.set, q >>] = "PROPOSED"
    /\ tx[t].todo \cap (tx[t].done.applied \cup tx[t].done.skipped) = {}
    /\ tx[t].done.applied \cap tx[t].done.skipped = {}
    /\ tx[t].wrote = tx[t].done.applied
    /\ tx[t].pc \in {"version", "write"} => tx[t].todo # {}
    /\ tx[t].pc = "version" => Target(t) \in Objects

(* A result that is true of the items of s, and remains so.                *)
Told(s, result) ==
  /\ \A q \in result.applied : << s, q >> \in AllItems /\ written[<< s, q >>] = 1
  /\ \A q \in result.skipped : /\ << s, q >> \in AllItems /\ written[<< s, q >>] = 0
                               /\ itemStatus[<< s, q >>] \in {"SKIPPED", "REJECTED"}

(* The same, after a step, of a set and a result given now.                *)
ToldNext(s, result) ==
  /\ \A q \in result.applied : << s, q >> \in AllItems /\ written'[<< s, q >>] = 1
  /\ \A q \in result.skipped : /\ << s, q >> \in AllItems /\ written'[<< s, q >>] = 0
                               /\ itemStatus'[<< s, q >>] \in {"SKIPPED", "REJECTED"}

Answered(t) ==
  tx[t].reply = "accepted" => tx[t].req \in Requests /\ Told(tx[t].req.set, tx[t].result)

ThreadInv(t) == Busy(t) /\ Holding(t) /\ Picked(t) /\ Answered(t)

Exclusive == \A t, u \in Threads : t # u => held[t] \cap held[u] = {}

Logged ==
  /\ \A k \in Keys : log[k] # None => Told(log[k].req.set, log[k].result)
  /\ \A s \in Sets : Told(s, latest[s])

NewIsUndecided ==
  \A s \in Sets : setStatus[s] = "none" => \A q \in Items(s) : itemStatus[<< s, q >>] = "none"

(* DecidedIsSettled, item by item.                                         *)
ItemsFollow ==
  \A s \in Sets : \A q \in Items(s) :
    /\ setStatus[s] = "CONFIRMED" => itemStatus[<< s, q >>] # "PROPOSED"
    /\ setStatus[s] = "REJECTED" => itemStatus[<< s, q >>] = "REJECTED"

Inv ==
  /\ TypeOK
  /\ Exclusive
  /\ ItemsTellWhatIsWritten
  /\ DecidedIsSettled
  /\ NewIsUndecided
  /\ Logged
  /\ \A t \in Threads : ThreadInv(t)

(* What a step of t may do to the items.                                   *)
Decides(t) ==
  \A i \in AllItems :
    \/ itemStatus'[i] = itemStatus[i] /\ written'[i] = written[i]
    \/ itemStatus[i] = "none" /\ itemStatus'[i] = "PROPOSED" /\ written'[i] = written[i]
    \/ /\ ItemsLock(i[1]) \in held[t]
       /\ \/ itemStatus'[i] = "REJECTED" /\ written'[i] = written[i]
          \/ itemStatus[i] = "PROPOSED" /\ itemStatus'[i] = "SKIPPED" /\ written'[i] = written[i]
          \/ itemStatus[i] = "PROPOSED" /\ itemStatus'[i] = "APPLIED" /\ written'[i] = written[i] + 1

-----------------------------------------------------------------------------
(* The items of a set are numbered.                                        *)
LEMMA ItemFacts ==
  /\ \A s \in Sets : /\ Items(s) \subseteq Nat /\ IsFiniteSet(Items(s))
                     /\ \A q \in Items(s) : << s, q >> \in AllItems /\ Targets[s][q] \in Things
  /\ \A i \in AllItems : i[1] \in Sets /\ i[2] \in Items(i[1]) /\ i = << i[1], i[2] >>
<1>1. ASSUME NEW s \in Sets
      PROVE  /\ Items(s) \subseteq Nat /\ IsFiniteSet(Items(s))
             /\ \A q \in Items(s) : << s, q >> \in AllItems /\ Targets[s][q] \in Things
  <2>1. Targets[s] \in Seq(Things)
    BY ChangeSetsAssumption
  <2>2. Items(s) = 1 .. Len(Targets[s]) /\ Len(Targets[s]) \in Nat
    BY <2>1 DEF Items
  <2>3. IsFiniteSet(Items(s))
    BY <2>2, FS_Interval
  <2>4. \A q \in Items(s) : << s, q >> \in AllItems
    <3> SUFFICES ASSUME NEW q \in Items(s)
                 PROVE  << s, q >> \in AllItems
      OBVIOUS
    <3>1. << s, q >> \in {s} \X Items(s)
      OBVIOUS
    <3> QED
      BY <3>1 DEF AllItems
  <2>5. \A q \in Items(s) : Targets[s][q] \in Things
    BY <2>1, <2>2
  <2> QED
    BY <2>2, <2>3, <2>4, <2>5
<1>2. ASSUME NEW i \in AllItems
      PROVE  i[1] \in Sets /\ i[2] \in Items(i[1]) /\ i = << i[1], i[2] >>
  <2>1. PICK s \in Sets : i \in {s} \X Items(s)
    BY DEF AllItems
  <2> QED
    BY <2>1
<1> QED
  BY <1>1, <1>2

LEMMA RequestFacts ==
  ASSUME NEW r \in Requests
  PROVE  r.key \in Keys /\ r.set \in Sets /\ r # None
BY ChangeSetsAssumption DEF Keys

(* A set of numbers that is not empty has a least one.                     *)
LEMMA MinIsIn ==
  ASSUME NEW S \in SUBSET Nat, S # {}
  PROVE  Min(S) \in S
<1>1. PICK x \in S : \A y \in S : ~ (<< y, x >> \in OpToRel(<, Nat))
  BY NatLessThanWellFounded, WFMin
<1>2. \A y \in S : ~ (y < x)
  BY <1>1, Zenon DEF OpToRel
<1>3. \A y \in S : x <= y
  BY <1>2
<1> QED
  BY <1>3 DEF Min

-----------------------------------------------------------------------------
(* A decided item tells what was written, and goes on telling it.          *)
LEMMA ItemsStay ==
  ASSUME TypeOK, ItemsTellWhatIsWritten, NEW t \in Threads, Decides(t)
  PROVE  ItemsTellWhatIsWritten'
<1> SUFFICES ASSUME NEW i \in AllItems
             PROVE  /\ written'[i] <= 1
                    /\ itemStatus'[i] = "APPLIED" => written'[i] = 1
                    /\ itemStatus'[i] \in {"none", "PROPOSED", "SKIPPED"} => written'[i] = 0
  BY DEF ItemsTellWhatIsWritten
<1>1. /\ written[i] \in Nat /\ written[i] <= 1
      /\ itemStatus[i] = "APPLIED" => written[i] = 1
      /\ itemStatus[i] \in {"none", "PROPOSED", "SKIPPED"} => written[i] = 0
  BY DEF TypeOK, ItemsTellWhatIsWritten
<1> QED
  BY <1>1 DEF Decides

LEMMA ToldStays ==
  ASSUME ItemsTellWhatIsWritten, NEW t \in Threads, Decides(t), NEW s, NEW result, Told(s, result)
  PROVE  ToldNext(s, result)
<1>1. ASSUME NEW q \in result.applied
      PROVE  << s, q >> \in AllItems /\ written'[<< s, q >>] = 1
  <2>1. /\ << s, q >> \in AllItems /\ written[<< s, q >>] = 1
        /\ itemStatus[<< s, q >>] # "PROPOSED"
    BY DEF Told, ItemsTellWhatIsWritten
  <2> QED
    BY <2>1 DEF Decides
<1>2. ASSUME NEW q \in result.skipped
      PROVE  /\ << s, q >> \in AllItems /\ written'[<< s, q >>] = 0
             /\ itemStatus'[<< s, q >>] \in {"SKIPPED", "REJECTED"}
  <2>1. /\ << s, q >> \in AllItems /\ written[<< s, q >>] = 0
        /\ itemStatus[<< s, q >>] \in {"SKIPPED", "REJECTED"}
    BY DEF Told
  <2> QED
    BY <2>1 DEF Decides
<1> QED
  BY <1>1, <1>2 DEF ToldNext

(* What one thread decides leaves what another has picked as it is.        *)
LEMMA OthersKeep ==
  ASSUME ItemsTellWhatIsWritten, Exclusive, NEW t \in Threads, Decides(t),
         NEW u \in Threads \ {t}, ThreadInv(u), tx'[u] = tx[u], held'[u] = held[u]
  PROVE  ThreadInv(u)'
<1>1. Busy(u)' /\ Holding(u)'
  BY DEF ThreadInv, Busy, Holding
<1>2. Picked(u)'
  <2> SUFFICES ASSUME Confirming(u), NEW q \in Touched(u)
               PROVE  itemStatus'[<< tx[u].req.set, q >>] = "PROPOSED"
    BY DEF ThreadInv, Picked, Confirming, Touched, Target, Current
  <2> DEFINE i == << tx[u].req.set, q >>
  <2>1. q \in Items(tx[u].req.set) /\ itemStatus[i] = "PROPOSED"
    BY DEF ThreadInv, Picked
  <2>2. tx[u].req \in Requests /\ ItemsLock(tx[u].req.set) \in held[u]
    BY DEF ThreadInv, Busy, Holding, Confirming
  <2>3. i \in AllItems
    BY <2>1, <2>2, RequestFacts, ItemFacts
  <2>4. ItemsLock(i[1]) \notin held[t]
    BY <2>2 DEF Exclusive
  <2> QED
    BY <2>1, <2>3, <2>4 DEF Decides
<1>3. Answered(u)'
  <2> SUFFICES ASSUME tx[u].reply = "accepted"
               PROVE  tx[u].req \in Requests /\ ToldNext(tx[u].req.set, tx[u].result)
    BY DEF Answered, Told, ToldNext
  <2>1. tx[u].req \in Requests /\ Told(tx[u].req.set, tx[u].result)
    BY DEF ThreadInv, Answered
  <2> QED
    BY <2>1, ToldStays
<1> QED
  BY <1>1, <1>2, <1>3 DEF ThreadInv

-----------------------------------------------------------------------------
(* Steps that write no table.                                              *)
LEMMA QuietStep ==
  ASSUME Inv, Stay, NEW t \in Threads,
         NEW b \in Transaction, tx' = [tx EXCEPT ![t] = b],
         NEW h \in SUBSET Locks, held' = [held EXCEPT ![t] = h],
         \A l \in h : l \in held[t] \/ Free(t, l),
         ThreadInv(t)'
  PROVE  Inv'
<1>1. UNCHANGED << setStatus, itemStatus, rmSet, rmItem, version, blocked, others, log, latest, written >>
  BY DEF Stay, changes, kernel
<1>2. tx \in [Threads -> Transaction] /\ held \in [Threads -> SUBSET Locks]
  BY DEF Inv, TypeOK
<1>3. TypeOK'
  BY <1>1, <1>2 DEF Inv, TypeOK
<1>4. Exclusive'
  BY <1>2 DEF Inv, Exclusive, Free
<1>5. ItemsTellWhatIsWritten' /\ DecidedIsSettled' /\ NewIsUndecided' /\ Logged'
  BY <1>1 DEF Inv, ItemsTellWhatIsWritten, DecidedIsSettled, NewIsUndecided, Logged, Told
<1>6. Decides(t)
  BY <1>1 DEF Decides
<1>7. \A u \in Threads \ {t} : tx'[u] = tx[u] /\ held'[u] = held[u]
  BY <1>2
<1>8. \A u \in Threads \ {t} : ThreadInv(u)'
  BY <1>6, <1>7, OthersKeep DEF Inv
<1> QED
  BY <1>3, <1>4, <1>5, <1>8 DEF Inv

LEMMA EndFacts ==
  ASSUME NEW r \in Requests \cup {None}, NEW pc \in Pcs, NEW reply \in Replies, NEW result \in Result
  PROVE  Begin(r, pc, reply, result) \in Transaction
BY DEF Begin, Transaction, Result, Nothing

(* A command that is refused, or fails, leaves nothing.                    *)
LEMMA EndsStep ==
  ASSUME Inv, Stay, NEW t \in Threads, NEW reply \in {"refused", "failed"}, Finish(t, reply, Nothing)
  PROVE  Inv'
<1> DEFINE b == Begin(None, "idle", reply, Nothing)
<1>1. b \in Transaction
  BY EndFacts DEF Pcs, Replies, Nothing, Result
<1>2. tx' = [tx EXCEPT ![t] = b] /\ held' = [held EXCEPT ![t] = {}]
  BY DEF Finish
<1>3. tx'[t] = b
  BY <1>2 DEF Inv, TypeOK
<1>4. ThreadInv(t)'
  BY <1>3 DEF Begin, ThreadInv, Busy, Holding, Picked, Confirming, Answered
<1>5. {} \in SUBSET Locks /\ \A l \in {} : l \in held[t] \/ Free(t, l)
  OBVIOUS
<1> HIDE DEF b
<1> QED
  BY <1>1, <1>2, <1>4, <1>5, QuietStep

(* A thread that answers with a result that is told already.               *)
LEMMA AnswersStep ==
  ASSUME Inv, Stay, NEW t \in Threads, NEW r \in Requests, NEW result \in Result, Told(r.set, result),
         tx' = [tx EXCEPT ![t] = Begin(r, "idle", "accepted", result)],
         NEW h \in SUBSET held[t], held' = [held EXCEPT ![t] = h]
  PROVE  Inv'
<1> DEFINE b == Begin(r, "idle", "accepted", result)
<1>1. b \in Transaction
  BY EndFacts DEF Pcs, Replies
<1>2. tx'[t] = b
  BY DEF Inv, TypeOK
<1>3. Told(r.set, result)'
  BY DEF Told, Stay, changes
<1>4. ThreadInv(t)'
  BY <1>2, <1>3 DEF Begin, ThreadInv, Busy, Holding, Picked, Confirming, Answered
<1>5. h \in SUBSET Locks
  BY DEF Inv, TypeOK
<1> QED
  BY <1>1, <1>4, <1>5, QuietStep

(* A step inside a command: the new record b goes on with the same one.    *)
LEMMA GoesOnStep ==
  ASSUME Inv, Stay, NEW t \in Threads, tx[t].pc # "idle",
         NEW b \in Transaction, tx' = [tx EXCEPT ![t] = b],
         b.req = tx[t].req, b.reply = tx[t].reply,
         NEW h \in SUBSET Locks, held' = [held EXCEPT ![t] = h], held[t] \subseteq h,
         \A l \in h : l \in held[t] \/ Free(t, l),
         Busy(t)', Holding(t)', Picked(t)'
  PROVE  Inv'
<1>1. tx'[t].reply = "none"
  BY DEF Inv, ThreadInv, Busy, TypeOK
<1>2. ThreadInv(t)'
  BY <1>1 DEF ThreadInv, Answered
<1> QED
  BY <1>2, QuietStep

LEMMA StartStep ==
  ASSUME Inv, NEW t \in Threads, NEW r \in Requests, Start(t, r)
  PROVE  Inv'
<1> DEFINE pc == IF r.kind = "ProposeAiChange" THEN "provider" ELSE "status"
           b  == Begin(r, pc, "none", Nothing)
<1>1. b \in Transaction
  BY EndFacts DEF Pcs, Replies, Nothing, Result
<1>2. tx' = [tx EXCEPT ![t] = b] /\ held' = [held EXCEPT ![t] = held[t]]
  BY DEF Start, Inv, TypeOK
<1>3. tx'[t] = b
  BY <1>2 DEF Inv, TypeOK
<1>4. r.kind \in ReqKinds
  BY ChangeSetsAssumption
<1>5. ThreadInv(t)'
  BY <1>3, <1>4 DEF Begin, ThreadInv, Busy, Holding, Picked, Confirming, Answered, ReqKinds
<1>6. held[t] \in SUBSET Locks /\ Stay
  BY DEF Inv, TypeOK, Start
<1> HIDE DEF b
<1> QED
  BY <1>1, <1>2, <1>5, <1>6, QuietStep

LEMMA ReplayStep ==
  ASSUME Inv, NEW t \in Threads, NEW r \in Requests, Replay(t, r)
  PROVE  Inv'
<1>1. Stay /\ held' = [held EXCEPT ![t] = held[t]] /\ held[t] \in SUBSET Locks
  BY DEF Replay, Inv, TypeOK
<1>2. CASE log[r.key].req = r
  <2>1. r.key \in Keys /\ log[r.key] # None
    BY RequestFacts DEF Replay
  <2>2. log[r.key].result \in Result /\ Told(r.set, log[r.key].result)
    BY <1>2, <2>1 DEF Inv, TypeOK, Logged
  <2>3. tx' = [tx EXCEPT ![t] = Begin(r, "idle", "accepted", log[r.key].result)]
    BY <1>2 DEF Replay
  <2> QED
    BY <1>1, <2>2, <2>3, AnswersStep
<1>3. CASE log[r.key].req # r
  <2> DEFINE b == Begin(None, "idle", "refused", Nothing)
  <2>1. b \in Transaction
    BY EndFacts DEF Pcs, Replies, Nothing, Result
  <2>2. tx' = [tx EXCEPT ![t] = b]
    BY <1>3 DEF Replay
  <2>3. tx'[t] = b
    BY <2>2 DEF Inv, TypeOK
  <2>4. ThreadInv(t)'
    BY <2>3 DEF Begin, ThreadInv, Busy, Holding, Picked, Confirming, Answered
  <2> HIDE DEF b
  <2> QED
    BY <1>1, <2>1, <2>2, <2>4, QuietStep
<1> QED
  BY <1>2, <1>3

(* What the record of a thread in the middle of a command holds.           *)
LEMMA RecordFacts ==
  ASSUME Inv, NEW t \in Threads, tx[t].pc # "idle"
  PROVE  /\ tx[t] \in Transaction /\ tx[t].req \in Requests
         /\ tx[t].req.set \in Sets /\ tx[t].req.items \subseteq Nat
         /\ held[t] \in SUBSET Locks
<1>1. tx[t] \in Transaction /\ held[t] \in SUBSET Locks
  BY DEF Inv, TypeOK
<1>2. tx[t].req \in Requests
  BY DEF Inv, ThreadInv, Busy
<1> QED
  BY <1>1, <1>2, ChangeSetsAssumption

LEMMA GotoFacts ==
  ASSUME Inv, NEW t \in Threads, tx[t].pc # "idle", NEW pc \in Pcs, Goto(t, pc)
  PROVE  LET b == [tx[t] EXCEPT !.pc = pc] IN
         /\ b \in Transaction /\ tx' = [tx EXCEPT ![t] = b] /\ tx'[t] = b
         /\ b.req = tx[t].req /\ b.reply = tx[t].reply
BY RecordFacts DEF Goto, Transaction, Inv, TypeOK

LEMMA TakeFacts ==
  ASSUME Inv, NEW t \in Threads, NEW l \in Locks, Take(t, l)
  PROVE  LET h == held[t] \cup {l} IN
         /\ h \in SUBSET Locks /\ held' = [held EXCEPT ![t] = h] /\ held'[t] = h
         /\ held[t] \subseteq h /\ \A k \in h : k \in held[t] \/ Free(t, k)
BY DEF Take, Inv, TypeOK

LEMMA ReadStatusStep ==
  ASSUME Inv, NEW t \in Threads, ReadStatus(t)
  PROVE  Inv'
<1> DEFINE r == tx[t].req
<1>1. tx[t].pc = "status" /\ tx[t].pc # "idle"
  BY DEF ReadStatus
<1>2. r \in Requests /\ r.set \in Sets
  BY <1>1, RecordFacts
<1>3. CASE /\ setStatus[r.set] = "PROPOSED"
           /\ r.kind = "ConfirmAiChange" => r.items # {}
           /\ Goto(t, IF r.kind = "RejectAiChange" THEN "takeSet" ELSE "takeItems")
           /\ UNCHANGED held /\ Stay
  <2> DEFINE pc == IF r.kind = "RejectAiChange" THEN "takeSet" ELSE "takeItems"
             b  == [tx[t] EXCEPT !.pc = pc]
  <2>1. pc \in Pcs
    BY DEF Pcs
  <2>2. /\ b \in Transaction /\ tx' = [tx EXCEPT ![t] = b] /\ tx'[t] = b
        /\ b.req = tx[t].req /\ b.reply = tx[t].reply
    BY <1>1, <1>3, <2>1, GotoFacts
  <2>3. /\ r.kind \in {"RejectAiChange", "ConfirmAiChange"}
        /\ tx[t].reply = "none" /\ tx[t].req \in Requests
        /\ tx[t].done = Nothing /\ tx[t].wrote = {}
    BY <1>1 DEF Inv, ThreadInv, Busy
  <2>4. b.pc = pc /\ b.done = tx[t].done /\ b.wrote = tx[t].wrote
    BY <1>1, RecordFacts DEF Transaction
  <2>5. /\ tx'[t].pc = pc /\ tx'[t].req = r /\ tx'[t].reply = "none"
        /\ tx'[t].done = Nothing /\ tx'[t].wrote = {}
    BY <2>2, <2>3, <2>4
  <2>6. held[t] \in SUBSET Locks /\ held' = [held EXCEPT ![t] = held[t]] /\ Stay
    BY <1>3 DEF Inv, TypeOK
  <2> HIDE DEF b, r
  <2>7. Busy(t)'
    BY <2>3, <2>5 DEF Busy, r
  <2>8. Holding(t)' /\ Picked(t)'
    BY <2>5 DEF Holding, Picked, Confirming
  <2> QED
    BY <1>1, <2>2, <2>6, <2>7, <2>8, GoesOnStep
<1>4. CASE /\ setStatus[r.set] = "CONFIRMED" /\ r.kind = "ConfirmAiChange"
           /\ Finish(t, "accepted", latest[r.set])
           /\ Stay
  <2>1. latest[r.set] \in Result /\ Told(r.set, latest[r.set])
    BY <1>2 DEF Inv, TypeOK, Logged
  <2>2. /\ tx' = [tx EXCEPT ![t] = Begin(r, "idle", "accepted", latest[r.set])]
        /\ held' = [held EXCEPT ![t] = {}] /\ {} \in SUBSET held[t]
    BY <1>4 DEF Finish
  <2> HIDE DEF r
  <2> QED
    BY <1>2, <1>4, <2>1, <2>2, AnswersStep
<1>5. CASE Refuse(t)
  BY <1>5, EndsStep DEF Refuse, Stay
<1> QED
  BY <1>3, <1>4, <1>5 DEF ReadStatus

LEMMA RejectSetStep ==
  ASSUME Inv, NEW t \in Threads, RejectSet(t)
  PROVE  Inv'
<1> DEFINE b == [tx[t] EXCEPT !.pc = "rejectItems"]
           l == SetLock(tx[t].req.set)
           h == held[t] \cup {l}
<1>1. tx[t].pc = "takeSet" /\ tx[t].pc # "idle" /\ Stay
  BY DEF RejectSet
<1>2. /\ b \in Transaction /\ tx' = [tx EXCEPT ![t] = b] /\ tx'[t] = b
      /\ b.req = tx[t].req /\ b.reply = tx[t].reply
  BY <1>1, GotoFacts DEF RejectSet, Pcs
<1>3. l \in Locks
  BY <1>1, RecordFacts DEF Locks
<1>4. /\ h \in SUBSET Locks /\ held' = [held EXCEPT ![t] = h] /\ held'[t] = h
      /\ held[t] \subseteq h /\ \A k \in h : k \in held[t] \/ Free(t, k)
  BY <1>3, TakeFacts DEF RejectSet
<1>5. b.pc = "rejectItems"
  BY <1>1, RecordFacts DEF Transaction
<1>6. Busy(t)' /\ Holding(t)' /\ Picked(t)'
  BY <1>1, <1>2, <1>5 DEF Busy, Holding, Picked, Confirming, Inv, ThreadInv
<1> HIDE DEF b, h
<1> QED
  BY <1>1, <1>2, <1>4, <1>6, GoesOnStep

LEMMA RejectItemsStep ==
  ASSUME Inv, NEW t \in Threads, RejectItems(t)
  PROVE  Inv'
<1> DEFINE b == [tx[t] EXCEPT !.pc = "commit"]
           l == ItemsLock(tx[t].req.set)
           h == held[t] \cup {l}
<1>1. tx[t].pc = "rejectItems" /\ tx[t].pc # "idle" /\ Stay
  BY DEF RejectItems
<1>2. /\ b \in Transaction /\ tx' = [tx EXCEPT ![t] = b] /\ tx'[t] = b
      /\ b.req = tx[t].req /\ b.reply = tx[t].reply
  BY <1>1, GotoFacts DEF RejectItems, Pcs
<1>3. l \in Locks
  BY <1>1, RecordFacts DEF Locks
<1>4. /\ h \in SUBSET Locks /\ held' = [held EXCEPT ![t] = h] /\ held'[t] = h
      /\ held[t] \subseteq h /\ \A k \in h : k \in held[t] \/ Free(t, k)
  BY <1>3, TakeFacts DEF RejectItems
<1>5. b.pc = "commit"
  BY <1>1, RecordFacts DEF Transaction
<1>6. Busy(t)' /\ Holding(t)' /\ Picked(t)'
  BY <1>1, <1>2, <1>4, <1>5 DEF Busy, Holding, Picked, Confirming, Inv, ThreadInv
<1> HIDE DEF b, h
<1> QED
  BY <1>1, <1>2, <1>4, <1>6, GoesOnStep

LEMMA TakeItemsStep ==
  ASSUME Inv, NEW t \in Threads, TakeItems(t)
  PROVE  Inv'
<1> DEFINE r == tx[t].req
           T == {q \in r.items : itemStatus[<< r.set, q >>] = "PROPOSED"}
           b == [tx[t] EXCEPT !.pc = "items", !.todo = T]
           l == ItemsLock(r.set)
           h == held[t] \cup {l}
<1>1. /\ tx[t].pc = "takeItems" /\ tx[t].pc # "idle" /\ r.items \subseteq Items(r.set) /\ Stay
      /\ tx' = [tx EXCEPT ![t] = b] /\ itemStatus' = itemStatus
  BY DEF TakeItems, Stay, changes
<1>2. /\ tx[t] \in Transaction /\ r \in Requests /\ r.set \in Sets /\ T \subseteq Nat
  BY <1>1, RecordFacts
<1>3. /\ b \in Transaction /\ tx'[t] = b
      /\ b.pc = "items" /\ b.req = r /\ b.reply = tx[t].reply /\ b.todo = T
      /\ b.done = tx[t].done /\ b.wrote = tx[t].wrote
  BY <1>1, <1>2 DEF Transaction, Pcs, Inv, TypeOK
<1>4. l \in Locks
  BY <1>2 DEF Locks
<1>5. /\ h \in SUBSET Locks /\ held' = [held EXCEPT ![t] = h] /\ held'[t] = h
      /\ held[t] \subseteq h /\ \A k \in h : k \in held[t] \/ Free(t, k)
  BY <1>4, TakeFacts DEF TakeItems
<1>6. /\ tx[t].reply = "none" /\ r.kind = "ConfirmAiChange"
      /\ tx[t].done = Nothing /\ tx[t].wrote = {}
  BY <1>1 DEF Inv, ThreadInv, Busy
<1> HIDE DEF b
<1>7. Busy(t)' /\ Holding(t)'
  BY <1>2, <1>3, <1>5, <1>6 DEF Busy, Holding
<1>8. /\ tx'[t].todo = T /\ tx'[t].done.applied = {} /\ tx'[t].done.skipped = {}
      /\ tx'[t].wrote = {} /\ tx'[t].pc = "items" /\ tx'[t].req = r
  BY <1>3, <1>6 DEF Nothing
<1>9. \A q \in T : q \in Items(r.set) /\ itemStatus'[<< r.set, q >>] = "PROPOSED"
  BY <1>1
<1>10. Picked(t)'
  <2> HIDE DEF T, r
  <2> QED
    BY <1>8, <1>9 DEF Picked, Confirming, Touched
<1> HIDE DEF h, r
<1> QED
  BY <1>1, <1>3, <1>5, <1>7, <1>10, GoesOnStep DEF r

(* The item a confirmation works on.                                       *)
LEMMA CurrentFacts ==
  ASSUME Inv, NEW t \in Threads, Confirming(t), tx[t].todo # {}
  PROVE  /\ Current(t) \in tx[t].todo /\ Current(t) \in Items(tx[t].req.set)
         /\ Current(t) \in Nat /\ Target(t) \in Things
         /\ Current(t) \notin tx[t].done.applied /\ Current(t) \notin tx[t].done.skipped
<1>1. tx[t].pc # "idle"
  BY DEF Confirming
<1>2. tx[t].todo \in SUBSET Nat
  BY <1>1, RecordFacts DEF Transaction
<1>3. Current(t) \in tx[t].todo
  BY <1>2, MinIsIn DEF Current
<1>4. Current(t) \in Items(tx[t].req.set)
  BY <1>3 DEF Inv, ThreadInv, Picked, Touched
<1>5. Target(t) \in Things
  BY <1>1, <1>4, RecordFacts, ItemFacts DEF Target
<1>6. Current(t) \notin tx[t].done.applied \cup tx[t].done.skipped
  BY <1>3 DEF Inv, ThreadInv, Picked
<1> QED
  BY <1>2, <1>3, <1>4, <1>5, <1>6

LEMMA SeenIsNat ==
  ASSUME Inv, NEW t \in Threads, Confirming(t), NEW o \in Objects
  PROVE  Seen(t, o) \in Nat
<1> DEFINE s == tx[t].req.set
           W == {q \in tx[t].wrote : Targets[s][q] = o}
<1>1. s \in Sets
  BY RecordFacts DEF Confirming
<1>2. W \subseteq Items(s)
  BY DEF Inv, ThreadInv, Picked, Touched
<1>3. IsFiniteSet(W)
  BY <1>1, <1>2, ItemFacts, FS_Subset
<1>4. Cardinality(W) \in Nat
  BY <1>3, FS_CardinalityType
<1>5. version[o] \in Nat
  BY DEF Inv, TypeOK
<1> QED
  BY <1>4, <1>5 DEF Seen

(* What a confirmation has picked stays picked while it works on it.       *)
LEMMA PickedStays ==
  ASSUME Inv, NEW t \in Threads, Confirming(t), UNCHANGED itemStatus,
         tx'[t].req = tx[t].req, Touched(t)' \subseteq Touched(t),
         tx'[t].todo \cap (tx'[t].done.applied \cup tx'[t].done.skipped) = {},
         tx'[t].done.applied \cap tx'[t].done.skipped = {},
         tx'[t].wrote = tx'[t].done.applied,
         tx'[t].pc \in {"version", "write"} => tx'[t].todo # {},
         tx'[t].pc = "version" => Target(t)' \in Objects
  PROVE  Picked(t)'
<1>1. \A q \in Touched(t)' : /\ q \in Items(tx[t].req.set)
                              /\ itemStatus'[<< tx[t].req.set, q >>] = "PROPOSED"
  BY DEF Inv, ThreadInv, Picked
<1> QED
  BY <1>1 DEF Picked

LEMMA PrecheckStep ==
  ASSUME Inv, NEW t \in Threads, Precheck(t)
  PROVE  Inv'
<1> DEFINE c == Current(t)
<1>1. /\ tx[t].pc = "items" /\ tx[t].pc # "idle" /\ tx[t].todo # {} /\ Confirming(t) /\ Stay
      /\ UNCHANGED itemStatus /\ held' = [held EXCEPT ![t] = held[t]] /\ held'[t] = held[t]
  BY DEF Precheck, Confirming, Stay, changes, Inv, TypeOK
<1>2. /\ tx[t] \in Transaction /\ held[t] \in SUBSET Locks
  BY <1>1, RecordFacts
<1>3. /\ c \in tx[t].todo /\ c \in Nat
      /\ c \notin tx[t].done.applied /\ c \notin tx[t].done.skipped
  BY <1>1, CurrentFacts
<1>4. /\ tx[t].req \in Requests /\ tx[t].reply = "none" /\ tx[t].req.kind = "ConfirmAiChange"
      /\ ItemsLock(tx[t].req.set) \in held[t]
  BY <1>1 DEF Inv, ThreadInv, Busy, Holding
<1>5. /\ tx[t].todo \cap (tx[t].done.applied \cup tx[t].done.skipped) = {}
      /\ tx[t].done.applied \cap tx[t].done.skipped = {}
      /\ tx[t].wrote = tx[t].done.applied
  BY <1>1 DEF Inv, ThreadInv, Picked
<1>6. CASE Target(t) \in blocked
  <2> DEFINE d == [tx[t].done EXCEPT !.skipped = @ \cup {c}]
             b == [tx[t] EXCEPT !.done = d, !.todo = @ \ {c}]
  <2>1. tx' = [tx EXCEPT ![t] = b]
    BY <1>6 DEF Precheck
  <2>2. /\ d \in Result /\ d.applied = tx[t].done.applied /\ d.skipped = tx[t].done.skipped \cup {c}
    BY <1>2, <1>3 DEF Transaction, Result
  <2> HIDE DEF d, c
  <2>3. /\ b \in Transaction /\ b.pc = tx[t].pc /\ b.req = tx[t].req /\ b.reply = tx[t].reply
        /\ b.done = d /\ b.todo = tx[t].todo \ {c} /\ b.wrote = tx[t].wrote
    BY <1>2, <2>2 DEF Transaction
  <2>4. tx'[t] = b
    BY <2>1 DEF Inv, TypeOK
  <2> HIDE DEF b
  <2>5. Busy(t)' /\ Holding(t)'
    BY <1>1, <1>4, <2>3, <2>4 DEF Busy, Holding
  <2>6. Touched(t)' \subseteq Touched(t)
    BY <1>3, <2>2, <2>3, <2>4 DEF Touched
  <2>7. Picked(t)'
    BY <1>1, <1>3, <1>5, <2>2, <2>3, <2>4, <2>6, PickedStays
  <2> QED
    BY <1>1, <1>2, <2>1, <2>3, <2>5, <2>7, GoesOnStep
<1>7. CASE Target(t) \notin blocked
  <2> DEFINE pc == IF Target(t) = NewObject THEN "write" ELSE "version"
             b  == [tx[t] EXCEPT !.pc = pc]
  <2>1. /\ pc \in {"write", "version"} /\ tx' = [tx EXCEPT ![t] = b]
        /\ pc = "version" => Target(t) \in Objects
    BY <1>1, <1>7, CurrentFacts DEF Precheck, Things
  <2> HIDE DEF pc
  <2>2. /\ b \in Transaction /\ b.pc = pc /\ b.req = tx[t].req /\ b.reply = tx[t].reply
        /\ b.done = tx[t].done /\ b.todo = tx[t].todo /\ b.wrote = tx[t].wrote
    BY <1>2, <2>1 DEF Transaction, Pcs
  <2>3. tx'[t] = b
    BY <2>1 DEF Inv, TypeOK
  <2> HIDE DEF b
  <2>4. Busy(t)' /\ Holding(t)'
    BY <1>1, <1>4, <2>1, <2>2, <2>3 DEF Busy, Holding
  <2>5. Touched(t)' \subseteq Touched(t)
    BY <2>2, <2>3 DEF Touched
  <2>6. Target(t)' = Target(t)
    BY <2>2, <2>3 DEF Target, Current
  <2>7. Picked(t)'
    BY <1>1, <1>5, <2>1, <2>2, <2>3, <2>5, <2>6, PickedStays
  <2> QED
    BY <1>1, <1>2, <2>1, <2>2, <2>4, <2>7, GoesOnStep
<1> QED
  BY <1>6, <1>7

LEMMA ReadVersionStep ==
  ASSUME Inv, NEW t \in Threads, ReadVersion(t)
  PROVE  Inv'
<1> DEFINE v == Seen(t, Target(t))
           b == [tx[t] EXCEPT !.pc = "write", !.expected = v]
<1>1. /\ tx[t].pc = "version" /\ tx[t].pc # "idle" /\ Confirming(t) /\ Stay
      /\ UNCHANGED itemStatus /\ held' = [held EXCEPT ![t] = held[t]] /\ held'[t] = held[t]
  BY DEF ReadVersion, Confirming, Stay, changes, Inv, TypeOK
<1>2. /\ tx[t] \in Transaction /\ held[t] \in SUBSET Locks
  BY <1>1, RecordFacts
<1>3. /\ tx[t].req \in Requests /\ tx[t].reply = "none" /\ tx[t].req.kind = "ConfirmAiChange"
      /\ ItemsLock(tx[t].req.set) \in held[t] /\ Target(t) \in Objects
  BY <1>1 DEF Inv, ThreadInv, Busy, Holding, Picked
<1>4. /\ tx[t].todo \cap (tx[t].done.applied \cup tx[t].done.skipped) = {}
      /\ tx[t].done.applied \cap tx[t].done.skipped = {}
      /\ tx[t].wrote = tx[t].done.applied /\ tx[t].todo # {}
  BY <1>1 DEF Inv, ThreadInv, Picked
<1>5. v \in Nat
  BY <1>1, <1>3, SeenIsNat
<1>6. tx' = [tx EXCEPT ![t] = b]
  BY DEF ReadVersion
<1> HIDE DEF v
<1>7. /\ b \in Transaction /\ b.pc = "write" /\ b.req = tx[t].req /\ b.reply = tx[t].reply
      /\ b.done = tx[t].done /\ b.todo = tx[t].todo /\ b.wrote = tx[t].wrote
  BY <1>2, <1>5 DEF Transaction, Pcs
<1>8. tx'[t] = b
  BY <1>6 DEF Inv, TypeOK
<1> HIDE DEF b
<1>9. Busy(t)' /\ Holding(t)'
  BY <1>1, <1>3, <1>7, <1>8 DEF Busy, Holding
<1>10. Touched(t)' \subseteq Touched(t)
  BY <1>7, <1>8 DEF Touched
<1>11. Picked(t)'
  BY <1>1, <1>4, <1>7, <1>8, <1>10, PickedStays
<1> QED
  BY <1>1, <1>2, <1>6, <1>7, <1>9, <1>11, GoesOnStep

LEMMA ApplyStep ==
  ASSUME Inv, NEW t \in Threads, Apply(t)
  PROVE  Inv'
<1> DEFINE c == Current(t)
           d == [tx[t].done EXCEPT !.applied = @ \cup {c}]
           b == [tx[t] EXCEPT !.pc = "items", !.todo = @ \ {c}, !.done = d, !.wrote = @ \cup {c}]
           l == ObjectLock(Target(t))
           h == held[t] \cup ({l} \cap Locks)
<1>1. /\ tx[t].pc = "write" /\ tx[t].pc # "idle" /\ Confirming(t) /\ Stay
      /\ UNCHANGED itemStatus /\ ~ KernelWaits(t) /\ tx' = [tx EXCEPT ![t] = b]
  BY DEF Apply, Confirming, Stay, changes
<1>2. /\ tx[t] \in Transaction /\ held[t] \in SUBSET Locks
  BY <1>1, RecordFacts
<1>3. /\ tx[t].req \in Requests /\ tx[t].reply = "none" /\ tx[t].req.kind = "ConfirmAiChange"
      /\ ItemsLock(tx[t].req.set) \in held[t]
  BY <1>1 DEF Inv, ThreadInv, Busy, Holding
<1>4. /\ tx[t].todo \cap (tx[t].done.applied \cup tx[t].done.skipped) = {}
      /\ tx[t].done.applied \cap tx[t].done.skipped = {}
      /\ tx[t].wrote = tx[t].done.applied /\ tx[t].todo # {}
  BY <1>1 DEF Inv, ThreadInv, Picked
<1>5. /\ c \in tx[t].todo /\ c \in Nat /\ Target(t) \in Things
      /\ c \notin tx[t].done.applied /\ c \notin tx[t].done.skipped
  BY <1>1, <1>4, CurrentFacts
<1>6. /\ h \in SUBSET Locks /\ held' = [held EXCEPT ![t] = h] /\ held'[t] = h
      /\ held[t] \subseteq h
  BY <1>2 DEF Apply, Inv, TypeOK
<1>7. \A k \in h : k \in held[t] \/ Free(t, k)
  <2>1. CASE Target(t) \in Objects
    BY <1>1, <2>1 DEF KernelWaits
  <2>2. CASE Target(t) \notin Objects
    <3>1. l \notin Locks
      BY <2>2 DEF Locks, ObjectLock, SetLock, ItemsLock
    <3> QED
      BY <3>1
  <2> QED
    BY <2>1, <2>2
<1> HIDE DEF c, h
<1>8. d \in Result /\ d.applied = tx[t].done.applied \cup {c} /\ d.skipped = tx[t].done.skipped
  BY <1>2, <1>5 DEF Transaction, Result
<1> HIDE DEF d
<1>9. /\ b \in Transaction /\ b.pc = "items" /\ b.req = tx[t].req /\ b.reply = tx[t].reply
      /\ b.done = d /\ b.todo = tx[t].todo \ {c} /\ b.wrote = tx[t].wrote \cup {c}
  BY <1>2, <1>5, <1>8 DEF Transaction, Pcs
<1>10. tx'[t] = b
  BY <1>1 DEF Inv, TypeOK
<1> HIDE DEF b
<1>11. Busy(t)' /\ Holding(t)'
  BY <1>3, <1>6, <1>9, <1>10 DEF Busy, Holding
<1>12. Touched(t)' \subseteq Touched(t)
  BY <1>5, <1>8, <1>9, <1>10 DEF Touched
<1>13. /\ tx'[t].pc = "items" /\ tx'[t].req = tx[t].req /\ tx'[t].todo = tx[t].todo \ {c}
       /\ tx'[t].done.applied = tx[t].done.applied \cup {c}
       /\ tx'[t].done.skipped = tx[t].done.skipped
       /\ tx'[t].wrote = tx[t].wrote \cup {c}
  BY <1>8, <1>9, <1>10
<1>14. /\ tx'[t].todo \cap (tx'[t].done.applied \cup tx'[t].done.skipped) = {}
       /\ tx'[t].done.applied \cap tx'[t].done.skipped = {}
       /\ tx'[t].wrote = tx'[t].done.applied
  BY <1>4, <1>5, <1>13
<1>15. Picked(t)'
  BY <1>1, <1>12, <1>13, <1>14, PickedStays
<1> QED
  BY <1>1, <1>6, <1>7, <1>9, <1>11, <1>15, GoesOnStep

LEMMA TakeSetStep ==
  ASSUME Inv, NEW t \in Threads, TakeSet(t)
  PROVE  Inv'
<1> DEFINE b == [tx[t] EXCEPT !.pc = "commit"]
           l == SetLock(tx[t].req.set)
           h == held[t] \cup {l}
<1>1. /\ tx[t].pc = "items" /\ tx[t].pc # "idle" /\ Confirming(t) /\ Stay /\ UNCHANGED itemStatus
  BY DEF TakeSet, Confirming, Stay, changes
<1>2. /\ b \in Transaction /\ tx' = [tx EXCEPT ![t] = b] /\ tx'[t] = b
      /\ b.req = tx[t].req /\ b.reply = tx[t].reply
  BY <1>1, GotoFacts DEF TakeSet, Pcs
<1>3. tx[t] \in Transaction /\ l \in Locks
  BY <1>1, RecordFacts DEF Locks
<1>4. /\ h \in SUBSET Locks /\ held' = [held EXCEPT ![t] = h] /\ held'[t] = h
      /\ held[t] \subseteq h /\ \A k \in h : k \in held[t] \/ Free(t, k)
  BY <1>3, TakeFacts DEF TakeSet
<1>5. b.pc = "commit" /\ b.done = tx[t].done /\ b.todo = tx[t].todo /\ b.wrote = tx[t].wrote
  BY <1>3 DEF Transaction
<1> HIDE DEF b, h
<1>6. Busy(t)' /\ Holding(t)'
  BY <1>1, <1>2, <1>4, <1>5 DEF Busy, Holding, Inv, ThreadInv
<1>7. Touched(t)' \subseteq Touched(t)
  BY <1>2, <1>5 DEF Touched
<1>8. /\ tx[t].todo \cap (tx[t].done.applied \cup tx[t].done.skipped) = {}
      /\ tx[t].done.applied \cap tx[t].done.skipped = {}
      /\ tx[t].wrote = tx[t].done.applied
  BY <1>1 DEF Inv, ThreadInv, Picked
<1>9. Picked(t)'
  BY <1>1, <1>2, <1>5, <1>7, <1>8, PickedStays
<1> QED
  BY <1>1, <1>2, <1>4, <1>6, <1>9, GoesOnStep

(* Another user's write.                                                   *)
LEMMA OtherWriteStep ==
  ASSUME Inv, NEW o \in Things, OtherWrite(o)
  PROVE  Inv'
<1>1. /\ UNCHANGED << setStatus, itemStatus, rmSet, rmItem, log, latest, written, tx, held >>
      /\ others < MaxOthers /\ others' = others + 1
      /\ blocked' = blocked \cup {o} \/ blocked' = blocked \ {o}
      /\ version' = IF o \in Objects THEN [version EXCEPT ![o] = @ + 1] ELSE version
  BY DEF OtherWrite, changes
<1>2. TypeOK'
  <2>1. others' \in 0 .. MaxOthers /\ blocked' \subseteq Things
    BY <1>1, ChangeSetsAssumption DEF Inv, TypeOK
  <2>2. version' \in [Objects -> Nat]
    BY <1>1 DEF Inv, TypeOK
  <2> QED
    BY <1>1, <2>1, <2>2 DEF Inv, TypeOK
<1>3. Exclusive' /\ ItemsTellWhatIsWritten' /\ DecidedIsSettled' /\ NewIsUndecided' /\ Logged'
  BY <1>1 DEF Inv, Exclusive, ItemsTellWhatIsWritten, DecidedIsSettled, NewIsUndecided, Logged, Told
<1>4. ASSUME NEW t \in Threads
      PROVE  ThreadInv(t)'
  <2>1. Busy(t)' /\ Holding(t)'
    BY <1>1 DEF Inv, ThreadInv, Busy, Holding
  <2>2. Picked(t)' /\ Answered(t)'
    BY <1>1 DEF Inv, ThreadInv, Picked, Confirming, Touched, Target, Current, Answered, Told
  <2> QED
    BY <2>1, <2>2 DEF ThreadInv
<1> QED
  BY <1>2, <1>3, <1>4 DEF Inv

-----------------------------------------------------------------------------
(* Steps that commit.                                                      *)
LEMMA SettledFollow ==
  ASSUME DecidedIsSettled
  PROVE  ItemsFollow
<1> SUFFICES ASSUME NEW s \in Sets, NEW q \in Items(s)
             PROVE  /\ setStatus[s] = "CONFIRMED" => itemStatus[<< s, q >>] # "PROPOSED"
                    /\ setStatus[s] = "REJECTED" => itemStatus[<< s, q >>] = "REJECTED"
  BY DEF ItemsFollow
<1>1. itemStatus[<< s, q >>] \in {itemStatus[i] : i \in {s} \X Items(s)}
  OBVIOUS
<1> QED
  BY <1>1 DEF DecidedIsSettled

LEMMA FollowSettled ==
  ASSUME ItemsFollow', rmSet' = setStatus', rmItem' = itemStatus'
  PROVE  DecidedIsSettled'
<1> SUFFICES ASSUME NEW s \in Sets, NEW i \in {s} \X Items(s)
             PROVE  /\ setStatus'[s] = "CONFIRMED" => itemStatus'[i] # "PROPOSED"
                    /\ setStatus'[s] = "REJECTED" => itemStatus'[i] = "REJECTED"
  BY DEF DecidedIsSettled
<1>1. PICK q \in Items(s) : i = << s, q >>
  OBVIOUS
<1> QED
  BY <1>1 DEF ItemsFollow

LEMMA FinishFacts ==
  ASSUME Inv, NEW t \in Threads, tx[t].pc # "idle", NEW result \in Result,
         Remember(t, result), Finish(t, "accepted", result)
  PROVE  /\ tx' \in [Threads -> Transaction] /\ held' \in [Threads -> SUBSET Locks]
         /\ log' \in [Keys -> [req : Requests, result : Result] \cup {None}]
         /\ tx'[t] = Begin(tx[t].req, "idle", "accepted", result) /\ held'[t] = {}
         /\ \A u \in Threads \ {t} : tx'[u] = tx[u] /\ held'[u] = held[u]
         /\ log' = [log EXCEPT ![tx[t].req.key] = [req |-> tx[t].req, result |-> result]]
<1> DEFINE b == Begin(tx[t].req, "idle", "accepted", result)
<1>1. tx[t].req \in Requests
  BY RecordFacts
<1>2. b \in Transaction
  BY <1>1, EndFacts DEF Pcs, Replies
<1>3. tx' = [tx EXCEPT ![t] = b] /\ held' = [held EXCEPT ![t] = {}]
  BY DEF Finish
<1> HIDE DEF b
<1>4. /\ tx' \in [Threads -> Transaction] /\ held' \in [Threads -> SUBSET Locks]
      /\ tx'[t] = b /\ held'[t] = {}
      /\ \A u \in Threads \ {t} : tx'[u] = tx[u] /\ held'[u] = held[u]
  BY <1>2, <1>3 DEF Inv, TypeOK
<1>5. log' = [log EXCEPT ![tx[t].req.key] = [req |-> tx[t].req, result |-> result]]
  BY DEF Remember
<1>6. log' \in [Keys -> [req : Requests, result : Result] \cup {None}]
  BY <1>1, <1>5 DEF Inv, TypeOK
<1> QED
  BY <1>4, <1>5, <1>6 DEF b

LEMMA CommitStep ==
  ASSUME Inv, NEW t \in Threads, tx[t].pc # "idle", NEW s, s = tx[t].req.set,
         NEW result \in Result, Remember(t, result), Finish(t, "accepted", result),
         TypeOK', Decides(t), ToldNext(s, result),
         latest' = latest \/ latest' = [latest EXCEPT ![s] = result],
         DecidedIsSettled', NewIsUndecided'
  PROVE  Inv'
<1> DEFINE r == tx[t].req
<1>1. /\ tx'[t] = Begin(r, "idle", "accepted", result) /\ held'[t] = {}
      /\ \A u \in Threads \ {t} : tx'[u] = tx[u] /\ held'[u] = held[u]
      /\ log' = [log EXCEPT ![r.key] = [req |-> r, result |-> result]]
  BY FinishFacts
<1>2. r \in Requests /\ r.key \in Keys /\ s \in Sets
  BY RecordFacts, RequestFacts
<1>3. Exclusive'
  BY <1>1 DEF Inv, Exclusive
<1>4. ItemsTellWhatIsWritten'
  BY ItemsStay DEF Inv
<1>5. Logged'
  <2> SUFFICES /\ \A k \in Keys : log'[k] # None => ToldNext(log'[k].req.set, log'[k].result)
               /\ \A z \in Sets : ToldNext(z, latest'[z])
    BY DEF Logged, Told, ToldNext
  <2>1. ASSUME NEW k \in Keys, log'[k] # None
        PROVE  ToldNext(log'[k].req.set, log'[k].result)
    <3>1. CASE k = r.key
      <4>1. log'[k] = [req |-> r, result |-> result]
        BY <1>1, <1>2, <3>1 DEF Inv, TypeOK
      <4>2. log'[k].req.set = s /\ log'[k].result = result
        BY <4>1
      <4> QED
        BY <4>2
    <3>2. CASE k # r.key
      <4>1. log'[k] = log[k] /\ log[k] # None
        BY <1>1, <2>1, <3>2 DEF Inv, TypeOK
      <4>2. Told(log[k].req.set, log[k].result)
        BY <4>1 DEF Inv, Logged
      <4>3. ToldNext(log[k].req.set, log[k].result)
        BY <4>2, ToldStays DEF Inv
      <4> QED
        BY <4>1, <4>3
    <3> QED
      BY <3>1, <3>2
  <2>2. ASSUME NEW z \in Sets
        PROVE  ToldNext(z, latest'[z])
    <3>1. Told(z, latest[z])
      BY DEF Inv, Logged
    <3>2. ToldNext(z, latest[z])
      BY <3>1, ToldStays DEF Inv
    <3>3. latest'[z] = latest[z] \/ (z = s /\ latest'[z] = result)
      BY <1>2 DEF Inv, TypeOK
    <3> QED
      BY <3>2, <3>3
  <2> QED
    BY <2>1, <2>2
<1>6. ThreadInv(t)'
  <2>1. /\ tx'[t].pc = "idle" /\ tx'[t].reply = "accepted" /\ tx'[t].req = r
        /\ tx'[t].result = result
    BY <1>1 DEF Begin
  <2>2. Busy(t)' /\ Holding(t)' /\ Picked(t)'
    BY <2>1 DEF Busy, Holding, Picked, Confirming
  <2>3. Answered(t)'
    BY <1>2, <2>1 DEF Answered, Told, ToldNext
  <2> QED
    BY <2>2, <2>3 DEF ThreadInv
<1>7. \A u \in Threads \ {t} : ThreadInv(u)'
  BY <1>1, OthersKeep DEF Inv
<1> QED
  BY <1>3, <1>4, <1>5, <1>6, <1>7 DEF Inv

LEMMA ProposeStep ==
  ASSUME Inv, NEW t \in Threads, NEW s \in Sets, Propose(t, s)
  PROVE  Inv'
<1>1. /\ tx[t].pc # "idle" /\ s = tx[t].req.set /\ setStatus[s] = "none"
      /\ Remember(t, Nothing) /\ Finish(t, "accepted", Nothing)
      /\ setStatus' = [setStatus EXCEPT ![s] = "PROPOSED"]
      /\ itemStatus' = [i \in AllItems |-> IF i[1] = s THEN "PROPOSED" ELSE itemStatus[i]]
      /\ rmSet' = [rmSet EXCEPT ![s] = "PROPOSED"]
      /\ rmItem' = [i \in AllItems |-> IF i[1] = s THEN "PROPOSED" ELSE rmItem[i]]
      /\ UNCHANGED << version, blocked, others, latest, written >>
  BY DEF Propose, kernel
<1>2. Nothing \in Result
  BY DEF Nothing, Result
<1>3. /\ tx' \in [Threads -> Transaction] /\ held' \in [Threads -> SUBSET Locks]
      /\ log' \in [Keys -> [req : Requests, result : Result] \cup {None}]
  BY <1>1, <1>2, FinishFacts
<1>4. TypeOK'
  <2>1. /\ setStatus' \in [Sets -> SetStatus] /\ rmSet' \in [Sets -> SetStatus]
        /\ itemStatus' \in [AllItems -> ItemStatus] /\ rmItem' \in [AllItems -> ItemStatus]
    BY <1>1 DEF Inv, TypeOK, SetStatus, ItemStatus
  <2> QED
    BY <1>1, <1>3, <2>1 DEF Inv, TypeOK
<1>5. \A i \in AllItems : i[1] = s => itemStatus[i] = "none"
  BY <1>1, ItemFacts DEF Inv, NewIsUndecided
<1>6. Decides(t)
  BY <1>1, <1>5 DEF Decides
<1>7. ToldNext(s, Nothing)
  BY DEF ToldNext, Nothing
<1>8. DecidedIsSettled'
  <2>1. ItemsFollow /\ rmSet = setStatus /\ rmItem = itemStatus
    BY SettledFollow DEF Inv, DecidedIsSettled
  <2>2. rmSet' = setStatus' /\ rmItem' = itemStatus'
    BY <1>1, <2>1
  <2>3. ItemsFollow'
    BY <1>1, <2>1, ItemFacts DEF ItemsFollow, Inv, TypeOK
  <2> QED
    BY <2>2, <2>3, FollowSettled
<1>9. NewIsUndecided'
  BY <1>1, ItemFacts DEF NewIsUndecided, Inv, TypeOK
<1> QED
  BY <1>1, <1>2, <1>4, <1>6, <1>7, <1>8, <1>9, CommitStep

LEMMA CommitRejectStep ==
  ASSUME Inv, NEW t \in Threads, CommitReject(t)
  PROVE  Inv'
<1> DEFINE s == tx[t].req.set
<1>1. /\ tx[t].pc = "commit" /\ tx[t].pc # "idle"
      /\ Remember(t, Nothing) /\ Finish(t, "accepted", Nothing)
      /\ setStatus' = [setStatus EXCEPT ![s] = "REJECTED"]
      /\ itemStatus' = [i \in AllItems |-> IF i[1] = s THEN "REJECTED" ELSE itemStatus[i]]
      /\ rmSet' = [rmSet EXCEPT ![s] = setStatus'[s]]
      /\ rmItem' = [i \in AllItems |-> IF i[1] = s THEN itemStatus'[i] ELSE rmItem[i]]
      /\ UNCHANGED << version, blocked, others, latest, written >>
  BY DEF CommitReject, kernel
<1>2. Nothing \in Result /\ s \in Sets
  BY <1>1, RecordFacts DEF Nothing, Result
<1>3. /\ tx' \in [Threads -> Transaction] /\ held' \in [Threads -> SUBSET Locks]
      /\ log' \in [Keys -> [req : Requests, result : Result] \cup {None}]
  BY <1>1, <1>2, FinishFacts
<1>4. ItemsLock(s) \in held[t]
  BY <1>1 DEF Inv, ThreadInv, Holding
<1>5. s = tx[t].req.set
  OBVIOUS
<1> HIDE DEF s
<1>6. TypeOK'
  <2>1. /\ setStatus' \in [Sets -> SetStatus] /\ rmSet' \in [Sets -> SetStatus]
        /\ itemStatus' \in [AllItems -> ItemStatus] /\ rmItem' \in [AllItems -> ItemStatus]
    BY <1>1, <1>2 DEF Inv, TypeOK, SetStatus, ItemStatus
  <2> QED
    BY <1>1, <1>3, <2>1 DEF Inv, TypeOK
<1>7. Decides(t)
  BY <1>1, <1>4 DEF Decides
<1>8. ToldNext(s, Nothing)
  BY DEF ToldNext, Nothing
<1>9. DecidedIsSettled'
  <2>1. ItemsFollow /\ rmSet = setStatus /\ rmItem = itemStatus
    BY SettledFollow DEF Inv, DecidedIsSettled
  <2>2. rmSet' = setStatus'
    BY <1>1, <1>2, <2>1 DEF Inv, TypeOK
  <2>3. rmItem' = itemStatus'
    BY <1>1, <2>1
  <2>4. ItemsFollow'
    BY <1>1, <2>1, ItemFacts DEF ItemsFollow, Inv, TypeOK
  <2> QED
    BY <2>2, <2>3, <2>4, FollowSettled
<1>10. NewIsUndecided'
  BY <1>1, <1>2, ItemFacts DEF NewIsUndecided, Inv, TypeOK
<1> QED
  BY <1>1, <1>2, <1>5, <1>6, <1>7, <1>8, <1>9, <1>10, CommitStep

(* A confirmation marks what it wrote and skipped, and no other item.      *)
LEMMA ConfirmFacts ==
  ASSUME Inv, NEW t \in Threads, CommitConfirm(t), NEW s, s = tx[t].req.set
  PROVE  /\ Decides(t) /\ ToldNext(s, tx[t].done)
         /\ \A i \in AllItems :
              \/ itemStatus'[i] = itemStatus[i] /\ written'[i] = written[i]
              \/ /\ i[1] = s /\ itemStatus[i] = "PROPOSED"
                 /\ itemStatus'[i] \in {"APPLIED", "SKIPPED"}
<1> DEFINE d == tx[t].done
<1>1. /\ tx[t].pc = "commit" /\ tx[t].pc # "idle" /\ Confirming(t)
      /\ itemStatus' = Marked(t)
      /\ written' = [i \in AllItems |->
                       IF i[1] = s /\ i[2] \in tx[t].wrote THEN written[i] + 1 ELSE written[i]]
  BY DEF CommitConfirm, Confirming
<1>2. /\ s \in Sets /\ d \in Result
  BY <1>1, RecordFacts DEF Transaction
<1>3. ItemsLock(s) \in held[t]
  BY <1>1 DEF Inv, ThreadInv, Holding
<1>4. /\ \A q \in d.applied \cup d.skipped : q \in Items(s) /\ itemStatus[<< s, q >>] = "PROPOSED"
      /\ d.applied \cap d.skipped = {}
      /\ tx[t].wrote = d.applied
  BY <1>1 DEF Inv, ThreadInv, Picked, Touched
<1>5. itemStatus' = [i \in AllItems |-> IF i[1] = s /\ i[2] \in d.applied THEN "APPLIED"
                                       ELSE IF i[1] = s /\ i[2] \in d.skipped THEN "SKIPPED"
                                       ELSE itemStatus[i]]
  BY <1>1 DEF Marked
<1> HIDE DEF d
<1>6. ASSUME NEW i \in AllItems
      PROVE  \/ itemStatus'[i] = itemStatus[i] /\ written'[i] = written[i]
             \/ /\ i[1] = s /\ itemStatus[i] = "PROPOSED"
                /\ \/ itemStatus'[i] = "SKIPPED" /\ written'[i] = written[i]
                   \/ itemStatus'[i] = "APPLIED" /\ written'[i] = written[i] + 1
  <2>1. i = << i[1], i[2] >>
    BY ItemFacts
  <2>2. /\ itemStatus'[i] = IF i[1] = s /\ i[2] \in d.applied THEN "APPLIED"
                            ELSE IF i[1] = s /\ i[2] \in d.skipped THEN "SKIPPED"
                            ELSE itemStatus[i]
        /\ written'[i] = IF i[1] = s /\ i[2] \in d.applied THEN written[i] + 1 ELSE written[i]
    BY <1>1, <1>4, <1>5
  <2>3. CASE i[1] = s /\ i[2] \in d.applied
    <3>1. itemStatus[i] = "PROPOSED"
      BY <1>4, <2>1, <2>3
    <3> QED
      BY <2>2, <2>3, <3>1
  <2>4. CASE i[1] = s /\ i[2] \in d.skipped /\ i[2] \notin d.applied
    <3>1. itemStatus[i] = "PROPOSED"
      BY <1>4, <2>1, <2>4
    <3> QED
      BY <2>2, <2>4, <3>1
  <2>5. CASE ~ (i[1] = s /\ i[2] \in d.applied \cup d.skipped)
    BY <2>2, <2>5
  <2> QED
    BY <2>3, <2>4, <2>5
<1>7. Decides(t)
  BY <1>3, <1>6 DEF Decides
<1>8. ToldNext(s, d)
  <2>1. ASSUME NEW q \in d.applied \cup d.skipped
        PROVE  /\ << s, q >> \in AllItems
               /\ written[<< s, q >>] = 0
    BY <1>2, <1>4, ItemFacts DEF Inv, ItemsTellWhatIsWritten
  <2>2. ASSUME NEW q \in d.applied
        PROVE  written'[<< s, q >>] = 1
    BY <1>1, <1>4, <2>1, <2>2
  <2>3. ASSUME NEW q \in d.skipped
        PROVE  /\ written'[<< s, q >>] = 0
               /\ itemStatus'[<< s, q >>] = "SKIPPED"
    BY <1>1, <1>4, <1>5, <2>1, <2>3
  <2> QED
    BY <2>1, <2>2, <2>3 DEF ToldNext
<1> QED
  BY <1>6, <1>7, <1>8 DEF d

LEMMA CommitConfirmStep ==
  ASSUME Inv, NEW t \in Threads, CommitConfirm(t)
  PROVE  Inv'
<1> DEFINE s == tx[t].req.set
           d == tx[t].done
<1>1. /\ tx[t].pc = "commit" /\ tx[t].pc # "idle" /\ Confirming(t)
      /\ Remember(t, d) /\ Finish(t, "accepted", d)
      /\ itemStatus' = Marked(t)
      /\ setStatus' = IF Settled(t) THEN [setStatus EXCEPT ![s] = "CONFIRMED"] ELSE setStatus
      /\ rmSet' = [rmSet EXCEPT ![s] = setStatus'[s]]
      /\ rmItem' = [i \in AllItems |-> IF i[1] = s THEN itemStatus'[i] ELSE rmItem[i]]
      /\ version' = [o \in Objects |-> Seen(t, o)]
      /\ latest' = [latest EXCEPT ![s] = d]
      /\ written' = [i \in AllItems |->
                       IF i[1] = s /\ i[2] \in tx[t].wrote THEN written[i] + 1 ELSE written[i]]
      /\ UNCHANGED << blocked, others >>
  BY DEF CommitConfirm, Confirming
<1>2. d \in Result /\ s \in Sets
  BY <1>1, RecordFacts DEF Transaction
<1>3. /\ tx' \in [Threads -> Transaction] /\ held' \in [Threads -> SUBSET Locks]
      /\ log' \in [Keys -> [req : Requests, result : Result] \cup {None}]
  BY <1>1, <1>2, FinishFacts
<1>4. /\ Decides(t) /\ ToldNext(s, d)
      /\ \A i \in AllItems :
            \/ itemStatus'[i] = itemStatus[i] /\ written'[i] = written[i]
            \/ /\ i[1] = s /\ itemStatus[i] = "PROPOSED"
               /\ itemStatus'[i] \in {"APPLIED", "SKIPPED"}
  BY ConfirmFacts
<1>5. version' \in [Objects -> Nat]
  BY <1>1, SeenIsNat
<1>6. Settled(t) => \A q \in Items(s) : itemStatus'[<< s, q >>] # "PROPOSED"
  BY <1>1 DEF Settled
<1>7. s = tx[t].req.set /\ d = tx[t].done
  OBVIOUS
<1> HIDE DEF s, d
<1>8. /\ setStatus' \in [Sets -> SetStatus] /\ rmSet' \in [Sets -> SetStatus]
      /\ \A z \in Sets : \/ setStatus'[z] = setStatus[z]
                         \/ z = s /\ setStatus'[z] = "CONFIRMED" /\ Settled(t)
  BY <1>1, <1>2 DEF Inv, TypeOK, SetStatus
<1>9. TypeOK'
  <2>1. itemStatus' \in [AllItems -> ItemStatus]
    BY <1>1 DEF Marked, Inv, TypeOK, ItemStatus
  <2>2. rmItem' \in [AllItems -> ItemStatus]
    BY <1>1, <2>1 DEF Inv, TypeOK
  <2>3. written' \in [AllItems -> Nat] /\ latest' \in [Sets -> Result]
    BY <1>1, <1>2 DEF Inv, TypeOK
  <2> QED
    BY <1>1, <1>3, <1>5, <1>8, <2>1, <2>2, <2>3 DEF Inv, TypeOK
<1>10. ItemsFollow /\ rmSet = setStatus /\ rmItem = itemStatus
  BY SettledFollow DEF Inv, DecidedIsSettled
<1>11. DecidedIsSettled'
  <2>1. rmSet' = setStatus'
    BY <1>1, <1>2, <1>8, <1>10 DEF Inv, TypeOK
  <2>2. rmItem' = itemStatus'
    <3>1. \A i \in AllItems : i[1] # s => itemStatus'[i] = itemStatus[i]
      BY <1>4
    <3>2. /\ itemStatus' = [i \in AllItems |-> itemStatus'[i]]
          /\ rmItem' = [i \in AllItems |-> itemStatus'[i]]
      BY <1>1, <1>9, <1>10, <3>1 DEF TypeOK
    <3> QED
      BY <3>2
  <2>3. ItemsFollow'
    <3> SUFFICES ASSUME NEW z \in Sets, NEW q \in Items(z)
                 PROVE  /\ setStatus'[z] = "CONFIRMED" => itemStatus'[<< z, q >>] # "PROPOSED"
                        /\ setStatus'[z] = "REJECTED" => itemStatus'[<< z, q >>] = "REJECTED"
      BY DEF ItemsFollow
    <3>1. << z, q >> \in AllItems
      BY ItemFacts
    <3>2. /\ setStatus[z] = "CONFIRMED" => itemStatus[<< z, q >>] # "PROPOSED"
          /\ setStatus[z] = "REJECTED" => itemStatus[<< z, q >>] = "REJECTED"
      BY <1>10 DEF ItemsFollow
    <3> QED
      BY <1>4, <1>6, <1>8, <3>1, <3>2
  <2> QED
    BY <2>1, <2>2, <2>3, FollowSettled
<1>12. NewIsUndecided'
  <2> SUFFICES ASSUME NEW z \in Sets, setStatus'[z] = "none", NEW q \in Items(z)
               PROVE  itemStatus'[<< z, q >>] = "none"
    BY DEF NewIsUndecided
  <2>1. << z, q >> \in AllItems
    BY ItemFacts
  <2>2. setStatus[z] = "none"
    BY <1>8
  <2>3. itemStatus[<< z, q >>] = "none"
    BY <2>2 DEF Inv, NewIsUndecided
  <2> QED
    BY <1>4, <2>1, <2>3
<1> QED
  BY <1>1, <1>2, <1>4, <1>7, <1>9, <1>11, <1>12, CommitStep

-----------------------------------------------------------------------------
(* The invariant is inductive.                                             *)
LEMMA InitInv ==
  ASSUME Init
  PROVE  Inv
<1>1. TypeOK
  <2>1. Idle \in Transaction
    BY EndFacts DEF Idle, Pcs, Replies, Nothing, Result
  <2>2. /\ setStatus \in [Sets -> SetStatus] /\ rmSet \in [Sets -> SetStatus]
        /\ itemStatus \in [AllItems -> ItemStatus] /\ rmItem \in [AllItems -> ItemStatus]
        /\ version \in [Objects -> Nat] /\ blocked \subseteq Things /\ others \in 0 .. MaxOthers
    BY ChangeSetsAssumption DEF Init, SetStatus, ItemStatus
  <2>3. /\ log \in [Keys -> [req : Requests, result : Result] \cup {None}]
        /\ latest \in [Sets -> Result] /\ written \in [AllItems -> Nat]
    BY DEF Init, Nothing, Result
  <2>4. tx \in [Threads -> Transaction] /\ held \in [Threads -> SUBSET Locks]
    BY <2>1 DEF Init
  <2> QED
    BY <2>2, <2>3, <2>4 DEF TypeOK
<1>2. Exclusive /\ ItemsTellWhatIsWritten
  BY DEF Init, Exclusive, ItemsTellWhatIsWritten
<1>3. DecidedIsSettled
  BY DEF Init, DecidedIsSettled
<1>4. NewIsUndecided
  BY ItemFacts DEF Init, NewIsUndecided
<1>5. Logged
  BY DEF Init, Logged, Told, Nothing
<1>6. \A t \in Threads : ThreadInv(t)
  BY DEF Init, Idle, Begin, ThreadInv, Busy, Holding, Picked, Confirming, Answered
<1> QED
  BY <1>1, <1>2, <1>3, <1>4, <1>5, <1>6 DEF Inv

LEMMA FailStep ==
  ASSUME Inv, NEW t \in Threads, Fail(t)
  PROVE  Inv'
BY EndsStep DEF Fail

LEMMA RefuseStep ==
  ASSUME Inv, NEW t \in Threads, Refuse(t)
  PROVE  Inv'
BY EndsStep DEF Refuse, Stay

LEMMA NextInv ==
  ASSUME Inv, [Next]_vars
  PROVE  Inv'
<1>1. ASSUME NEW t \in Threads, NEW r \in Requests, Start(t, r) \/ Replay(t, r)
      PROVE  Inv'
  BY <1>1, StartStep, ReplayStep
<1>2. ASSUME NEW t \in Threads, Run(t)
      PROVE  Inv'
  <2>1. ASSUME NEW s \in Sets, Propose(t, s)
        PROVE  Inv'
    BY <2>1, ProposeStep
  <2>2. CASE ReadStatus(t)
    BY <2>2, ReadStatusStep
  <2>3. CASE RejectSet(t) \/ RejectItems(t) \/ CommitReject(t)
    BY <2>3, RejectSetStep, RejectItemsStep, CommitRejectStep
  <2>4. CASE TakeItems(t) \/ Precheck(t) \/ ReadVersion(t) \/ Apply(t) \/ TakeSet(t)
    BY <2>4, TakeItemsStep, PrecheckStep, ReadVersionStep, ApplyStep, TakeSetStep
  <2>5. CASE ForeignItem(t) \/ KernelRefuses(t)
    BY <2>5, RefuseStep DEF ForeignItem, KernelRefuses
  <2>6. CASE CommitConfirm(t)
    BY <2>6, CommitConfirmStep
  <2>7. CASE DuplicateKey(t) \/ DeadlockVictim(t)
    BY <2>7, FailStep DEF DuplicateKey, DeadlockVictim
  <2> QED
    BY <1>2, <2>1, <2>2, <2>3, <2>4, <2>5, <2>6, <2>7 DEF Run
<1>3. ASSUME NEW t \in Threads, Abort(t)
      PROVE  Inv'
  BY <1>3, FailStep DEF Abort
<1>4. ASSUME NEW o \in Things, OtherWrite(o)
      PROVE  Inv'
  BY <1>4, OtherWriteStep
<1>5. CASE UNCHANGED vars
  <2>1. UNCHANGED << setStatus, itemStatus, rmSet, rmItem, version, blocked, others, log, latest,
                     written, tx, held >>
    BY <1>5 DEF vars, changes, kernel
  <2>2. TypeOK'
    BY <2>1 DEF Inv, TypeOK
  <2>5. Exclusive' /\ ItemsTellWhatIsWritten'
    BY <2>1 DEF Inv, Exclusive, ItemsTellWhatIsWritten
  <2>6. DecidedIsSettled'
    BY <2>1 DEF Inv, DecidedIsSettled
  <2>3. NewIsUndecided' /\ Logged'
    BY <2>1 DEF Inv, NewIsUndecided, Logged, Told
  <2>4. ASSUME NEW t \in Threads
        PROVE  ThreadInv(t)'
    <3>1. Busy(t)' /\ Holding(t)'
      BY <2>1 DEF Inv, ThreadInv, Busy, Holding
    <3>2. Picked(t)' /\ Answered(t)'
      BY <2>1 DEF Inv, ThreadInv, Picked, Confirming, Touched, Target, Current, Answered, Told
    <3> QED
      BY <3>1, <3>2 DEF ThreadInv
  <2> QED
    BY <2>2, <2>3, <2>4, <2>5, <2>6 DEF Inv
<1> QED
  BY <1>1, <1>2, <1>3, <1>4, <1>5 DEF Next

LEMMA Invariance == Spec => []Inv
<1>1. Init => Inv
  BY InitInv
<1>2. Inv /\ [Next]_vars => Inv'
  BY NextInv
<1> QED
  BY <1>1, <1>2, PTL DEF Spec

-----------------------------------------------------------------------------
(* What a confirmation writes belongs to a set that is open.               *)
LEMMA WritesWhileOpen ==
  ASSUME Inv, [Next]_vars, NEW i \in AllItems, written'[i] # written[i]
  PROVE  setStatus[i[1]] = "PROPOSED" /\ itemStatus[i] = "PROPOSED"
<1>1. PICK t \in Threads : CommitConfirm(t)
  <2>1. ASSUME NEW t \in Threads, Run(t), ~ CommitConfirm(t)
        PROVE  written' = written
    BY <2>1 DEF Run, Propose, ReadStatus, RejectSet, RejectItems, CommitReject, TakeItems, ForeignItem,
                Precheck, ReadVersion, Apply, KernelRefuses, TakeSet, DuplicateKey, DeadlockVictim,
                Fail, Refuse, Stay
  <2>2. ASSUME NEW t \in Threads, NEW r \in Requests, Start(t, r) \/ Replay(t, r)
        PROVE  written' = written
    BY <2>2 DEF Start, Replay, Stay
  <2>3. ASSUME NEW t \in Threads, Abort(t)
        PROVE  written' = written
    BY <2>3 DEF Abort, Fail, Stay
  <2>4. ASSUME NEW o \in Things, OtherWrite(o)
        PROVE  written' = written
    BY <2>4 DEF OtherWrite
  <2>5. CASE UNCHANGED vars
    BY <2>5 DEF vars
  <2> QED
    BY <2>1, <2>2, <2>3, <2>4, <2>5 DEF Next
<1>2. itemStatus[i] = "PROPOSED" /\ i[1] \in Sets /\ i[2] \in Items(i[1]) /\ i = << i[1], i[2] >>
  BY <1>1, ConfirmFacts, ItemFacts
<1>3. ItemsFollow
  BY SettledFollow DEF Inv
<1>4. setStatus[i[1]] \notin {"none", "CONFIRMED", "REJECTED"}
  BY <1>2, <1>3 DEF ItemsFollow, Inv, NewIsUndecided
<1>5. setStatus[i[1]] \in SetStatus
  BY <1>2 DEF Inv, TypeOK
<1> QED
  BY <1>2, <1>4, <1>5 DEF SetStatus

-----------------------------------------------------------------------------
(* Every variable holds values of its type, in all states of               *)
(* AiChangeRepository's transactions.                                      *)
THEOREM ChangeSetTypeOK == Spec => []TypeOK
<1>1. Inv => TypeOK
  BY DEF Inv
<1> QED
  BY Invariance, <1>1, PTL

(* The status of an item tells whether its change is in the kernel, and    *)
(* no change is written twice, with any number of confirmations,           *)
(* rejections and retries of any sets side by side (confirm, markItem).    *)
THEOREM ItemsHonest == Spec => []ItemsTellWhatIsWritten
<1>1. Inv => ItemsTellWhatIsWritten
  BY DEF Inv
<1> QED
  BY Invariance, <1>1, PTL

(* A set that is decided has no item left to decide, and the read model    *)
(* shows it as it is (proposedItemCount, reject, AiChangeProjection).      *)
THEOREM StatusesSettled == Spec => []DecidedIsSettled
<1>1. Inv => DecidedIsSettled
  BY DEF Inv
<1> QED
  BY Invariance, <1>1, PTL

(* No answer tells of a change that is not written, whether it is the      *)
(* first one, a replay or the one of an earlier confirmation               *)
(* (AiCommandController, confirmedResult).                                 *)
THEOREM AnswersHonest == Spec => []AnswersTellWhatIsWritten
<1>1. Inv => AnswersTellWhatIsWritten
  BY DEF Inv, ThreadInv, Answered, Told, AnswersTellWhatIsWritten
<1> QED
  BY Invariance, <1>1, PTL

(* The kernel is written for an item only while the item and its set are   *)
(* still open, although the status of the set is read without a lock       *)
(* (status, changeItems).                                                  *)
THEOREM OnlyWhileOpen == Spec => WrittenWhileOpen
<1>1. Inv /\ [Next]_vars =>
        [\A i \in AllItems :
           written'[i] # written[i] => setStatus[i[1]] = "PROPOSED" /\ itemStatus[i] = "PROPOSED"]_vars
  BY WritesWhileOpen
<1> QED
  BY Invariance, <1>1, PTL DEF Spec, WrittenWhileOpen

=============================================================================
