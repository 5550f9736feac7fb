--------------------------- MODULE BatchesProofs ---------------------------
(***************************************************************************)
(* A batch writes nothing twice, is all or nothing where it says so, and   *)
(* is answered with what is in the tables, for any number of threads,      *)
(* batches, keys and objects.                                              *)
(*                                                                         *)
(* The argument: what a batch has written and not committed is under keys  *)
(* whose rows it alone has locked and which are not in the tables, so no   *)
(* other batch writes them before it commits; a row that is in the tables  *)
(* stays.  Every sub-command a batch has been told to be committed is in   *)
(* the tables or among those rows.                                         *)
(***************************************************************************)
EXTENDS Batches, FiniteSetTheorems, TLAPS

(* The keys under which an object has been written.                        *)
Writers(o) == {k \in SubKeys : subs[k] # None /\ subs[k].item.target = o}

(* Where a batch under way is in its list.                                 *)
Going(t) ==
  tx[t].pc # "idle" =>
    /\ tx[t].req \in Requests
    /\ tx[t].at \in 1 .. Len(tx[t].req.items) + 1
    /\ tx[t].pc = "complete" <=> tx[t].at = Len(tx[t].req.items) + 1
    /\ Len(tx[t].results) = tx[t].at - 1
    /\ tx[t].wrote \subseteq 1 .. tx[t].at - 1
    /\ Partial(t) => tx[t].wrote = {}
    /\ tx[t].reply = "none"

(* What it has written and not committed is its own.                       *)
Written(t) ==
  /\ tx[t].pc = "idle" => tx[t].wrote = {}
  /\ \A i \in tx[t].wrote : /\ subs[<< tx[t].req.key, i >>] = None
                            /\ KeyLock(<< tx[t].req.key, i >>) \in held[t]

(* What it has been told committed is in the tables or written.            *)
Told(t) ==
  tx[t].pc # "idle" =>
    \A i \in 1 .. tx[t].at - 1 :
      /\ ~Partial(t) => tx[t].results[i] = "COMMITTED"
      /\ tx[t].results[i] = "COMMITTED" => i \in tx[t].wrote \/ Done(tx[t].req, i)

AllDone(r) == r.mode = "all_or_nothing" => \A i \in DOMAIN r.items : Done(r, i)

(* An outcome that is true.                                                *)
True(o) ==
  /\ o.req \in Requests /\ DOMAIN o.results \subseteq DOMAIN o.req.items
  /\ Honest(o)

Accepted(t) ==
  tx[t].reply = "accepted" =>
    True([req |-> tx[t].req, results |-> tx[t].results]) /\ AllDone(tx[t].req)

ThreadInv(t) == Going(t) /\ Written(t) /\ Told(t) /\ Accepted(t)

Exclusive == \A t, u \in Threads : t # u => held[t] \cap held[u] = {}

Logged ==
  \A k \in Keys : /\ \A r \in Requests : batches[k] = r => AllDone(r)
                  /\ \A o \in Outcome : announced[k] = o => True(o)

Inv ==
  /\ TypeOK
  /\ \A o \in Objects : IsFiniteSet(Writers(o))
  /\ NothingTwice
  /\ AllOrNothing
  /\ Exclusive
  /\ Logged
  /\ \A t \in Threads : ThreadInv(t)

TxType ==
  [req : Requests \cup {None}, pc : Pcs, at : Nat \ {0}, results : Seq(Verdicts),
   wrote : SUBSET Nat, reply : Replies]

-----------------------------------------------------------------------------
(* What follows n - 1 elements is element n.                               *)
LEMMA AppendFacts ==
  ASSUME NEW S, NEW q \in Seq(S), NEW e \in S, NEW n \in Nat, Len(q) = n - 1
  PROVE  /\ Len(Append(q, e)) = n
         /\ \A i \in 1 .. n : Append(q, e)[i] = IF i = n THEN e ELSE q[i]
<1>1. Len(Append(q, e)) = n
  OBVIOUS
<1>2. Append(q, e)[n] = e
  OBVIOUS
<1>3. \A i \in 1 .. n : i # n => i \in 1 .. Len(q) /\ Append(q, e)[i] = q[i]
  OBVIOUS
<1> QED
  BY <1>1, <1>2, <1>3

-----------------------------------------------------------------------------
(* A request's sub-commands have keys, and its list is a sequence.         *)
LEMMA RequestFacts ==
  ASSUME NEW r \in Requests
  PROVE  /\ r.items \in Seq(Items) /\ Len(r.items) \in Nat \ {0}
         /\ DOMAIN r.items = 1 .. Len(r.items)
         /\ r.key \in Keys /\ r # None
         /\ r.mode \in Modes
         /\ \A i \in DOMAIN r.items : << r.key, i >> \in SubKeys /\ r.items[i] \in Items
<1>1. /\ r.items \in Seq(Items) /\ r.items # << >> /\ r.mode \in Modes
      /\ r # None
  BY BatchesAssumption
<1>2. r.key \in Keys
  BY DEF Keys
<1>3. \A i \in DOMAIN r.items : << r.key, i >> \in SubKeys
  <2> SUFFICES ASSUME NEW i \in DOMAIN r.items
               PROVE  << r.key, i >> \in SubKeys
    OBVIOUS
  <2>1. << r.key, i >> \in {r.key} \X DOMAIN r.items
    OBVIOUS
  <2> QED
    BY <2>1 DEF SubKeys
<1>4. /\ Len(r.items) \in Nat \ {0} /\ DOMAIN r.items = 1 .. Len(r.items)
      /\ \A i \in DOMAIN r.items : r.items[i] \in Items
  BY <1>1
<1> QED
  BY <1>1, <1>2, <1>3, <1>4

-----------------------------------------------------------------------------
(* Rows a batch may commit: of its own list, and not in the tables.        *)
Fresh(t, S) ==
  /\ tx[t].req \in Requests
  /\ S \subseteq DOMAIN tx[t].req.items
  /\ \A i \in S : subs[<< tx[t].req.key, i >>] = None

RowsStay == \A k \in SubKeys : subs[k] # None => subs'[k] = subs[k]

Row(r, i) == [item |-> r.items[i], by |-> r]

(* A commit adds its rows and leaves the others as they are.               *)
LEMMA CommitAdds ==
  ASSUME TypeOK, NEW t \in Threads, NEW S, Fresh(t, S), Committed(t, S)
  PROVE  /\ \A i \in S : subs'[<< tx[t].req.key, i >>] = Row(tx[t].req, i)
         /\ \A k \in SubKeys : \/ subs'[k] = subs[k]
                               \/ \E i \in S : k = << tx[t].req.key, i >>
         /\ RowsStay
         /\ subs' \in [SubKeys -> [item : Items, by : Requests] \cup {None}]
         /\ \A i \in S : Row(tx[t].req, i) # None
<1> DEFINE r == tx[t].req
           w == {<< r.key, i >> : i \in S}
<1>1. /\ r \in Requests /\ S \subseteq DOMAIN r.items
      /\ \A i \in S : << r.key, i >> \in SubKeys /\ r.items[i] \in Items
  BY RequestFacts DEF Fresh
<1>2. subs' = [k \in SubKeys |-> IF k \in w THEN [item |-> r.items[k[2]], by |-> r] ELSE subs[k]]
  BY DEF Committed
<1>3. \A i \in S : subs'[<< r.key, i >>] = Row(r, i)
  BY <1>1, <1>2 DEF Row
<1>4. \A k \in SubKeys : k \notin w => subs'[k] = subs[k]
  BY <1>2
<1>5. \A k \in w : subs[k] = None /\ \E i \in S : k = << r.key, i >>
  BY DEF Fresh
<1>6. subs' \in [SubKeys -> [item : Items, by : Requests] \cup {None}]
  <2>1. \A k \in SubKeys : subs'[k] \in [item : Items, by : Requests] \cup {None}
    <3> SUFFICES ASSUME NEW k \in SubKeys
                 PROVE  subs'[k] \in [item : Items, by : Requests] \cup {None}
      OBVIOUS
    <3>1. CASE k \in w
      <4>1. PICK i \in S : k = << r.key, i >>
        BY <3>1
      <4>2. r.items[i] \in Items /\ subs'[k] = Row(r, i)
        BY <4>1, <1>3, <1>1
      <4>3. Row(r, i) \in [item : Items, by : Requests]
        BY <4>2, <1>1 DEF Row
      <4> QED
        BY <4>2, <4>3
    <3>2. CASE k \notin w
      BY <3>2, <1>4 DEF TypeOK
    <3> QED
      BY <3>1, <3>2
  <2> QED
    BY <2>1, <1>2
<1>7. \A i \in S : Row(r, i) # None
  <2>1. \A i \in S : Row(r, i) \in [item : Items, by : Requests]
    BY <1>1 DEF Row
  <2> QED
    BY <2>1, BatchesAssumption
<1> QED
  BY <1>3, <1>4, <1>5, <1>6, <1>7 DEF RowsStay
(* It writes each of its objects as often as it has rows for it.           *)
LEMMA CommitCounts ==
  ASSUME TypeOK, NothingTwice, \A o \in Objects : IsFiniteSet(Writers(o)),
         NEW t \in Threads, NEW S, Fresh(t, S), Committed(t, S), others' = others
  PROVE  /\ NothingTwice' /\ \A o \in Objects : IsFiniteSet(Writers(o)')
         /\ version' \in [Objects -> Nat] /\ writes' \in [SubKeys -> Nat]
<1> DEFINE r == tx[t].req
           w == {<< r.key, i >> : i \in S}
<1>1. /\ \A i \in S : << r.key, i >> \in SubKeys
      /\ S \subseteq 1 .. Len(r.items) /\ Len(r.items) \in Nat
  BY RequestFacts DEF Fresh
<1>2. /\ \A k \in w : subs[k] = None /\ subs'[k] # None
      /\ \A k \in SubKeys \ w : subs'[k] = subs[k]
      /\ \A i \in S : subs'[<< r.key, i >>].item = r.items[i]
  <2>1. \A i \in S : /\ subs[<< r.key, i >>] = None
                     /\ subs'[<< r.key, i >>] # None
                     /\ subs'[<< r.key, i >>].item = r.items[i]
    <3>1. \A i \in S : subs'[<< r.key, i >>] = Row(r, i) /\ Row(r, i) # None
      BY CommitAdds
    <3>2. \A i \in S : Row(r, i).item = r.items[i]
      BY DEF Row
    <3> QED
      BY <3>1, <3>2 DEF Fresh
  <2>2. \A k \in SubKeys : subs'[k] = subs[k] \/ \E i \in S : k = << r.key, i >>
    BY CommitAdds
  <2> QED
    BY <2>1, <2>2
<1>3. \A k \in SubKeys : writes'[k] = IF subs'[k] = None THEN 0 ELSE 1
  <2>1. writes' = [k \in SubKeys |-> IF k \in w THEN writes[k] + 1 ELSE writes[k]]
    BY DEF Committed
  <2>2. \A k \in SubKeys : writes[k] = IF subs[k] = None THEN 0 ELSE 1
    BY DEF NothingTwice
  <2> QED
    BY <2>1, <2>2, <1>1, <1>2
<1>4. writes' \in [SubKeys -> Nat]
  <2>1. writes' = [k \in SubKeys |-> writes'[k]]
    BY DEF Committed
  <2> QED
    BY <2>1, <1>3
<1>5. ASSUME NEW o \in Objects
      PROVE  /\ version'[o] = 1 + Cardinality(others \cap {o}) + Cardinality(Writers(o)')
             /\ version'[o] \in Nat /\ IsFiniteSet(Writers(o)')
  <2> DEFINE A == {i \in S : r.items[i].target = o}
             B == {<< r.key, i >> : i \in A}
             f == [i \in A |-> << r.key, i >>]
  <2>1. IsFiniteSet(A)
    <3>1. A \in SUBSET (1 .. Len(r.items))
      BY <1>1
    <3>2. IsFiniteSet(1 .. Len(r.items))
      BY <1>1, FS_Interval
    <3> QED
      BY <3>1, <3>2, FS_Subset
  <2>2. ExistsBijection(A, B)
    <3>1. f \in Bijection(A, B)
      BY DEF Bijection, Injection, Surjection, IsInjective
    <3> QED
      BY <3>1 DEF ExistsBijection
  <2>3. IsFiniteSet(B) /\ Cardinality(B) = Cardinality(A)
    BY <2>1, <2>2, FS_Bijection
  <2>4. Writers(o)' = Writers(o) \cup B
    <3>1. ASSUME NEW k \in SubKeys
          PROVE  k \in Writers(o)' <=> k \in Writers(o) \cup B
      <4>1. CASE k \in w
        <5>1. PICK i \in S : k = << r.key, i >>
          BY <4>1
        <5>2. subs[k] = None /\ subs'[k] # None /\ subs'[k].item = r.items[i]
          BY <4>1, <5>1, <1>2
        <5>3. k \in B <=> r.items[i].target = o
          BY <5>1
        <5> QED
          BY <5>2, <5>3 DEF Writers
      <4>2. CASE k \notin w
        BY <4>2, <1>2 DEF Writers
      <4> QED
        BY <4>1, <4>2
    <3>2. B \subseteq SubKeys /\ Writers(o) \subseteq SubKeys /\ Writers(o)' \subseteq SubKeys
      BY <1>1 DEF Writers
    <3> QED
      BY <3>1, <3>2
  <2>5. Writers(o) \cap B = {}
    BY <1>2 DEF Writers
  <2>6. /\ IsFiniteSet(Writers(o)')
        /\ Cardinality(Writers(o)') = Cardinality(Writers(o)) + Cardinality(A)
    <3>1. /\ IsFiniteSet(Writers(o) \cup B)
          /\ Cardinality(Writers(o) \cup B)
               = Cardinality(Writers(o)) + Cardinality(B) - Cardinality(Writers(o) \cap B)
      BY <2>3, FS_Union
    <3>2. Cardinality(Writers(o) \cap B) = 0
      BY <2>5, FS_EmptySet
    <3>3. Cardinality(Writers(o)) \in Nat /\ Cardinality(B) \in Nat
      BY <2>3, FS_CardinalityType
    <3>4. Cardinality(B) = Cardinality(A)
      BY <2>3
    <3> HIDE DEF A, B
    <3>5. Cardinality(Writers(o) \cup B) = Cardinality(Writers(o)) + Cardinality(A)
      BY <3>1, <3>2, <3>3, <3>4
    <3> QED
      BY <3>1, <3>5, <2>4
  <2>7. /\ version'[o] = version[o] + Cardinality(A)
        /\ version[o] = 1 + Cardinality(others \cap {o}) + Cardinality(Writers(o))
        /\ version[o] \in Nat
    BY DEF Committed, NothingTwice, Writers, TypeOK
  <2>8. Cardinality(others \cap {o}) \in Nat /\ Cardinality(Writers(o)) \in Nat
        /\ Cardinality(A) \in Nat
    <3>1. IsFiniteSet(others \cap {o})
      BY FS_Singleton, FS_Intersection
    <3> QED
      BY <3>1, <2>1, FS_CardinalityType
  <2>9. \A x, y, z \in Nat : (1 + x + y) + z = 1 + x + (y + z) /\ (1 + x + y) + z \in Nat
    OBVIOUS
  <2> HIDE DEF A, B
  <2> QED
    BY <2>6, <2>7, <2>8, <2>9
<1>6. version' \in [Objects -> Nat]
  <2>1. version' = [o \in Objects |-> version'[o]]
    BY DEF Committed
  <2> QED
    BY <2>1, <1>5
<1>7. NothingTwice'
  BY <1>3, <1>5 DEF NothingTwice, Writers
<1> QED
  BY <1>4, <1>5, <1>6, <1>7
-----------------------------------------------------------------------------
(* What is true of the tables stays true as rows are added.                *)
LEMMA DoneStays ==
  ASSUME RowsStay, NEW r \in Requests
  PROVE  /\ \A i \in DOMAIN r.items : Done(r, i) => Done(r, i)'
         /\ AllDone(r) => AllDone(r)'
<1>1. \A i \in DOMAIN r.items : Done(r, i) => Done(r, i)'
  BY RequestFacts DEF RowsStay, Done
<1> QED
  BY <1>1 DEF AllDone

LEMMA TrueStays ==
  ASSUME RowsStay, NEW o, True(o)
  PROVE  True(o)'
BY DoneStays DEF True, Honest

(* A thread is not disturbed by what another commits under other keys.     *)
LEMMA OthersKeep ==
  ASSUME NEW u \in Threads, ThreadInv(u), RowsStay,
         tx'[u] = tx[u], held[u] \subseteq held'[u],
         \A i \in tx[u].wrote : subs'[<< tx[u].req.key, i >>] = subs[<< tx[u].req.key, i >>]
  PROVE  ThreadInv(u)'
<1>1. Going(u)'
  BY DEF ThreadInv, Going, Partial
<1>2. Written(u)'
  BY DEF ThreadInv, Written
<1>3. Told(u)'
  <2> SUFFICES ASSUME tx[u].pc # "idle", NEW i \in 1 .. tx[u].at - 1
               PROVE  /\ ~Partial(u) => tx[u].results[i] = "COMMITTED"
                      /\ tx[u].results[i] = "COMMITTED" => i \in tx[u].wrote \/ Done(tx[u].req, i)'
    BY DEF Told, Partial, Done
  <2>1. tx[u].req \in Requests /\ i \in DOMAIN tx[u].req.items
    BY RequestFacts DEF ThreadInv, Going
  <2>2. Done(tx[u].req, i) => Done(tx[u].req, i)'
    BY <2>1, DoneStays
  <2> QED
    BY <2>2 DEF ThreadInv, Told
<1>4. Accepted(u)'
  <2>1. CASE tx[u].reply # "accepted"
    BY <2>1 DEF Accepted
  <2>2. CASE tx[u].reply = "accepted"
    <3> DEFINE o == [req |-> tx[u].req, results |-> tx[u].results]
    <3>1. True(o) /\ AllDone(tx[u].req) /\ tx[u].req \in Requests
      BY <2>2 DEF ThreadInv, Accepted, True
    <3>2. True(o)' /\ AllDone(tx[u].req)'
      BY <3>1, TrueStays, DoneStays
    <3> QED
      BY <3>2 DEF Accepted
  <2> QED
    BY <2>1, <2>2
<1> QED
  BY <1>1, <1>2, <1>3, <1>4 DEF ThreadInv

(* A call that ended without being accepted promises nothing.              *)
LEMMA EndedKeeps ==
  ASSUME TypeOK, NEW t \in Threads, NEW reply \in Replies \ {"accepted"},
         Finish(t, reply, << >>)
  PROVE  ThreadInv(t)'
<1>1. tx'[t] = Begin(None, "idle", reply, << >>)
  BY DEF Finish, TypeOK
<1>2. /\ tx'[t].pc = "idle" /\ tx'[t].wrote = {} /\ tx'[t].reply # "accepted"
  BY <1>1 DEF Begin
<1> QED
  BY <1>2 DEF ThreadInv, Going, Written, Told, Accepted

(***************************************************************************)
(* A batch that goes on to its next sub-command: the one it leaves is      *)
(* refused, or in the tables, or written under a lock.                     *)
(***************************************************************************)
LEMMA AdvanceKeeps ==
  ASSUME TypeOK, NEW t \in Threads, ThreadInv(t), RowsStay,
         tx[t].pc \in {"look", "lock", "insert"},
         NEW r \in Requests, r = tx[t].req, NEW n \in Nat, n = tx[t].at,
         NEW verdict \in Verdicts, NEW wrote \in SUBSET (1 .. n),
         Advance(t, verdict, wrote),
         tx[t].wrote \subseteq wrote,
         ~Partial(t) => verdict = "COMMITTED",
         verdict = "COMMITTED" => (~Partial(t) /\ n \in wrote) \/ Done(r, n)',
         ~Partial(t) => \A i \in wrote : /\ subs'[<< r.key, i >>] = None
                                        /\ KeyLock(<< r.key, i >>) \in held'[t]
  PROVE  ThreadInv(t)'
<1>1. /\ r \in Requests /\ Len(r.items) \in Nat \ {0} /\ DOMAIN r.items = 1 .. Len(r.items)
      /\ n \in 1 .. Len(r.items) /\ n \in Nat
      /\ tx[t].results \in Seq(Verdicts) /\ Len(tx[t].results) = n - 1
      /\ Partial(t) => tx[t].wrote = {}
      /\ tx[t].reply = "none"
  BY RequestFacts DEF ThreadInv, Going, TypeOK
<1>2. /\ tx'[t].req = r /\ tx'[t].at = n + 1 /\ tx'[t].reply = tx[t].reply
      /\ tx'[t].results = Append(tx[t].results, verdict)
      /\ tx'[t].wrote = IF Partial(t) THEN {} ELSE wrote
      /\ tx'[t].pc = IF n = Len(r.items) THEN "complete" ELSE "look"
  BY DEF Advance, TypeOK
<1>3. /\ Len(tx'[t].results) = n
      /\ \A i \in 1 .. n : tx'[t].results[i] = IF i = n THEN verdict ELSE tx[t].results[i]
  <2>1. /\ Len(Append(tx[t].results, verdict)) = n
        /\ \A i \in 1 .. n : Append(tx[t].results, verdict)[i]
                              = IF i = n THEN verdict ELSE tx[t].results[i]
    BY <1>1, AppendFacts
  <2> QED
    BY <1>2, <2>1
<1>4. Partial(t)' <=> Partial(t)
  BY <1>2 DEF Partial
<1>5. Going(t)'
  <2>1. tx'[t].wrote \subseteq 1 .. n
    BY <1>2
  <2>2. /\ tx'[t].at - 1 = n /\ tx'[t].at \in 1 .. Len(r.items) + 1
        /\ tx'[t].pc = "complete" <=> tx'[t].at = Len(r.items) + 1
    <3>1. \A m \in Nat \ {0} : n \in 1 .. m => n + 1 - 1 = n /\ n + 1 \in 1 .. m + 1
      OBVIOUS
    <3>5. n + 1 - 1 = n /\ n + 1 \in 1 .. Len(r.items) + 1
      BY <3>1, <1>1
    <3>2. n = Len(r.items) <=> n + 1 = Len(r.items) + 1
      BY <1>1
    <3>3. "look" # "complete"
      OBVIOUS
    <3>4. tx'[t].pc = "complete" <=> n = Len(r.items)
      BY <1>2, <3>3
    <3> QED
      BY <1>2, <3>2, <3>4, <3>5
  <2>3. Partial(t)' => tx'[t].wrote = {}
    BY <1>2, <1>4
  <2> QED
    BY <1>1, <1>2, <1>3, <2>1, <2>2, <2>3 DEF Going
<1>6. Written(t)'
  BY <1>2 DEF Written
<1>7. Told(t)'
  <2> SUFFICES ASSUME NEW i \in 1 .. n
               PROVE  /\ ~Partial(t) => tx'[t].results[i] = "COMMITTED"
                      /\ tx'[t].results[i] = "COMMITTED" => i \in tx'[t].wrote \/ Done(r, i)'
    BY <1>1, <1>2, <1>4 DEF Told, Done
  <2>1. CASE i = n
    BY <2>1, <1>2, <1>3
  <2>2. CASE i # n
    <3>1. i \in 1 .. n - 1 /\ i \in DOMAIN r.items
      BY <2>2, <1>1
    <3>2. /\ ~Partial(t) => tx[t].results[i] = "COMMITTED"
          /\ tx[t].results[i] = "COMMITTED" => i \in tx[t].wrote \/ Done(r, i)
      BY <3>1 DEF ThreadInv, Told
    <3>3. Done(r, i) => Done(r, i)'
      BY <3>1, <1>1, DoneStays
    <3> QED
      BY <3>2, <3>3, <2>2, <1>1, <1>2, <1>3
  <2> QED
    BY <2>1, <2>2
<1> QED
  BY <1>1, <1>2, <1>5, <1>6, <1>7 DEF ThreadInv, Accepted
(* Between two steps of one sub-command only the locks grow.               *)
LEMMA PcKeeps ==
  ASSUME TypeOK, NEW t \in Threads, ThreadInv(t), UNCHANGED subs,
         tx[t].pc \in {"look", "lock", "insert"}, NEW p \in {"lock", "insert"},
         tx' = [tx EXCEPT ![t].pc = p], held[t] \subseteq held'[t]
  PROVE  ThreadInv(t)' /\ tx' \in [Threads -> TxType]
<1>1. /\ tx[t] \in TxType /\ tx'[t] = [tx[t] EXCEPT !.pc = p]
  BY DEF TypeOK, TxType
<1>2. /\ tx'[t].req = tx[t].req /\ tx'[t].at = tx[t].at /\ tx'[t].results = tx[t].results
      /\ tx'[t].wrote = tx[t].wrote /\ tx'[t].reply = tx[t].reply /\ tx'[t].pc = p
  BY <1>1 DEF TxType
<1>3. tx[t].pc \notin {"idle", "complete"} /\ p \notin {"idle", "complete"}
  OBVIOUS
<1>4. Going(t)'
  BY <1>2, <1>3 DEF ThreadInv, Going, Partial
<1>5. Written(t)'
  BY <1>2, <1>3 DEF ThreadInv, Written
<1>6. Told(t)'
  BY <1>2, <1>3 DEF ThreadInv, Told, Partial, Done
<1>7. Accepted(t)'
  BY <1>2, <1>3 DEF ThreadInv, Going, Accepted
<1>8. tx' \in [Threads -> TxType]
  <2>1. [tx[t] EXCEPT !.pc = p] \in TxType
    BY <1>1 DEF TxType, Pcs
  <2>2. tx \in [Threads -> TxType] /\ tx' = [tx EXCEPT ![t] = [tx[t] EXCEPT !.pc = p]]
    BY DEF TypeOK, TxType
  <2> QED
    BY <2>1, <2>2
<1> QED
  BY <1>4, <1>5, <1>6, <1>7, <1>8 DEF ThreadInv

-----------------------------------------------------------------------------
(* The types of what the steps write.                                      *)
LEMMA FinishTyped ==
  ASSUME TypeOK, NEW t \in Threads, NEW reply \in Replies, NEW results \in Seq(Verdicts),
         Finish(t, reply, results)
  PROVE  tx' \in [Threads -> TxType] /\ held' \in [Threads -> SUBSET Locks]
<1> DEFINE b == Begin(IF reply = "accepted" THEN tx[t].req ELSE None, "idle", reply, results)
<1>2. b \in TxType
  BY DEF TypeOK, TxType, Begin, Pcs
<1>3. tx' = [tx EXCEPT ![t] = b] /\ held' = [held EXCEPT ![t] = {}]
  BY DEF Finish
<1> QED
  BY <1>2, <1>3 DEF TypeOK, TxType

LEMMA AdvanceTyped ==
  ASSUME TypeOK, NEW t \in Threads, NEW verdict \in Verdicts, NEW wrote \in SUBSET Nat,
         Advance(t, verdict, wrote)
  PROVE  tx' \in [Threads -> TxType]
<1> DEFINE b == [tx[t] EXCEPT !.results = Append(@, verdict), !.at = @ + 1,
                              !.wrote = IF Partial(t) THEN {} ELSE wrote,
                              !.pc = IF tx[t].at = Len(tx[t].req.items) THEN "complete" ELSE "look"]
<1>1. /\ tx[t] \in TxType /\ tx[t].at + 1 \in Nat \ {0}
      /\ Append(tx[t].results, verdict) \in Seq(Verdicts)
  BY DEF TypeOK, TxType
<1>2. b \in TxType
  BY <1>1 DEF TxType, Pcs
<1>3. tx' = [tx EXCEPT ![t] = b]
  BY DEF Advance, TypeOK
<1> QED
  BY <1>2, <1>3 DEF TypeOK, TxType

(* Locks a thread takes because they are free stay its own.                *)
LEMMA LocksStayExclusive ==
  ASSUME TypeOK, Exclusive, NEW t \in Threads, NEW L, \A l \in L : Free(t, l),
         NEW X \in SUBSET (held[t] \cup L), held' = [held EXCEPT ![t] = X]
  PROVE  Exclusive'
<1> SUFFICES ASSUME NEW u \in Threads, NEW v \in Threads, u # v, NEW l,
                    l \in held'[u], l \in held'[v]
             PROVE  FALSE
  BY DEF Exclusive
<1>1. \A a \in Threads : held'[a] = IF a = t THEN X ELSE held[a]
  BY DEF TypeOK
<1> QED
  BY <1>1 DEF Exclusive, Free

-----------------------------------------------------------------------------
(* A step of one thread that leaves the tables as they are.                *)
LEMMA QuietKeeps ==
  ASSUME Inv, NEW t \in Threads, Stay,
         \A u \in Threads \ {t} : tx'[u] = tx[u] /\ held'[u] = held[u],
         ThreadInv(t)', Exclusive',
         tx' \in [Threads -> TxType], held' \in [Threads -> SUBSET Locks]
  PROVE  Inv'
<1>1. UNCHANGED << version, subs, batches, announced, writes, others >>
  BY DEF Stay, tables
<1>2. TypeOK'
  BY <1>1 DEF Inv, TypeOK, TxType
<1>3. NothingTwice' /\ AllOrNothing' /\ \A o \in Objects : IsFiniteSet(Writers(o)')
  BY <1>1 DEF Inv, NothingTwice, AllOrNothing, Writers
<1>4. Logged'
  BY <1>1 DEF Inv, Logged, AllDone, True, Honest, Done
<1>5. ASSUME NEW u \in Threads \ {t}
      PROVE  ThreadInv(u)'
  BY <1>1, OthersKeep DEF Inv, RowsStay
<1> QED
  BY <1>2, <1>3, <1>4, <1>5 DEF Inv

(* A step of one thread that commits rows whose keys nobody else writes.   *)
LEMMA CommitKeeps ==
  ASSUME Inv, NEW t \in Threads, NEW S, Fresh(t, S), Committed(t, S), UNCHANGED others,
         \A u \in Threads \ {t} : tx'[u] = tx[u] /\ held'[u] = held[u],
         \A i \in S, u \in Threads \ {t} : KeyLock(<< tx[t].req.key, i >>) \notin held[u],
         NEW r \in Requests, r = tx[t].req, AllDone(r)',
         ThreadInv(t)', held' = [held EXCEPT ![t] = {}],
         tx' \in [Threads -> TxType],
         batches' \in [Keys -> Requests \cup {None}],
         announced' \in [Keys -> Outcome \cup {None}], Logged'
  PROVE  Inv'
<1>1. /\ TypeOK /\ NothingTwice /\ AllOrNothing /\ Exclusive
      /\ \A o \in Objects : IsFiniteSet(Writers(o)) /\ \A u \in Threads : ThreadInv(u)
  BY DEF Inv
<1>2. /\ NothingTwice' /\ \A o \in Objects : IsFiniteSet(Writers(o)')
      /\ version' \in [Objects -> Nat] /\ writes' \in [SubKeys -> Nat]
  BY <1>1, CommitCounts
<1>3. /\ \A i \in S : subs'[<< r.key, i >>] = Row(r, i)
      /\ \A k \in SubKeys : subs'[k] = subs[k] \/ \E i \in S : k = << r.key, i >>
      /\ RowsStay
      /\ subs' \in [SubKeys -> [item : Items, by : Requests] \cup {None}]
  BY <1>1, CommitAdds
<1>4. held' \in [Threads -> SUBSET Locks] /\ Exclusive'
  BY <1>1, LocksStayExclusive, {} \in SUBSET (held[t] \cup {}) DEF TypeOK
<1>5. TypeOK'
  BY <1>1, <1>2, <1>3, <1>4 DEF TypeOK, TxType
<1>6. AllOrNothing'
  <2> SUFFICES ASSUME NEW q \in Requests, q.mode = "all_or_nothing", NEW i \in DOMAIN q.items,
                      subs'[<< q.key, i >>] # None, subs'[<< q.key, i >>].by = q
               PROVE  AllDone(q)'
    BY DEF AllOrNothing, AllDone, Done
  <2>1. << q.key, i >> \in SubKeys
    BY RequestFacts
  <2>2. CASE subs'[<< q.key, i >>] = subs[<< q.key, i >>]
    <3>1. AllDone(q)
      BY <1>1, <2>2 DEF AllOrNothing, AllDone, Done
    <3> QED
      BY <3>1, <1>3, DoneStays
  <2>3. CASE \E j \in S : << q.key, i >> = << r.key, j >>
    <3>1. PICK j \in S : << q.key, i >> = << r.key, j >>
      BY <2>3
    <3>2. subs'[<< q.key, i >>].by = r
      <4>1. subs'[<< q.key, i >>] = Row(r, j)
        BY <3>1, <1>3
      <4> QED
        BY <4>1 DEF Row
    <3> QED
      BY <3>2
  <2> QED
    BY <2>1, <2>2, <2>3, <1>3
<1>7. ASSUME NEW u \in Threads \ {t}
      PROVE  ThreadInv(u)'
  <2>1. u \in Threads /\ ThreadInv(u) /\ tx'[u] = tx[u] /\ held'[u] = held[u]
    BY DEF Inv
  <2>2. ASSUME NEW i \in tx[u].wrote
        PROVE  subs'[<< tx[u].req.key, i >>] = subs[<< tx[u].req.key, i >>]
    <3> DEFINE k == << tx[u].req.key, i >>
    <3>2. tx[u].pc # "idle" /\ KeyLock(k) \in held[u]
      BY <2>1 DEF ThreadInv, Written
    <3>3. /\ tx[u].req \in Requests /\ i \in 1 .. tx[u].at - 1
          /\ tx[u].at \in 1 .. Len(tx[u].req.items) + 1
      BY <2>1, <3>2 DEF ThreadInv, Going
    <3>4. k \in SubKeys
      BY <3>3, RequestFacts
    <3>5. \A j \in S : k # << r.key, j >>
      BY <3>2
    <3> QED
      BY <3>4, <3>5, <1>3
  <2> QED
    BY <2>1, <2>2, <1>3, OthersKeep
<1> QED
  BY <1>2, <1>4, <1>5, <1>6, <1>7 DEF Inv
-----------------------------------------------------------------------------
(* The steps.                                                              *)

(* A thread whose call ends without an answer.                             *)
LEMMA EndKeeps ==
  ASSUME Inv, NEW t \in Threads, NEW reply \in Replies \ {"accepted"},
         Finish(t, reply, << >>), Stay
  PROVE  Inv'
<1>1. TypeOK /\ Exclusive /\ << >> \in Seq(Verdicts)
  BY DEF Inv
<1>2. ThreadInv(t)'
  BY <1>1, EndedKeeps
<1>3. tx' \in [Threads -> TxType] /\ held' \in [Threads -> SUBSET Locks]
  BY <1>1, FinishTyped
<1>4. Exclusive'
  BY <1>1, LocksStayExclusive, {} \in SUBSET (held[t] \cup {}) DEF Finish
<1>5. \A u \in Threads \ {t} : tx'[u] = tx[u] /\ held'[u] = held[u]
  BY <1>1 DEF Finish, TypeOK
<1> QED
  BY <1>2, <1>3, <1>4, <1>5, QuietKeeps

(* A batch whose current sub-command is refused, or was done before.       *)
LEMMA GoOnKeeps ==
  ASSUME Inv, NEW t \in Threads, Stay, tx[t].pc \in {"look", "lock"},
         NEW verdict \in Verdicts, NEW wrote \in {{}, tx[t].wrote}, Advance(t, verdict, wrote),
         \/ verdict = "REJECTED" /\ Partial(t)
         \/ verdict = "COMMITTED" /\ wrote = tx[t].wrote /\ Done(tx[t].req, tx[t].at),
         \/ Partial(t) /\ held' = [held EXCEPT ![t] = {}]
         \/ UNCHANGED held
  PROVE  Inv'
<1> DEFINE r == tx[t].req
           n == tx[t].at
<1>1. TypeOK /\ Exclusive /\ ThreadInv(t) /\ UNCHANGED subs
  BY DEF Inv, Stay, tables
<1>2. /\ r \in Requests /\ n \in Nat /\ tx[t].wrote \subseteq 1 .. n - 1
      /\ Partial(t) => tx[t].wrote = {}
  BY <1>1 DEF ThreadInv, Going, TypeOK
<1>3. tx[t].wrote \in SUBSET (1 .. n) /\ tx[t].wrote \subseteq wrote /\ wrote \in SUBSET (1 .. n)
  <2>1. CASE Partial(t)
    BY <2>1, <1>2
  <2>2. CASE ~Partial(t)
    BY <2>2, <1>2
  <2> QED
    BY <2>1, <2>2
<1>4. RowsStay
  BY <1>1 DEF RowsStay
<1>5. ThreadInv(t)'
  <2> SUFFICES ASSUME NEW a \in Requests, a = r, NEW b \in Nat, b = n
               PROVE  ThreadInv(t)'
    BY <1>2
  <2>1. verdict = "COMMITTED" => Done(a, b)'
    BY <1>1 DEF Done
  <2>2. ~Partial(t) => \A i \in wrote : /\ subs'[<< a.key, i >>] = None
                                       /\ KeyLock(<< a.key, i >>) \in held'[t]
    BY <1>1 DEF ThreadInv, Written
  <2> QED
    BY <2>1, <2>2, <1>1, <1>3, <1>4, AdvanceKeeps
<1>6. tx' \in [Threads -> TxType]
  BY <1>1, <1>2, <1>3, AdvanceTyped
<1>7. held' \in [Threads -> SUBSET Locks] /\ Exclusive'
  <2>1. CASE UNCHANGED held
    BY <2>1, <1>1 DEF Exclusive, TypeOK
  <2>2. CASE held' = [held EXCEPT ![t] = {}]
    BY <2>2, <1>1, LocksStayExclusive, {} \in SUBSET (held[t] \cup {}) DEF TypeOK
  <2> QED
    BY <2>1, <2>2
<1>8. \A u \in Threads \ {t} : tx'[u] = tx[u] /\ held'[u] = held[u]
  BY <1>1 DEF Advance, TypeOK
<1> QED
  BY <1>5, <1>6, <1>7, <1>8, QuietKeeps

LEMMA RejectKeeps ==
  ASSUME Inv, NEW t \in Threads, tx[t].pc \in {"look", "lock"}, Reject(t), Stay
  PROVE  Inv'
<1>1. CASE Partial(t)
  <2>1. "REJECTED" \in Verdicts
    BY DEF Verdicts
  <2> QED
    BY <1>1, <2>1, GoOnKeeps DEF Reject
<1>2. CASE ~Partial(t)
  BY <1>2, EndKeeps DEF Reject, Replies
<1> QED
  BY <1>1, <1>2

LEMMA StartKeeps ==
  ASSUME Inv, NEW t \in Threads, NEW r \in Requests, Start(t, r)
  PROVE  Inv'
<1> DEFINE b == Begin(r, "look", "none", << >>)
<1>1. TypeOK /\ Exclusive
  BY DEF Inv
<1>2. tx'[t] = b /\ b \in TxType
  BY <1>1 DEF Start, TypeOK, TxType, Begin, Pcs, Replies
<1>3. Len(r.items) \in Nat \ {0}
  BY RequestFacts
<1>4. /\ tx'[t].req = r /\ tx'[t].pc = "look" /\ tx'[t].at = 1 /\ tx'[t].wrote = {}
      /\ tx'[t].results = << >> /\ tx'[t].reply = "none"
  BY <1>2 DEF Begin
<1>5. ThreadInv(t)'
  BY <1>3, <1>4 DEF ThreadInv, Going, Written, Told, Accepted
<1>6. /\ tx' \in [Threads -> TxType] /\ held' \in [Threads -> SUBSET Locks] /\ Exclusive'
      /\ \A u \in Threads \ {t} : tx'[u] = tx[u] /\ held'[u] = held[u]
  BY <1>1, <1>2 DEF Start, TypeOK, TxType, Exclusive
<1>7. Stay
  BY DEF Start
<1> QED
  BY <1>5, <1>6, <1>7, QuietKeeps

LEMMA ReplayKeeps ==
  ASSUME Inv, NEW t \in Threads, NEW r \in Requests, Replay(t, r)
  PROVE  Inv'
<1>1. TypeOK /\ Exclusive /\ Logged /\ UNCHANGED << subs, held >> /\ Stay
  BY DEF Inv, Replay, Stay, tables
<1>2. /\ tx'[t] \in TxType /\ tx' = [tx EXCEPT ![t] = tx'[t]]
      /\ tx'[t].pc = "idle" /\ tx'[t].wrote = {}
  <2>1. PICK x \in Requests \cup {None}, y \in Replies :
               tx' = [tx EXCEPT ![t] = Begin(x, "idle", y, << >>)]
    BY DEF Replay, Replies
  <2>2. Begin(x, "idle", y, << >>) \in TxType
    BY DEF Begin, TxType, Pcs
  <2>3. tx'[t] = Begin(x, "idle", y, << >>)
    BY <2>1, <1>1 DEF TypeOK
  <2>4. tx'[t].pc = "idle" /\ tx'[t].wrote = {}
    BY <2>3 DEF Begin
  <2> QED
    BY <2>1, <2>2, <2>3, <2>4
<1>3. Accepted(t)'
  <2>1. CASE batches[r.key] = r /\ tx' = [tx EXCEPT ![t] = Begin(r, "idle", "accepted", << >>)]
    <3>1. r.key \in Keys /\ r # None
      BY RequestFacts
    <3>2. AllDone(r)
      BY <2>1, <3>1, <1>1 DEF Logged
    <3>3. tx'[t].req = r /\ tx'[t].results = << >>
      BY <2>1, <1>1 DEF TypeOK, Begin
    <3>4. AllDone(r)'
      BY <3>2, <1>1 DEF AllDone, Done
    <3> QED
      BY <3>3, <3>4 DEF Accepted, True, Honest
  <2>2. CASE tx' = [tx EXCEPT ![t] = Begin(None, "idle", "refused", << >>)]
    <3>1. tx'[t].reply = "refused"
      BY <2>2, <1>1 DEF TypeOK, Begin
    <3> QED
      BY <3>1 DEF Accepted
  <2> QED
    BY <2>1, <2>2 DEF Replay
<1>4. ThreadInv(t)'
  BY <1>2, <1>3 DEF ThreadInv, Going, Written, Told
<1>5. /\ tx' \in [Threads -> TxType] /\ held' \in [Threads -> SUBSET Locks] /\ Exclusive'
      /\ \A u \in Threads \ {t} : tx'[u] = tx[u] /\ held'[u] = held[u]
  BY <1>1, <1>2 DEF TypeOK, TxType, Exclusive
<1> QED
  BY <1>1, <1>4, <1>5, QuietKeeps
LEMMA LookKeeps ==
  ASSUME Inv, NEW t \in Threads, Look(t)
  PROVE  Inv'
<1>1. tx[t].pc = "look" /\ Stay /\ TypeOK /\ Exclusive /\ ThreadInv(t)
  BY DEF Look, Inv
<1>2. CASE SameItem(t) /\ Advance(t, "COMMITTED", tx[t].wrote) /\ UNCHANGED held
  <2>1. Done(tx[t].req, tx[t].at)
    BY <1>2 DEF SameItem, SubKey, Item, Done
  <2>2. "COMMITTED" \in Verdicts
    BY DEF Verdicts
  <2> QED
    BY <1>1, <1>2, <2>1, <2>2, GoOnKeeps
<1>3. CASE Reject(t)
  BY <1>1, <1>3, RejectKeeps
<1>4. CASE tx' = [tx EXCEPT ![t].pc = "lock"] /\ UNCHANGED held
  <2>1. ThreadInv(t)' /\ tx' \in [Threads -> TxType]
    BY <1>1, <1>4, PcKeeps DEF Stay, tables
  <2>2. held' \in [Threads -> SUBSET Locks] /\ Exclusive'
    BY <1>1, <1>4 DEF TypeOK, Exclusive
  <2>3. \A u \in Threads \ {t} : tx'[u] = tx[u] /\ held'[u] = held[u]
    BY <1>1, <1>4 DEF TypeOK
  <2> QED
    BY <1>1, <2>1, <2>2, <2>3, QuietKeeps
<1> QED
  BY <1>2, <1>3, <1>4 DEF Look

LEMMA LockKeeps ==
  ASSUME Inv, NEW t \in Threads, Lock(t)
  PROVE  Inv'
<1>1. /\ tx[t].pc = "lock" /\ Stay /\ TypeOK /\ Exclusive /\ ThreadInv(t)
      /\ tx' = [tx EXCEPT ![t].pc = "insert"]
      /\ held' = [held EXCEPT ![t] = @ \cup ItemLock(t)]
      /\ \A l \in ItemLock(t) : Free(t, l)
  BY DEF Lock, Inv
<1>2. tx[t].req \in Requests /\ tx[t].at \in DOMAIN tx[t].req.items
  BY <1>1, RequestFacts DEF ThreadInv, Going
<1>3. ItemLock(t) \subseteq Locks
  <2>1. Item(t) \in Items
    BY <1>2, RequestFacts DEF Item
  <2> QED
    BY <2>1 DEF Items, ItemLock, Creates, Locks
<1>4. held[t] \in SUBSET Locks /\ held' = [held EXCEPT ![t] = held[t] \cup ItemLock(t)]
  BY <1>1 DEF TypeOK
<1>5. ThreadInv(t)' /\ tx' \in [Threads -> TxType]
  <2>1. held[t] \subseteq held'[t]
    BY <1>1, <1>4 DEF TypeOK
  <2> QED
    BY <1>1, <2>1, PcKeeps DEF Stay, tables
<1>6. held' \in [Threads -> SUBSET Locks] /\ Exclusive'
  <2>1. held[t] \cup ItemLock(t) \in SUBSET (held[t] \cup ItemLock(t))
    OBVIOUS
  <2>2. Exclusive'
    BY <1>1, <1>4, <2>1, LocksStayExclusive
  <2> QED
    BY <1>1, <1>3, <1>4, <2>2 DEF TypeOK
<1>7. \A u \in Threads \ {t} : tx'[u] = tx[u] /\ held'[u] = held[u]
  BY <1>1, <1>4 DEF TypeOK
<1> QED
  BY <1>1, <1>5, <1>6, <1>7, QuietKeeps

LEMMA InsertKeeps ==
  ASSUME Inv, NEW t \in Threads, Insert(t)
  PROVE  Inv'
<1> DEFINE r == tx[t].req
           n == tx[t].at
           l == KeyLock(SubKey(t))
<1>1. /\ TypeOK /\ Exclusive /\ Logged /\ ThreadInv(t) /\ tx[t].pc = "insert"
      /\ Free(t, l) /\ subs[SubKey(t)] = None
      /\ Advance(t, "COMMITTED", tx[t].wrote \cup {n})
      /\ UNCHANGED << batches, announced, others >>
  BY DEF Insert, InsertKey, Inv
<1>2. /\ r \in Requests /\ n \in DOMAIN r.items /\ n \in Nat
      /\ tx[t].wrote \subseteq 1 .. n - 1
      /\ Partial(t) => tx[t].wrote = {}
  BY <1>1, RequestFacts DEF ThreadInv, Going
<1>3. /\ SubKey(t) = << r.key, n >> /\ SubKey(t) \in SubKeys /\ l \in Locks
      /\ n \in 1 .. n /\ "COMMITTED" \in Verdicts
  BY <1>2, RequestFacts DEF SubKey, Locks, Verdicts, KeyLock
<1>4. tx[t].wrote \cup {n} \in SUBSET (1 .. n) /\ tx[t].wrote \cup {n} \in SUBSET Nat
  <2>1. 1 .. n - 1 \subseteq 1 .. n /\ 1 .. n \subseteq Nat
    BY <1>2
  <2> QED
    BY <1>2, <1>3, <2>1
<1>5. tx' \in [Threads -> TxType]
  BY <1>1, <1>3, <1>4, AdvanceTyped
<1>6. \A u \in Threads \ {t} : tx'[u] = tx[u]
  BY <1>1 DEF Advance, TypeOK
<1>7. CASE Partial(t)
  <2>1. Committed(t, {n}) /\ held' = [held EXCEPT ![t] = {}]
    BY <1>7 DEF Insert
  <2>2. Fresh(t, {n})
    BY <1>1, <1>2, <1>3 DEF Fresh
  <2>3. RowsStay /\ subs'[<< r.key, n >>] = Row(r, n) /\ Row(r, n) # None
    BY <1>1, <2>1, <2>2, CommitAdds
  <2>4. ThreadInv(t)' /\ AllDone(r)'
    <3> SUFFICES ASSUME NEW a \in Requests, a = r, NEW b \in Nat, b = n
                 PROVE  ThreadInv(t)' /\ a.mode # "all_or_nothing"
      <4>1. r' = r
        BY <1>1 DEF Advance, TypeOK
      <4> QED
        BY <4>1, <1>2 DEF AllDone
    <3>1. Done(a, b)'
      BY <2>3 DEF Done, Row
    <3>2. a.mode # "all_or_nothing"
      BY <1>7 DEF Partial
    <3>3. tx[t].wrote \subseteq tx[t].wrote \cup {n}
      OBVIOUS
    <3>4. ThreadInv(t)'
      BY <1>1, <1>3, <1>4, <1>7, <2>3, <3>1, <3>3, AdvanceKeeps
    <3> QED
      BY <3>2, <3>4
  <2>5. Logged'
    BY <1>1, <2>3, DoneStays, TrueStays DEF Logged, TypeOK
  <2>6. \A u \in Threads \ {t} : held'[u] = held[u]
    BY <1>1, <2>1 DEF TypeOK
  <2>7. \A i \in {n}, u \in Threads \ {t} : KeyLock(<< r.key, i >>) \notin held[u]
    BY <1>1, <1>3 DEF Free
  <2>8. batches' \in [Keys -> Requests \cup {None}] /\ announced' \in [Keys -> Outcome \cup {None}]
    BY <1>1 DEF TypeOK
  <2> SUFFICES ASSUME NEW a \in Requests, a = r, NEW S, S = {n}
               PROVE  Inv'
    BY <1>2
  <2>9. AllDone(a)'
    BY <1>7 DEF AllDone, Partial
  <2>10. /\ \A u \in Threads \ {t} : tx'[u] = tx[u] /\ held'[u] = held[u]
         /\ \A i \in S, u \in Threads \ {t} : KeyLock(<< tx[t].req.key, i >>) \notin held[u]
         /\ ThreadInv(t)' /\ UNCHANGED others /\ a = tx[t].req
         /\ Fresh(t, S) /\ Committed(t, S)
    BY <1>1, <1>6, <2>1, <2>2, <2>4, <2>6, <2>7
  <2> QED
    BY <1>5, <2>1, <2>5, <2>8, <2>9, <2>10, CommitKeeps
<1>8. CASE ~Partial(t)
  <2>1. held' = [held EXCEPT ![t] = held[t] \cup {l}] /\ Stay /\ UNCHANGED subs
    BY <1>1, <1>8 DEF Insert, Stay, tables, TypeOK
  <2>2. held[t] \cup {l} \in SUBSET (held[t] \cup {l}) /\ \A x \in {l} : Free(t, x)
    BY <1>1
  <2>3. Exclusive'
    BY <1>1, <2>1, <2>2, LocksStayExclusive
  <2>4. held' \in [Threads -> SUBSET Locks] /\ held'[t] = held[t] \cup {l}
        /\ \A u \in Threads \ {t} : held'[u] = held[u]
    BY <1>1, <1>3, <2>1 DEF TypeOK
  <2>5. ThreadInv(t)'
    <3> SUFFICES ASSUME NEW a \in Requests, a = r, NEW b \in Nat, b = n
                 PROVE  ThreadInv(t)'
      BY <1>2
    <3>1. \A i \in tx[t].wrote \cup {b} : /\ subs'[<< a.key, i >>] = None
                                         /\ KeyLock(<< a.key, i >>) \in held'[t]
      BY <1>1, <1>3, <2>1, <2>4 DEF ThreadInv, Written
    <3>2. RowsStay
      BY <2>1 DEF RowsStay
    <3>3. b \in tx[t].wrote \cup {b} /\ tx[t].wrote \subseteq tx[t].wrote \cup {b}
      OBVIOUS
    <3> QED
      BY <1>1, <1>3, <1>4, <1>8, <3>1, <3>2, <3>3, AdvanceKeeps
  <2> QED
    BY <1>5, <1>6, <2>1, <2>3, <2>4, <2>5, QuietKeeps
<1> QED
  BY <1>7, <1>8
LEMMA CompleteKeeps ==
  ASSUME Inv, NEW t \in Threads, Complete(t)
  PROVE  Inv'
<1> DEFINE S == tx[t].wrote
<1>1. /\ TypeOK /\ Exclusive /\ Logged /\ ThreadInv(t) /\ tx[t].pc = "complete"
      /\ Committed(t, S) /\ Finish(t, "accepted", tx[t].results) /\ UNCHANGED others
      /\ tx[t].results \in Seq(Verdicts)
  BY DEF Complete, Inv, TypeOK
<1> SUFFICES ASSUME NEW r \in Requests, r = tx[t].req, NEW results \in Seq(Verdicts),
                    results = tx[t].results
             PROVE  Inv'
  BY <1>1 DEF ThreadInv, Going
<1>2. /\ Len(r.items) \in Nat \ {0} /\ DOMAIN r.items = 1 .. Len(r.items)
      /\ tx[t].at = Len(r.items) + 1 /\ Len(results) = Len(r.items)
      /\ S \subseteq DOMAIN r.items
      /\ r.key \in Keys
  BY <1>1, RequestFacts DEF ThreadInv, Going
<1>3. Fresh(t, S)
  BY <1>1, <1>2 DEF Fresh, ThreadInv, Written
<1>4. /\ \A i \in S : subs'[<< r.key, i >>] = Row(r, i) /\ Row(r, i) # None
      /\ RowsStay
  BY <1>1, <1>3, CommitAdds
<1>5. ASSUME NEW i \in DOMAIN r.items
      PROVE  /\ r.mode = "all_or_nothing" => results[i] = "COMMITTED"
             /\ results[i] = "COMMITTED" => Done(r, i)'
  <2>1. i \in 1 .. tx[t].at - 1
    BY <1>2
  <2>2. /\ ~Partial(t) => results[i] = "COMMITTED"
        /\ results[i] = "COMMITTED" => i \in S \/ Done(r, i)
    BY <1>1, <2>1 DEF ThreadInv, Told
  <2>3. i \in S => Done(r, i)'
    <3>1. i \in S => subs'[<< r.key, i >>] # None /\ subs'[<< r.key, i >>] = Row(r, i)
      BY <1>4
    <3>2. Row(r, i).item = r.items[i]
      BY DEF Row
    <3> QED
      BY <3>1, <3>2 DEF Done
  <2>4. Done(r, i) => Done(r, i)'
    BY <1>4, DoneStays
  <2>5. r.mode = "all_or_nothing" => ~Partial(t)
    BY DEF Partial
  <2> QED
    BY <2>2, <2>3, <2>4, <2>5
<1>6. AllDone(r)'
  <2> SUFFICES ASSUME r.mode = "all_or_nothing", NEW i \in DOMAIN r.items
               PROVE  Done(r, i)'
    BY DEF AllDone
  <2> QED
    BY <1>5
<1> DEFINE o == [req |-> r, results |-> results]
<1>7. DOMAIN results = DOMAIN r.items /\ o \in Outcome
  BY <1>2 DEF Outcome
<1>8. True(o)'
  BY <1>5, <1>7 DEF True, Honest
<1>9. /\ tx'[t].pc = "idle" /\ tx'[t].wrote = {} /\ tx'[t].req = r
      /\ tx'[t].results = results
  BY <1>1 DEF Finish, Begin, TypeOK
<1>10. ThreadInv(t)'
  BY <1>6, <1>8, <1>9 DEF ThreadInv, Going, Written, Told, Accepted
<1>11. /\ batches' = [batches EXCEPT ![r.key] = IF batches[r.key] = None THEN r ELSE batches[r.key]]
       /\ announced' = [announced EXCEPT ![r.key] = o]
  BY <1>1, <1>2 DEF Complete, TypeOK
<1>12. /\ batches' \in [Keys -> Requests \cup {None}]
       /\ announced' \in [Keys -> Outcome \cup {None}]
  BY <1>1, <1>7, <1>11 DEF TypeOK
<1>13. Logged'
  <2> SUFFICES ASSUME NEW k \in Keys
               PROVE  /\ \A q \in Requests : batches'[k] = q => AllDone(q)'
                      /\ \A p \in Outcome : announced'[k] = p => True(p)'
    BY DEF Logged
  <2>1. batches'[k] \in {r, batches[k]} /\ announced'[k] \in {o, announced[k]}
    BY <1>1, <1>11 DEF TypeOK
  <2>2. \A q \in Requests : batches[k] = q => AllDone(q)'
    BY <1>1, <1>4, DoneStays DEF Logged
  <2>3. \A p \in Outcome : announced[k] = p => True(p)'
    BY <1>1, <1>4, TrueStays DEF Logged
  <2> QED
    BY <1>6, <1>8, <2>1, <2>2, <2>3
<1>14. \A i \in S, u \in Threads \ {t} : KeyLock(<< tx[t].req.key, i >>) \notin held[u]
  BY <1>1 DEF ThreadInv, Written, Exclusive
<1>15. tx' \in [Threads -> TxType] /\ held' = [held EXCEPT ![t] = {}]
  <2>1. "accepted" \in Replies
    BY DEF Replies
  <2> QED
    BY <1>1, <2>1, FinishTyped DEF Finish
<1>16. \A u \in Threads \ {t} : tx'[u] = tx[u] /\ held'[u] = held[u]
  BY <1>1 DEF Finish, TypeOK
<1> QED
  BY <1>1, <1>3, <1>6, <1>10, <1>12, <1>13, <1>14, <1>15, <1>16, CommitKeeps

LEMMA OtherWriteKeeps ==
  ASSUME Inv, NEW o \in Objects, OtherWrite(o)
  PROVE  Inv'
<1>1. /\ TypeOK /\ NothingTwice /\ o \notin others
      /\ others' = others \cup {o} /\ version' = [version EXCEPT ![o] = version[o] + 1]
      /\ UNCHANGED << subs, batches, announced, writes, tx, held >>
  BY DEF Inv, OtherWrite
<1>2. ASSUME NEW p \in Objects
      PROVE  version'[p] = 1 + Cardinality(others' \cap {p}) + Cardinality(Writers(p)')
  <2>1. /\ Writers(p)' = Writers(p)
        /\ version[p] = 1 + Cardinality(others \cap {p}) + Cardinality(Writers(p))
    BY <1>1 DEF Writers, NothingTwice
  <2>2. CASE p = o
    <3>1. others \cap {o} = {} /\ others' \cap {o} = {o} /\ version'[o] = version[o] + 1
      BY <1>1 DEF TypeOK
    <3>2. Cardinality({}) = 0 /\ Cardinality({o}) = 1
      BY FS_EmptySet, FS_Singleton
    <3>3. Cardinality(Writers(o)) \in Nat
      BY FS_CardinalityType DEF Inv
    <3> QED
      BY <2>1, <2>2, <3>1, <3>2, <3>3
  <2>3. CASE p # o
    <3>1. others' \cap {p} = others \cap {p} /\ version'[p] = version[p]
      BY <1>1, <2>3 DEF TypeOK
    <3> QED
      BY <2>1, <3>1
  <2> QED
    BY <2>2, <2>3
<1>3. NothingTwice'
  BY <1>1, <1>2 DEF NothingTwice, Writers
<1>4. TypeOK'
  BY <1>1 DEF TypeOK
<1>5. \A p \in Objects : IsFiniteSet(Writers(p)')
  BY <1>1 DEF Inv, Writers
<1>6. AllOrNothing' /\ Exclusive'
  BY <1>1 DEF Inv, AllOrNothing, Exclusive
<1>7. Logged'
  BY <1>1 DEF Inv, Logged, AllDone, True, Honest, Done
<1>8. ASSUME NEW t \in Threads
      PROVE  ThreadInv(t)'
  BY <1>1, OthersKeep DEF Inv, RowsStay
<1> QED
  BY <1>3, <1>4, <1>5, <1>6, <1>7, <1>8 DEF Inv

-----------------------------------------------------------------------------
LEMMA InitInv == Init => Inv
<1> SUFFICES ASSUME Init
             PROVE  Inv
  OBVIOUS
<1>1. TypeOK
  BY DEF Init, TypeOK, Begin, Pcs, Replies
<1>2. ASSUME NEW o \in Objects
      PROVE  /\ IsFiniteSet(Writers(o))
             /\ version[o] = 1 + Cardinality(others \cap {o}) + Cardinality(Writers(o))
  <2>1. Writers(o) = {} /\ others \cap {o} = {} /\ version[o] = 1
    BY DEF Init, Writers
  <2> QED
    BY <2>1, FS_EmptySet
<1>3. NothingTwice
  BY <1>2 DEF Init, NothingTwice, Writers
<1>4. AllOrNothing
  <2> SUFFICES ASSUME NEW r \in Requests, NEW i \in DOMAIN r.items
               PROVE  subs[<< r.key, i >>] = None
    BY DEF AllOrNothing
  <2> QED
    BY RequestFacts DEF Init
<1>5. Exclusive
  BY DEF Init, Exclusive
<1>6. Logged
  <2> SUFFICES ASSUME NEW k \in Keys
               PROVE  /\ \A r \in Requests : batches[k] # r
                      /\ \A o \in Outcome : announced[k] # o
    BY DEF Logged
  <2>1. batches[k] = None /\ announced[k] = None
    BY DEF Init
  <2>2. \A o \in Outcome : None # o
    BY BatchesAssumption DEF Outcome
  <2> QED
    BY <2>1, <2>2, RequestFacts
<1>7. ASSUME NEW t \in Threads
      PROVE  ThreadInv(t)
  <2>1. tx[t].pc = "idle" /\ tx[t].wrote = {} /\ tx[t].reply = "none"
    BY DEF Init, Begin
  <2> QED
    BY <2>1 DEF ThreadInv, Going, Written, Told, Accepted
<1> QED
  BY <1>1, <1>2, <1>3, <1>4, <1>5, <1>6, <1>7 DEF Inv

LEMMA NextInv == Inv /\ [Next]_vars => Inv'
<1> SUFFICES ASSUME Inv, [Next]_vars
             PROVE  Inv'
  OBVIOUS
<1>1. ASSUME NEW t \in Threads, NEW r \in Requests, Start(t, r)
      PROVE  Inv'
  BY <1>1, StartKeeps
<1>2. ASSUME NEW t \in Threads, NEW r \in Requests, Replay(t, r)
      PROVE  Inv'
  BY <1>2, ReplayKeeps
<1>3. ASSUME NEW t \in Threads, Fail(t)
      PROVE  Inv'
  <2>1. "failed" \in Replies \ {"accepted"}
    BY DEF Replies
  <2> QED
    BY <1>3, <2>1, EndKeeps DEF Fail
<1>4. ASSUME NEW t \in Threads, Run(t)
      PROVE  Inv'
  <2>1. CASE Look(t)
    BY <2>1, LookKeeps
  <2>2. CASE Lock(t)
    BY <2>2, LockKeeps
  <2>3. CASE RejectItem(t)
    BY <2>3, RejectKeeps DEF RejectItem
  <2>4. CASE Insert(t)
    BY <2>4, InsertKeeps
  <2>5. CASE Complete(t)
    BY <2>5, CompleteKeeps
  <2>6. CASE DuplicateKey(t) \/ DeadlockVictim(t)
    BY <2>6, <1>3 DEF DuplicateKey, DeadlockVictim
  <2> QED
    BY <1>4, <2>1, <2>2, <2>3, <2>4, <2>5, <2>6 DEF Run
<1>5. ASSUME NEW o \in Objects, OtherWrite(o)
      PROVE  Inv'
  BY <1>5, OtherWriteKeeps
<1>6. CASE UNCHANGED vars
  <2>1. UNCHANGED << version, subs, batches, announced, writes, others, tx, held >>
    BY <1>6 DEF vars, tables
  <2>2. TypeOK' /\ AllOrNothing' /\ Exclusive'
    BY <2>1 DEF Inv, TypeOK, AllOrNothing, Exclusive
  <2>5. NothingTwice' /\ \A o \in Objects : IsFiniteSet(Writers(o)')
    BY <2>1 DEF Inv, NothingTwice, Writers
  <2>3. Logged'
    BY <2>1 DEF Inv, Logged, AllDone, True, Honest, Done
  <2>4. ASSUME NEW t \in Threads
        PROVE  ThreadInv(t)'
    BY <2>1, OthersKeep DEF Inv, RowsStay
  <2> QED
    BY <2>2, <2>3, <2>4, <2>5 DEF Inv
<1> QED
  BY <1>1, <1>2, <1>3, <1>4, <1>5, <1>6 DEF Next, Abort

LEMMA Invariant == Spec => []Inv
BY InitInv, NextInv, PTL DEF Spec

-----------------------------------------------------------------------------
(* Each variable holds values of its type in every state.                  *)
THEOREM BatchTypeOK == Spec => []TypeOK
<1>1. Inv => TypeOK
  BY DEF Inv
<1> QED
  BY <1>1, Invariant, PTL

(***************************************************************************)
(* A batch that is sent again, or whose deliveries run beside each other,  *)
(* writes no sub-command twice (CommandSupport.replay, insertCommand).     *)
(***************************************************************************)
THEOREM WritesOnce == Spec => []NothingTwice
<1>1. Inv => NothingTwice
  BY DEF Inv
<1> QED
  BY <1>1, Invariant, PTL

(* All of an all_or_nothing batch is committed or none (executeAll).       *)
THEOREM WholeOrNothing == Spec => []AllOrNothing
<1>1. Inv => AllOrNothing
  BY DEF Inv
<1> QED
  BY <1>1, Invariant, PTL

(***************************************************************************)
(* What an answer, command_log or BatchCommitted calls committed is in the *)
(* tables (complete, replay).                                              *)
(***************************************************************************)
THEOREM HonestAnswers == Spec => []AnswersTellWhatIsWritten
<1>1. Inv => AnswersTellWhatIsWritten
  <2> SUFFICES ASSUME Inv
               PROVE  AnswersTellWhatIsWritten
    OBVIOUS
  <2>1. ASSUME NEW k \in Keys, announced[k] # None
        PROVE  Honest(announced[k])
    <3>1. announced[k] \in Outcome
      BY <2>1 DEF Inv, TypeOK
    <3>2. True(announced[k])
      BY <3>1 DEF Inv, Logged
    <3> QED
      BY <3>2 DEF True
  <2>2. ASSUME NEW t \in Threads, tx[t].reply = "accepted"
        PROVE  /\ Honest([req |-> tx[t].req, results |-> tx[t].results])
               /\ AllDone(tx[t].req)
    <3>1. Accepted(t)
      BY DEF Inv, ThreadInv
    <3> QED
      BY <2>2, <3>1 DEF Accepted, True
  <2> QED
    BY <2>1, <2>2 DEF AnswersTellWhatIsWritten, AllDone
<1> QED
  BY <1>1, Invariant, PTL

=============================================================================
