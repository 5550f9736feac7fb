----------------------------- MODULE MCBatches -----------------------------
(***************************************************************************)
(* Instances of Batches for TLC: what clients send.                        *)
(***************************************************************************)
EXTENDS Batches

Write(o, n) == [target |-> o, expected |-> n]
New         == Write(NewObject, 0)
Batch(k, mode, items) == [key |-> k, mode |-> mode, items |-> items]

(***************************************************************************)
(* Batches that write two objects in opposite orders, twice the same       *)
(* object, and a new one; a key that two different batches share.          *)
(***************************************************************************)
CrossedBatches ==
  { Batch("k1", "all_or_nothing", << Write("b", 1), Write("a", 1) >>),
    Batch("k2", "partial", << Write("a", 1), New, Write("a", 2) >>),
    Batch("k2", "all_or_nothing", << Write("a", 1), Write("b", 1) >>) }

=============================================================================
