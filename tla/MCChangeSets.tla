---------------------------- MODULE MCChangeSets ----------------------------
(***************************************************************************)
(* Instances of ChangeSets for TLC: what the sets change and what clients  *)
(* ask of them.                                                            *)
(***************************************************************************)
EXTENDS ChangeSets, TLC

Ask(kind, s, qs, k) == [kind |-> kind, set |-> s, items |-> qs, key |-> k]

(* Two sets change two objects in opposite orders; one creates another.    *)
CrossedTargets == "s1" :> << "a", "b" >> @@ "s2" :> << "b", NewObject, "a" >>

(***************************************************************************)
(* The first set is confirmed item by item and rejected, with retries and  *)
(* a key used twice; the second is confirmed beside it.                    *)
(***************************************************************************)
CrossedRequests ==
  { Ask("ProposeAiChange", "s1", {}, "k1"),
    Ask("ProposeAiChange", "s2", {}, "k2"),
    Ask("ConfirmAiChange", "s1", {1, 2}, "k3"),
    Ask("ConfirmAiChange", "s1", {2}, "k4"),
    Ask("RejectAiChange", "s1", {}, "k5"),
    Ask("ConfirmAiChange", "s2", {1, 2, 3}, "k6"),
    Ask("ConfirmAiChange", "s1", {9}, "k3") }

=============================================================================
