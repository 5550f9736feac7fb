---------------------------- MODULE RelationGraph ----------------------------
(***************************************************************************)
(* What the relation commands promise of one relation type: a graph whose  *)
(* edges are made and moved between live objects only, one step at a time, *)
(* and go when an object is archived or deleted.  RelationCommands, with   *)
(* its transactions and row locks, implements it.                          *)
(***************************************************************************)
CONSTANTS Objects, Relations, OneToMany

VARIABLES
  status,   \* the status of each object
  edges,    \* the active relations
  used      \* the ids that have a row, active or not

graph == << status, edges, used >>

Edge == [rel : Relations, src : Objects, tgt : Objects]

GraphInit ==
  /\ status = [o \in Objects |-> "LIVE"]
  /\ edges = {}
  /\ used = {}

(* A candidate beside the other active relations.                          *)
Fits(e, others) ==
  /\ e.src # e.tgt
  /\ status[e.src] = "LIVE" /\ status[e.tgt] = "LIVE"
  /\ \A q \in others : << q.src, q.tgt >> # << e.src, e.tgt >>
  /\ OneToMany => \A q \in others : q.tgt # e.tgt

(* CreateRelation.                                                         *)
Link(e) ==
  /\ e.rel \notin used
  /\ Fits(e, edges)
  /\ edges' = edges \cup {e}
  /\ used' = used \cup {e.rel}
  /\ UNCHANGED status

(* UpdateRelation.                                                         *)
Redirect(e, f) ==
  /\ f.rel = e.rel
  /\ Fits(f, edges \ {e})
  /\ edges' = (edges \ {e}) \cup {f}
  /\ UNCHANGED << status, used >>

(* Unlink, and Archive and SoftDelete of a relation.                       *)
Drop(e) ==
  /\ edges' = edges \ {e}
  /\ UNCHANGED << status, used >>

(* ChangeState of an object keeps its relations, also on the way to VOID.  *)
Turn(o, s) ==
  /\ status[o] \in {"LIVE", "FILED"}
  /\ s = "LIVE" => status[o] = "LIVE"
  /\ status' = [status EXCEPT ![o] = s]
  /\ UNCHANGED << edges, used >>

(* Archive and SoftDelete of an object end the relations it is in.         *)
Remove(o, s) ==
  /\ status' = [status EXCEPT ![o] = s]
  /\ edges' = {e \in edges : o \notin {e.src, e.tgt}}
  /\ UNCHANGED used

GraphNext ==
  \/ \E e \in Edge : Link(e)
  \/ \E e \in edges, f \in Edge : Redirect(e, f)
  \/ \E e \in edges : Drop(e)
  \/ \E o \in Objects, s \in {"LIVE", "FILED", "VOID"} : Turn(o, s)
  \/ \E o \in Objects, s \in {"VOID", "DELETED"} : Remove(o, s)

GraphSpec == GraphInit /\ [][GraphNext]_graph

-----------------------------------------------------------------------------
GraphTypeOK ==
  /\ status \in [Objects -> {"LIVE", "FILED", "VOID", "DELETED"}]
  /\ edges \subseteq Edge
  /\ used \subseteq Relations

(* An id names one active relation, which has a row.                       *)
OneRow ==
  /\ \A e, f \in edges : e.rel = f.rel => e = f
  /\ \A e \in edges : e.rel \in used

(* Nothing is related to itself, or twice, or of one_to_many to two parents. *)
OneEdge ==
  /\ \A e \in edges : e.src # e.tgt
  /\ \A e, f \in edges : e # f =>
       /\ << e.src, e.tgt >> # << f.src, f.tgt >>
       /\ OneToMany => e.tgt # f.tgt

(* No active relation leads to or from a deleted object.                   *)
NoEdgeToDeleted ==
  \A e \in edges : status[e.src] # "DELETED" /\ status[e.tgt] # "DELETED"

GraphInv == GraphTypeOK /\ OneRow /\ OneEdge /\ NoEdgeToDeleted

=============================================================================
