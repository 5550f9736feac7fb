------------------------- MODULE MCRelationCommands -------------------------
(***************************************************************************)
(* Instances of RelationCommands for TLC: which commands the clients send. *)
(* Ids are numbers because rows are locked in their order.                 *)
(***************************************************************************)
EXTENDS RelationCommands, TLC

CONSTANTS t1, t2

Swap == Permutations(Threads)

Blank ==
  [kind |-> "CreateRelation", obj |-> Absent, rel |-> Absent, src |-> Absent,
   tgt |-> Absent, to |-> Absent, expected |-> 1, policy |-> "reject"]

Relate(s, d) == [Blank EXCEPT !.src = s, !.tgt = d]

(* UpdateRelation with other endpoints; Absent keeps one.                  *)
Redirect(r, n, s, d) ==
  [Blank EXCEPT !.kind = "UpdateRelation", !.rel = r, !.expected = n, !.src = s, !.tgt = d]

End(kind, r, n) == [Blank EXCEPT !.kind = kind, !.rel = r, !.expected = n]

Remove(kind, o, n, policy) ==
  [Blank EXCEPT !.kind = kind, !.obj = o, !.expected = n, !.policy = policy]

Turn(o, n, s) == [Blank EXCEPT !.kind = "ChangeState", !.obj = o, !.expected = n, !.to = s]

-----------------------------------------------------------------------------
(***************************************************************************)
(* Lines drawn while their ends are deleted, archived, or filed,           *)
(* two parents for one child, a line moved while it is unlinked.           *)
(***************************************************************************)
RaceCommands ==
  { Relate(1, 3), Relate(2, 3), Relate(3, 1), Redirect(11, 1, 2, Absent), Redirect(12, 1, Absent, 1),
    End("Unlink", 11, 1), End("SoftDeleteRelation", 12, 1),
    Remove("Archive", 1, 1, "unlink"), Remove("SoftDelete", 3, 1, "unlink"),
    Remove("SoftDelete", 2, 1, "reject"), Turn(2, 1, "FILED") }

(***************************************************************************)
(* A hierarchy grown, regrafted and cut, its objects archived and deleted. *)
(***************************************************************************)
TreeCommands ==
  { Relate(1, 2), Relate(2, 3), Relate(3, 4), Relate(1, 4), Relate(4, 1), Relate(3, 1) }
  \cup { Redirect(11, n, s, Absent) : s \in {1, 3}, n \in 1 .. 2 }
  \cup { Redirect(12, 1, Absent, d) : d \in {1, 4} }
  \cup { End("Unlink", 11, n) : n \in 1 .. 2 }
  \cup { End("ArchiveRelation", 12, 1) }
  \cup { Remove("SoftDelete", 2, 1, "unlink"), Remove("Archive", 1, 1, "unlink") }

(* Two chains are joined by two clients at once.                           *)
ChainCommands == { Relate(1, 2), Relate(2, 3), Relate(3, 4), Relate(4, 1) }

=============================================================================
