-------------------------- MODULE MCObjectCommands --------------------------
(***************************************************************************)
(* Instances of ObjectCommands for TLC: which commands the clients send.   *)
(***************************************************************************)
EXTENDS ObjectCommands, TLC

CONSTANTS o1, o2, name, cost, x, y, v1, v2, k1, k2, k3, k4, t1, t2

None == [f \in Fields |-> Absent]

(* Just the field f set to v, or just the version n expected of it.        *)
Only(f, v) == [g \in Fields |-> IF g = f THEN v ELSE Absent]
Both(v, w) == [g \in Fields |-> IF g = name THEN v ELSE w]

Create(k, s, set) ==
  [key |-> k, kind |-> "CreateObject", obj |-> Absent, from |-> Absent, to |-> s,
   expected |-> 0, set |-> set, fexp |-> None]

Update(k, o, n, set, fexp) ==
  [key |-> k, kind |-> "UpdateFields", obj |-> o, from |-> Absent, to |-> Absent,
   expected |-> n, set |-> set, fexp |-> fexp]

Move(k, o, n, from, to) ==
  [key |-> k, kind |-> "ChangeState", obj |-> o, from |-> from, to |-> to,
   expected |-> n, set |-> None, fexp |-> None]

Void(k, o, n) ==
  [key |-> k, kind |-> "Archive", obj |-> o, from |-> Absent, to |-> Absent,
   expected |-> n, set |-> None, fexp |-> None]

Delete(k, o, n) == [Void(k, o, n) EXCEPT !.kind = "SoftDelete"]

-----------------------------------------------------------------------------
(***************************************************************************)
(* Two clients create objects whose unique values collide, some locking    *)
(* both values in either order; they update the same and different fields, *)
(* by object and by field versions, null a field and move a value to the   *)
(* other object, while the first one goes through its states, is archived  *)
(* or deleted.  Keys come back, with the same payload and with others.     *)
(***************************************************************************)
RaceCommands ==
  { Create(k1, "DRAFT", Only(name, x)),
    Create(k1, "DRAFT", None),
    Create(k2, "PENDING_CONFIRM", Both(y, x)),
    Create(k3, "DRAFT", Both(y, x)),
    Update(k2, o1, 1, Only(cost, y), None),
    Update(k3, o1, 1, Both(y, Null), Both(1, 0)),
    Update(k3, o2, 1, Only(name, x), Only(name, 1)),
    Move(k4, o1, 1, "DRAFT", "PENDING_CONFIRM"),
    Move(k2, o1, 2, "PENDING_CONFIRM", "CONFIRMED"),
    Update(k4, o1, 1, Only(name, Null), None),
    Void(k4, o1, 2), Delete(k4, o1, 1) }

JsonbXY == (x :> v1 @@ y :> v2)
=============================================================================
