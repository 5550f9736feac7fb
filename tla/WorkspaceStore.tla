--------------------------- MODULE WorkspaceStore ---------------------------
(***************************************************************************)
(* The copy of a workspace a browser keeps (workspace-store.ts): the       *)
(* objects and relations on the screen, the edits a user makes to them at  *)
(* once, and the steps by which the write bridge (WriteBridge) brings them *)
(* into line with the kernel.  Views, field references, the activity list  *)
(* and change events follow an object or are for display; left out.        *)
(***************************************************************************)
EXTENDS Naturals, Sequences, FiniteSets

CONSTANTS
  Servers,     \* object ids the kernel gives
  Temps,       \* ids the store invents for objects it creates
  Links,       \* relation ids the kernel gives
  TempLinks,   \* ids the store invents for relations
  Fields,
  Values,      \* with 0, the value every loaded field has
  None         \* no object, no relation

ASSUME IdsApart ==
  /\ Servers \cap Temps = {} /\ Links \cap TempLinks = {}
  /\ 0 \in Values
  /\ None \notin Servers \cup Temps \cup Links \cup TempLinks

VARIABLES
  objects,    \* id -> what is shown of the object, None when nothing is
  relations   \* id -> the relation shown

store == << objects, relations >>

Ids    == Servers \cup Temps
RelIds == Links \cup TempLinks

DataObject   == [version : Nat, live : BOOLEAN, val : [Fields -> Values]]
DataRelation == [src : Ids, tgt : Ids, active : BOOLEAN, version : Nat]

ASSUME NoneIsNoRow == None \notin DataObject \cup DataRelation

StoreTypeOK ==
  /\ objects \in [Ids -> DataObject \cup {None}]
  /\ relations \in [RelIds -> DataRelation \cup {None}]

Shown(o)   == objects[o] # None
Present(r) == relations[r] # None
Touches(r, o) == relations[r] # None /\ o \in {relations[r].src, relations[r].tgt}

-----------------------------------------------------------------------------
(* What the user does, at once and without waiting for the kernel.         *)

UpdateField(o, f, v) ==
  /\ Shown(o)
  /\ objects' = [objects EXCEPT ![o].version = @ + 1, ![o].val[f] = v]
  /\ UNCHANGED relations

CreateObject(n, val) ==
  /\ ~Shown(n)
  /\ objects' = [objects EXCEPT ![n] = [version |-> 1, live |-> TRUE, val |-> val]]
  /\ UNCHANGED relations

CreateRelation(m, a, b) ==
  /\ ~Present(m)
  /\ relations' = [relations EXCEPT ![m] =
                     [src |-> a, tgt |-> b, active |-> TRUE, version |-> 1]]
  /\ UNCHANGED objects

UnlinkRelation(r) ==
  /\ Present(r)
  /\ relations' = [relations EXCEPT ![r].active = FALSE, ![r].version = @ + 1]
  /\ UNCHANGED objects

(* Also removeObject, which takes back a creation the kernel refused.      *)
DeleteObject(o) ==
  /\ objects' = [objects EXCEPT ![o] = None]
  /\ relations' = [r \in RelIds |-> IF Touches(r, o) THEN None ELSE relations[r]]

(* What deleteObject keeps to undo itself.                                 *)
Snapshot(o) ==
  [obj |-> objects[o], rels |-> [r \in RelIds |-> IF Touches(r, o) THEN relations[r] ELSE None]]

-----------------------------------------------------------------------------
(* What the bridge does.                                                   *)

(* The id given instead of a temporary one, in an endpoint.                *)
Renamed(r, from, to) ==
  IF r = None THEN None
  ELSE [r EXCEPT !.src = IF @ = from THEN to ELSE @, !.tgt = IF @ = from THEN to ELSE @]

(* Mutant of RollbackField: an object that is gone is put back.            *)
RollbackRevives(o, prev, prevId) ==
  /\ objects' = [x \in Ids |-> IF x = o THEN prev
                               ELSE IF x = prevId THEN None ELSE objects[x]]
  /\ UNCHANGED relations

(* The object as it was before the edit, in the place it has now.          *)
RollbackField(o, prev, prevId) ==
  /\ objects' = IF Shown(o) \/ Shown(prevId)
                THEN [x \in Ids |-> IF x = o THEN prev
                                    ELSE IF x = prevId THEN None ELSE objects[x]]
                ELSE objects
  /\ UNCHANGED relations

(* A row of the server replaces what is shown unless that is newer.        *)
Reconciled(o, row) ==
  IF Shown(o) /\ objects[o].version <= row.version THEN row ELSE objects[o]

ReconcileObject(o, row) ==
  /\ objects' = [objects EXCEPT ![o] = Reconciled(o, row)]
  /\ UNCHANGED relations

(* Mutant of ReconcileObjectId: the relations keep the temporary id.       *)
ReconcileObjectOnly(n, o, row) ==
  /\ objects' = IF Shown(n) THEN [objects EXCEPT ![n] = None, ![o] = row] ELSE objects
  /\ UNCHANGED relations

ReconcileObjectId(n, o, row) ==
  /\ objects' = IF Shown(n) THEN [objects EXCEPT ![n] = None, ![o] = row] ELSE objects
  /\ relations' = [r \in RelIds |-> Renamed(relations[r], n, o)]

(* Mutant of RestoreObject: what is put back is the snapshot itself.       *)
RestoreSnapshot(o, snap, origId) ==
  /\ objects' = [x \in Ids |-> IF x = o THEN snap
                               ELSE IF x = origId THEN None ELSE objects[x]]
  /\ UNCHANGED relations

(* The snapshot of a refused deletion is put back.                         *)
RestoreObject(o, snap, origId) ==
  /\ objects' = [x \in Ids |-> IF x = o THEN snap.obj
                               ELSE IF x = origId THEN None ELSE objects[x]]
  /\ relations' = [r \in RelIds |->
       IF snap.rels[r] # None THEN Renamed(snap.rels[r], origId, o) ELSE relations[r]]

RemoveRelation(m) ==
  /\ relations' = [relations EXCEPT ![m] = None]
  /\ UNCHANGED objects

ReconcileRelationId(m, r, row) ==
  /\ relations' = IF Present(m) THEN [relations EXCEPT ![m] = None, ![r] = row] ELSE relations
  /\ UNCHANGED objects

ReconcileRelation(r, row) ==
  /\ relations' = IF Present(r) THEN [relations EXCEPT ![r] = row] ELSE relations
  /\ UNCHANGED objects

=============================================================================
