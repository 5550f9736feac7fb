---------------------------- MODULE MCReadModel ----------------------------
(***************************************************************************)
(* Instances of ReadModel for TLC: what happens to the object.             *)
(***************************************************************************)
EXTENDS ReadModel, TLC

CONSTANTS s1, s2, name

Does(kind, fields) == [kind |-> kind, written |-> fields]

(***************************************************************************)
(* Two changes of one field around a status change, and a status change    *)
(* after the first value of a field.                                       *)
(***************************************************************************)
RaceHistories ==
  { << Does("ObjectCreated", {name}), Does("StateChanged", {}), Does("ObjectUpdated", {name}) >>,
    << Does("ObjectCreated", {}), Does("ObjectUpdated", {name}), Does("StateChanged", {}) >> }

(* An object is created with a field.                                      *)
CreatedHistory == { << Does("ObjectCreated", {name}) >> }

=============================================================================
