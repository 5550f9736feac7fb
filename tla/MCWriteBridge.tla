--------------------------- MODULE MCWriteBridge ---------------------------
(***************************************************************************)
(* Instances of WriteBridge for TLC: what a user does in a session.        *)
(***************************************************************************)
EXTENDS WriteBridge, TLC

(***************************************************************************)
(* Edits of an object, one of them before it is deleted; a new object that *)
(* is edited or related before it is created, and the relation ended or an *)
(* end of it deleted while it is made.                                     *)
(***************************************************************************)
SyncSessions ==
  { << "update", "update", "delete" >>, << "create", "update", "update" >>,
    << "create", "relate", "update" >>, << "create", "relate", "unlink" >>,
    << "create", "relate", "delete" >> }

=============================================================================
