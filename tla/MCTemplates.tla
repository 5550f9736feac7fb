---------------------------- MODULE MCTemplates ----------------------------
(***************************************************************************)
(* Instance of Templates for TLC: fields that are optional or required,    *)
(* limited or not; each can be relaxed, and none is every one's.           *)
(***************************************************************************)
EXTENDS Templates

Field(required, limit) == [required |-> required, limit |-> limit]

RelaxableFields == {Field(TRUE, 1), Field(FALSE, 1), Field(FALSE, 2)}

=============================================================================
