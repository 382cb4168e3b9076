----------------------------- MODULE MCRdbSave ------------------------------
(***************************************************************************)
(* RdbSave with two save points, as redis.conf has three: an early one for *)
(* many changes and a late one for any change.                             *)
(***************************************************************************)
EXTENDS RdbSave

TwoSavePoints == {[seconds |-> 0, changes |-> 2], [seconds |-> 1, changes |-> 1]}

=============================================================================
