------------------------------- MODULE MCFota -------------------------------
(* Instances of Fota for TLC. *)
EXTENDS Fota, TLC

MCFileLen == [u \in Uris |-> 5]
=============================================================================
