------------------------------ MODULE MCLpUart ------------------------------
(* Instances of LpUart. *)
EXTENDS LpUart
=============================================================================
