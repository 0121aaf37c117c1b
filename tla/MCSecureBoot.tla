---------------------------- MODULE MCSecureBoot ----------------------------
(* The bootloader of a device with two slots, for TLC. *)
EXTENDS SecureBoot
=============================================================================
