-------------------------- MODULE MCVendorCommand ---------------------------
(* Small instances of VendorCommand for TLC. *)
EXTENDS VendorCommand, TLC
=============================================================================
