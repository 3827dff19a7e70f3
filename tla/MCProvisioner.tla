---------------------------- MODULE MCProvisioner ----------------------------
(* Small instances of Provisioner for TLC. *)
EXTENDS Provisioner

=============================================================================
