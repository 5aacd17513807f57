-------------------------- MODULE MCPackageRegistry --------------------------
(* Small instances of PackageRegistry for TLC. *)
EXTENDS PackageRegistry
=============================================================================
