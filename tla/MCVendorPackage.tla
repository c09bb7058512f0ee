-------------------------- MODULE MCVendorPackage --------------------------
(***************************************************************************)
(* Instances of VendorPackage for TLC.                                     *)
(***************************************************************************)
EXTENDS PackageRefinement, TLC

\* Runs differ only by name.
Symmetric == Permutations(Builder)
=============================================================================
