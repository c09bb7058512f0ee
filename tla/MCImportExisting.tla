-------------------------- MODULE MCImportExisting --------------------------
(***************************************************************************)
(* Instances of ImportExisting for TLC.  The parents and the record follow *)
(* the Qwen2.5 manifest: "source" under artifacts/source_models, and       *)
(* "generated" under artifacts/work, where the record is too.              *)
(***************************************************************************)
EXTENDS ImportRefinement, TLC

CONSTANTS source_models, work

LocOfOne == (1 :> work)
LocOfTwo == (1 :> source_models) @@ (2 :> work)

\* Runs differ only by name.
Symmetric == Permutations(Importer)
=============================================================================
