-------------------------- MODULE ImportRefinement --------------------------
(***************************************************************************)
(* ImportExisting implements ArtifactStore as long as runs fail only by    *)
(* being killed or by losing a race.  (A run that an exception interrupts  *)
(* between the rename and its last check takes its category back.)         *)
(***************************************************************************)
EXTENDS ImportExisting

\* The run, or the other program, whose whole directory stands at a destination.
ProviderOf(c) ==
    LET d     == CurrentDir(LocOf[c])
        there == {t \in Tree : tname[t] = Dest(c) /\ tdir[t] = d /\ Whole(t)}
    IN  IF there = {} THEN None ELSE (CHOOSE t \in there : TRUE)[1]

OutcomeOf(p) == CASE pc[p] = "done"                -> "succeeded"
                  [] pc[p] \in Ended \ {"done"} -> "failed"
                  [] OTHER                         -> "pending"

Store == INSTANCE ArtifactStore WITH
    Run      <- Importer,
    Item     <- Category,
    Outsider <- Other,
    Nobody   <- None,
    provider <- [c \in Category |-> ProviderOf(c)],
    recorder <- record[CurrentDir(RecordLoc)],
    outcome  <- [p \in Importer |-> OutcomeOf(p)]

\* Whatever kills and races happen, and whatever directories other programs
\* put at free destinations, the importer behaves as the store: each category
\* is provided in one step and kept, the record is replaced in one step and
\* only when all categories stand whole, and success implies a record.
ImplementsStore == Store!Spec
=============================================================================
