-------------------------- MODULE PackageRefinement --------------------------
(***************************************************************************)
(* VendorPackage implements PackageStore as long as no signal and no power *)
(* loss occur.  (A run that a signal interrupts right after the rename     *)
(* takes its package back, and a power loss may undo the rename.)          *)
(***************************************************************************)
EXTENDS VendorPackage

\* The directories that have the name of a package.
Packages == {t \in Tree : tname[t] \notin Builder \cup {None}}

Shelf  == {<<tname[t], t>> : t \in Packages}
Sound  == {tname[t] : t \in {s \in Packages : Valid(s) /\ described[s] = tname[s]}}
Claims == {<<b, status[b], PayloadOf(b)>> : b \in {d \in Builder : status[d] # None}}

Store == INSTANCE PackageStore WITH
    Run      <- Builder,
    Outsider <- Foreign,
    Id       <- Payload,
    shelf    <- Shelf,
    sound    <- Sound,
    claims   <- Claims

\* "Never edits an existing package in place" (the workflow design), and more:
\* whatever failing calls, kills, races and edits of the Demo happen, the
\* builders behave as the store, in which a package appears in one step and
\* stays, and a run's report names what it put there, or found there whole.
ImplementsStore == Store!Spec
=============================================================================
