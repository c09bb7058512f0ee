------------------------------ MODULE MCBootstrap ------------------------------
(***************************************************************************)
(* An instance of Bootstrap for TLC.                                       *)
(***************************************************************************)
EXTENDS BootstrapRefinement

Amid(r, Locations) ==
    pc[r] \in Locations /\ ~Fresh(r) /\ ~(pc[r] = "verify" /\ pos[r] = 1)

\* The two parts of a run share no state, and an adoption does the same whatever
\* the checkouts are.  Runs are therefore explored in the midst of an adoption
\* with no other in the midst of its checkouts, which are as they should be.
PartsApart ==
    (\E r \in Run : Amid(r, Adopting)) =>
        /\ \A r \in Run : ~Amid(r, Checking)
        /\ \A p \in Repository : Exact(p) /\ Clean(p) /\ ~lock[p] /\ joined[p] = {}
=============================================================================
