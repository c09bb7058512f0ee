------------------------------- MODULE Bootstrap -------------------------------
(***************************************************************************)
(* main() of rk_llm/host/bootstrap.py: the checkouts, then the runtime.    *)
(* Several runs may work on one project at the same time or after each     *)
(* other.                                                                  *)
(***************************************************************************)
EXTENDS Checkout, RuntimeAdoption

vars == <<runVars, edits, checkoutVars, adoptionVars>>

Init ==
    /\ CheckoutInit /\ AdoptionInit
    /\ pc = [r \in Run |-> "inspect"]
    /\ pos = [r \in Run |-> 1]
    /\ suffered = [r \in Run |-> {}]
    /\ edits = 0

Step(r) ==
    \/ CheckoutStep(r) /\ UNCHANGED <<edits, adoptionVars>>
    \/ AdoptionStep(r) /\ UNCHANGED <<edits, checkoutVars>>

Fault(r) ==
    \/ CheckoutRaise(r) /\ UNCHANGED <<edits, adoptionVars>>
    \/ CheckoutCrash(r) /\ UNCHANGED <<edits, adoptionVars>>
    \/ AdoptionRaise(r) /\ UNCHANGED <<edits, checkoutVars>>
    \/ LeaveBehind(r)   /\ UNCHANGED <<edits, checkoutVars>>
    \/ AdoptionCrash(r) /\ UNCHANGED <<edits, checkoutVars>>

Competitor ==
    \/ \E p \in Repository : EditCheckout(p) /\ UNCHANGED adoptionVars
    \/ \E p \in Repository : RestoreCheckout(p) /\ UNCHANGED adoptionVars
    \/ \E f \in File : EditSource(f) /\ UNCHANGED checkoutVars
    \/ \E k \in Foreign : PlaceRuntime(k) /\ UNCHANGED checkoutVars

\* Every run has ended; the system rests.
Finished == (\A r \in Run : pc[r] \in Ended) /\ UNCHANGED vars

Next == (\E r \in Run : Step(r) \/ Fault(r)) \/ Competitor \/ Finished

Spec == Init /\ [][Next]_vars

\* Runs are sequential processes whose commands return: while one can go on,
\* one does.  None goes on for ever, so that none is starved.  No fault and no
\* user's edit has to happen.
Fairness == WF_vars(\E r \in Run : Step(r))

FairSpec == Spec /\ Fairness

-----------------------------------------------------------------------------
RunTypeOK ==
    /\ pc \in [Run -> Checking \cup Adopting \cup Ended]
    /\ pos \in [Run -> Int]
    /\ suffered \in [Run -> SUBSET Faults]
    /\ edits \in 0 .. MaxEdits
    /\ \A r \in Run : pc[r] \in Checking => pos[r] \in Repository
    /\ \A r \in Run : pc[r] \in Adopting => pos[r] \in File

TypeOK == RunTypeOK /\ CheckoutTypeOK /\ AdoptionTypeOK

\* r has done nothing yet.
Fresh(r) == pc[r] = "inspect" /\ pos[r] = 1

\* r has left the repository p behind, and reports it as checked out.
Past(r, p) ==
    \/ pc[r] \in Checking /\ p < pos[r]
    \/ pc[r] \in Adopting \cup {"done"}

\* HEAD, index and files are at the pin, but for what a user edited.
Exact(p) ==
    /\ kind[p] = "clone" /\ head[p] = "pinned" /\ index[p] = "pinned"
    /\ tree[p] \in {"pinned", "edited"}

\* "the pinned origin and exact revision" (host-setup.md): a checkout that a run
\* has left behind is complete at the pin, and stays so whatever other runs do,
\* also those that go on in its clone before it is made.  That run itself must
\* not have gone on in a clone that another was still making.
CheckoutExact ==
    \A p \in Repository : \A r \in Run \ joined[p] : Past(r, p) => Exact(p)

\* "fails if a vendor checkout has uncommitted changes instead of deleting
\* them" (the workflow design): no run, failing or not, undoes a user's edit,
\* also one made after git status and before git checkout.  The one exception is
\* a clone that fails after another run has gone on in it, so that there were
\* files to edit: git removes them with the clone.
LocalWorkKept ==
    [][\A p \in Repository :
         pc' # pc /\ tree[p] = "edited" /\ tree'[p] # "edited" =>
         \E r \in Run : /\ pc[r] = "cloning" /\ pos[r] = p /\ pc'[r] = "failed"
                        /\ joined[p] \ {r} # {}]_vars

\* "fetches and checks out the exact commit when present" (the workflow design):
\* a run that works alone rejects a checkout as changed only if a user changed
\* it.
OnlyEditsRejected ==
    [][\A r \in Run :
         /\ pc[r] = "inspect" /\ pc'[r] = "rejected"
         /\ \A o \in Run \ {r} : pc[o] \in Ended \/ Fresh(o)
         => tree[pos[r]] = "edited"]_vars

\* "Verify and atomically adopt": a directory that a run has put at the
\* destination holds every pinned file, whatever happens to the SDK meanwhile.
AdoptedWhole == \A r \in Run : named[r] = "runtime" => Whole(r)

\* When a run has succeeded, all pinned files are at the destination, adopted or
\* found there; extra files are allowed.
AdoptionStands ==
    \A r \in Run : pc[r] = "done" => \E t \in Runtime : Whole(t)

\* What is at the destination and is not empty is never replaced or changed,
\* also if it appears between the lookup and the rename.
ExistingKept ==
    [][\A t \in Tree : named[t] = "runtime" /\ held[t] # Empty
                       => UNCHANGED <<named[t], held[t]>>]_vars

\* A run leaves no temporary directory, unless its cleanup fails, it is killed,
\* or a Ctrl-C is seen between mkdtemp and the try statement, which are one step.
NoTemporaryLeft ==
    \A r \in Run : pc[r] \in Ended /\ named[r] = "temporary"
                   => suffered[r] \cap {"cleanup", "crash"} # {}

\* Checkouts that are absent or clean, and a runtime that is absent or whole.
Usable ==
    /\ \A p \in Repository :
          kind[p] = "absent" \/ (kind[p] = "clone" /\ Clean(p) /\ ~lock[p])
    /\ \A t \in Runtime : Whole(t)

\* A user has edited something that the run needs, or put something in its way.
Disturbed ==
    \/ \E p \in Repository : tree[p] = "edited"
    \/ \E f \in File : source[f] # "pinned"
    \/ \E k \in Foreign : named[k] = "runtime"

\* A run that starts in a usable project when no other is under way succeeds
\* unless it suffers a fault or a user interferes: what killed runs left (clones
\* that never got a HEAD, temporary directories) is not in its way.
BootstrapSucceeds ==
    \A r \in Run :
        (/\ Fresh(r) /\ Usable /\ ~Disturbed
         /\ \A o \in Run \ {r} : pc[o] \in Ended)
        ~> (pc[r] = "done" \/ suffered[r] # {} \/ Disturbed)
=============================================================================
