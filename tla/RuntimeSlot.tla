---------------------------- MODULE RuntimeSlot ----------------------------
(***************************************************************************)
(* What the adoption of the runtime promises to the runs that share a      *)
(* project: a slot that is filled once.  A run fills it with the whole     *)
(* runtime, in one step; users fill it with anything; an empty directory   *)
(* counts as no filling.  What fills it stays for good, and a run is       *)
(* satisfied only with a slot that holds the whole runtime.                *)
(***************************************************************************)
CONSTANTS Run, User, Nobody

VARIABLES
    slot,      \* "free", "vacant" (an empty directory), "whole" or "partial"
    owner,     \* who put there what the slot holds
    satisfied  \* runs that reported success

vars == <<slot, owner, satisfied>>

Init == slot = "free" /\ owner = Nobody /\ satisfied = {}

\* A run fills a slot, in one step.
Adopt(r) ==
    /\ slot \in {"free", "vacant"} /\ r \notin satisfied
    /\ slot' = "whole" /\ owner' = r
    /\ UNCHANGED satisfied

\* A user puts a directory there.
Occupy(u) ==
    /\ slot = "free"
    /\ slot' \in {"vacant", "whole", "partial"} /\ owner' = u
    /\ UNCHANGED satisfied

Satisfy(r) ==
    /\ slot = "whole" /\ r \notin satisfied
    /\ satisfied' = satisfied \cup {r}
    /\ UNCHANGED <<slot, owner>>

Next == \/ \E r \in Run : Adopt(r) \/ Satisfy(r)
        \/ \E u \in User : Occupy(u)

Spec == Init /\ [][Next]_vars
=============================================================================
